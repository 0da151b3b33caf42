--------------------------- MODULE TaskStoreProofs ---------------------------
(***************************************************************************)
(* The task store under arbitrary callers: types, the open attempt of a    *)
(* running task, and the task state machine.                               *)
(***************************************************************************)
EXTENDS TaskStore, TLAPS

\* Zenon proves the leaves that cite no other prover.
USE ZenonT(30)

StoreInv == StoreTypeOK /\ RunningHasOpenAttempt

LEMMA StoreInitInv == StoreInit => StoreInv
<1> SUFFICES ASSUME StoreInit PROVE StoreInv
  OBVIOUS
<1>1. 0 \in Time /\ <<>> \in Seq(AttemptStatus)
  BY SMTT(30), TimeAssumption DEF Time
<1>2. StoreTypeOK
  BY <1>1 DEF StoreInit, StoreTypeOK, TaskStatus
<1>3. RunningHasOpenAttempt
  BY DEF StoreInit, RunningHasOpenAttempt
<1> QED BY <1>2, <1>3 DEF StoreInv

-----------------------------------------------------------------------------
(* Facts about the helpers that several statements share.                  *)

LEMMA ReleaseRowsFacts ==
    ASSUME StoreTypeOK, NEW S, NEW s \in TaskStatus, ReleaseRows(S, s)
    PROVE  /\ status' \in [Task -> TaskStatus]
           /\ workerId' \in [Task -> Worker \union {NoWorker}]
           /\ leaseLive' \in [Task -> BOOLEAN]
           /\ \A t \in Task : status'[t] = IF t \in S THEN s ELSE status[t]
BY DEF StoreTypeOK, ReleaseRows

LEMMA CloseOpenAttemptsFacts ==
    ASSUME StoreTypeOK, NEW S, NEW s \in AttemptStatus, CloseOpenAttempts(S, s)
    PROVE  /\ history' \in [Task -> Seq(AttemptStatus)]
           /\ \A t \in Task : Len(history'[t]) = Len(history[t])
           /\ \A t \in Task : t \notin S => history'[t] = history[t]
<1>1. \A t \in Task : history[t] \in Seq(AttemptStatus)
  BY DEF StoreTypeOK
<1> DEFINE closed(t) == [n \in DOMAIN history[t] |->
                           IF history[t][n] = "running" THEN s ELSE history[t][n]]
<1>2. \A t \in Task : closed(t) \in Seq(AttemptStatus) /\ Len(closed(t)) = Len(history[t])
  <2> SUFFICES ASSUME NEW t \in Task
               PROVE  closed(t) \in Seq(AttemptStatus) /\ Len(closed(t)) = Len(history[t])
    OBVIOUS
  <2>1. /\ Len(history[t]) \in Nat /\ DOMAIN history[t] = 1..Len(history[t])
        /\ \A n \in 1..Len(history[t]) : history[t][n] \in AttemptStatus
    BY SMTT(30), <1>1
  <2>2. closed(t) \in [1..Len(history[t]) -> AttemptStatus]
    BY <2>1
  <2> QED BY SMTT(30), <2>1, <2>2
<1>3. history' = [t \in Task |-> IF t \notin S THEN history[t] ELSE closed(t)]
  BY DEF CloseOpenAttempts
<1> HIDE DEF closed
<1> QED BY <1>1, <1>2, <1>3

\* The UPDATE of one attempt row, addressed by its number.
LEMMA CloseRowFacts ==
    ASSUME NEW h \in Seq(AttemptStatus), NEW n, NEW s \in AttemptStatus
    PROVE  [h EXCEPT ![n] = s] \in Seq(AttemptStatus) /\ Len([h EXCEPT ![n] = s]) = Len(h)
<1> DEFINE g == [h EXCEPT ![n] = s]
<1>1. Len(h) \in Nat /\ DOMAIN h = 1..Len(h) /\ \A i \in 1..Len(h) : h[i] \in AttemptStatus
  BY SMTT(30)
<1>2. g \in [1..Len(h) -> AttemptStatus]
  BY <1>1
<1> QED BY SMTT(30), <1>1, <1>2

-----------------------------------------------------------------------------
(* Every statement keeps the invariant.                                    *)

LEMMA CreateTaskInv ==
    ASSUME StoreInv, NEW t \in Task, NEW s \in {"ready", "pending"}, NEW due \in Time,
           CreateTask(t, s, due)
    PROVE  StoreInv'
<1>1. StoreTypeOK'
  BY DEF StoreInv, StoreTypeOK, CreateTask, TaskStatus
<1>2. RunningHasOpenAttempt'
  BY DEF StoreInv, StoreTypeOK, CreateTask, RunningHasOpenAttempt
<1> QED BY <1>1, <1>2 DEF StoreInv

LEMMA BeginAttemptInv ==
    ASSUME StoreInv, NEW t \in Task, NEW w \in Worker, BeginAttempt(t, w)
    PROVE  StoreInv'
<1> DEFINE h == Append(history[t], "running")
<1>1. history[t] \in Seq(AttemptStatus) /\ attempts[t] \in Nat /\ Len(history[t]) = attempts[t]
  BY DEF StoreInv, StoreTypeOK, RunningHasOpenAttempt
<1>2. h \in Seq(AttemptStatus) /\ Len(h) = attempts[t] + 1 /\ h[attempts[t] + 1] = "running"
  BY SMTT(30), <1>1 DEF AttemptStatus
<1>3. history' = [history EXCEPT ![t] = h]
  BY DEF BeginAttempt
<1> HIDE DEF h
<1>4. StoreTypeOK'
  BY SMTT(30), <1>2, <1>3 DEF StoreInv, StoreTypeOK, BeginAttempt, TaskStatus
<1>5. RunningHasOpenAttempt'
  BY SMTT(30), <1>1, <1>2, <1>3 DEF StoreInv, StoreTypeOK, BeginAttempt, RunningHasOpenAttempt
<1> QED BY <1>4, <1>5 DEF StoreInv

LEMMA LeaseInv ==
    ASSUME StoreInv, NEW t \in Task, LeaseExpires(t) \/ \E w \in Worker : RenewLease(t, w)
    PROVE  StoreInv'
<1>1. /\ UNCHANGED <<status, workerId, attempts, executeAfter, history>>
      /\ leaseLive' \in [Task -> BOOLEAN]
  BY DEF StoreInv, StoreTypeOK, LeaseExpires, RenewLease
<1> QED BY <1>1 DEF StoreInv, StoreTypeOK, RunningHasOpenAttempt

LEMMA CompleteAttemptInv ==
    ASSUME StoreInv, NEW t \in Task, NEW w \in Worker, NEW due \in Time,
           NEW outcome \in {"succeeded", "pending", "dead"}, CompleteAttempt(t, w, outcome, due)
    PROVE  StoreInv'
<1> DEFINE s == IF outcome = "succeeded" THEN "succeeded" ELSE "failed"
           h == [history[t] EXCEPT ![attempts[t]] = s]
<1>1. history[t] \in Seq(AttemptStatus) /\ s \in AttemptStatus /\ outcome \in TaskStatus
  BY DEF StoreInv, StoreTypeOK, AttemptStatus, TaskStatus
<1>2. h \in Seq(AttemptStatus) /\ Len(h) = Len(history[t])
  BY <1>1, CloseRowFacts
<1>3. history' = [history EXCEPT ![t] = h]
  BY DEF CompleteAttempt
<1>4. /\ status' \in [Task -> TaskStatus]
      /\ workerId' \in [Task -> Worker \union {NoWorker}]
      /\ leaseLive' \in [Task -> BOOLEAN]
      /\ \A u \in Task : status'[u] = IF u = t THEN outcome ELSE status[u]
  BY <1>1, ReleaseRowsFacts DEF StoreInv, CompleteAttempt
<1>5. executeAfter' \in [Task -> Time] /\ attempts' = attempts
  BY DEF StoreInv, StoreTypeOK, CompleteAttempt
<1> HIDE DEF h
<1>6. StoreTypeOK'
  BY <1>2, <1>3, <1>4, <1>5 DEF StoreInv, StoreTypeOK
<1>7. RunningHasOpenAttempt'
  BY <1>2, <1>3, <1>4, <1>5 DEF StoreInv, StoreTypeOK, RunningHasOpenAttempt
<1> QED BY <1>6, <1>7 DEF StoreInv

\* Preempt and ReclaimExpired: rows of running tasks go back to ready.
LEMMA TakeBackInv ==
    ASSUME StoreInv, NEW S, NEW s \in AttemptStatus,
           ReleaseRows(S, "ready"), CloseOpenAttempts(S, s), UNCHANGED <<attempts, executeAfter>>
    PROVE  StoreInv'
<1>1. "ready" \in TaskStatus /\ StoreTypeOK
  BY DEF TaskStatus, StoreInv
<1>2. /\ status' \in [Task -> TaskStatus]
      /\ workerId' \in [Task -> Worker \union {NoWorker}]
      /\ leaseLive' \in [Task -> BOOLEAN]
      /\ \A t \in Task : status'[t] = IF t \in S THEN "ready" ELSE status[t]
  BY <1>1, ReleaseRowsFacts
<1>3. /\ history' \in [Task -> Seq(AttemptStatus)]
      /\ \A t \in Task : Len(history'[t]) = Len(history[t])
      /\ \A t \in Task : t \notin S => history'[t] = history[t]
  BY <1>1, CloseOpenAttemptsFacts
<1>4. StoreTypeOK'
  BY <1>1, <1>2, <1>3 DEF StoreTypeOK
<1>5. RunningHasOpenAttempt'
  BY <1>2, <1>3 DEF StoreInv, RunningHasOpenAttempt
<1> QED BY <1>4, <1>5 DEF StoreInv

\* Statements that move rows to a status other than running and touch neither
\* attempts nor attempt rows.
LEMMA MoveInv ==
    ASSUME StoreInv, UNCHANGED <<attempts, history>>,
           status' \in [Task -> TaskStatus],
           workerId' \in [Task -> Worker \union {NoWorker}],
           leaseLive' \in [Task -> BOOLEAN],
           executeAfter' \in [Task -> Time],
           \A t \in Task : status'[t] = "running" => status[t] = "running"
    PROVE  StoreInv'
BY DEF StoreInv, StoreTypeOK, RunningHasOpenAttempt

LEMMA StoreNextInv == StoreInv /\ [StoreNext]_storeVars => StoreInv'
<1> SUFFICES ASSUME StoreInv, [StoreNext]_storeVars PROVE StoreInv'
  OBVIOUS
<1>1. ASSUME NEW t \in Task, NEW s \in {"ready", "pending"}, NEW due \in Time, CreateTask(t, s, due)
      PROVE  StoreInv'
  BY <1>1, CreateTaskInv
<1>2. ASSUME NEW t \in Task, NEW w \in Worker, BeginAttempt(t, w) PROVE StoreInv'
  BY <1>2, BeginAttemptInv
<1>3. ASSUME NEW t \in Task, NEW w \in Worker, RenewLease(t, w) PROVE StoreInv'
  BY <1>3, LeaseInv
<1>4. ASSUME NEW t \in Task, NEW w \in Worker, NEW outcome \in {"succeeded", "pending", "dead"},
             NEW due \in Time, CompleteAttempt(t, w, outcome, due)
      PROVE  StoreInv'
  BY <1>4, CompleteAttemptInv
<1>5. ASSUME NEW t \in Task, Preempt(t) PROVE StoreInv'
  BY <1>5, TakeBackInv DEF Preempt, AttemptStatus
<1>6. ASSUME NEW t \in Task, LeaseExpires(t) PROVE StoreInv'
  BY <1>6, LeaseInv
<1>7. ASSUME NEW t \in Task, CancelWrite(t) PROVE StoreInv'
  BY <1>7, MoveInv DEF CancelWrite, StoreInv, StoreTypeOK, TaskStatus
<1>8. ASSUME NEW Online \in SUBSET Worker, ReclaimExpired(Expired(Online)) PROVE StoreInv'
  BY <1>8, TakeBackInv DEF ReclaimExpired, AttemptStatus
<1>9. ASSUME NEW ids \in SUBSET Task, NEW now \in Time, MarkReadyByIDs(ids, now) PROVE StoreInv'
  BY <1>9, MoveInv DEF MarkReadyByIDs, StoreInv, StoreTypeOK, TaskStatus
<1>10. CASE RecoverInflight
  <2>1. StoreTypeOK /\ "ready" \in TaskStatus
    BY DEF StoreInv, TaskStatus
  <2>2. ReleaseRows({t \in Task : status[t] = "running"}, "ready")
    BY <1>10 DEF RecoverInflight
  <2> QED BY SMTT(30), <1>10, <2>1, <2>2, ReleaseRowsFacts, MoveInv DEF RecoverInflight, StoreTypeOK
<1>11. ASSUME NEW ids \in SUBSET Task, RetryDead(ids) PROVE StoreInv'
  <2>1. 0 \in Time
    BY SMTT(30), TimeAssumption DEF Time
  <2> QED BY <1>11, <2>1, MoveInv DEF RetryDead, StoreInv, StoreTypeOK, TaskStatus
<1>12. ASSUME NEW ids \in SUBSET Task, DiscardDead(ids) PROVE StoreInv'
  BY <1>12, MoveInv DEF DiscardDead, StoreInv, StoreTypeOK, TaskStatus
<1>13. CASE UNCHANGED storeVars
  BY <1>13 DEF storeVars, StoreInv, StoreTypeOK, RunningHasOpenAttempt
<1> QED
  BY <1>1, <1>2, <1>3, <1>4, <1>5, <1>6, <1>7, <1>8, <1>9, <1>10, <1>11, <1>12, <1>13
  DEF StoreNext, StoreCall

\* Whatever order the statements of internal/storage are called in, the current
\* attempt of a running task is its last, open row.
THEOREM StoreKeepsOpenAttempt == StoreSpec => []RunningHasOpenAttempt
<1>1. StoreInv => RunningHasOpenAttempt
  BY DEF StoreInv
<1> QED BY <1>1, StoreInitInv, StoreNextInv, PTL DEF StoreSpec

-----------------------------------------------------------------------------
(* The store implements the task state machine.                            *)

\* No edge leads back to a row that does not exist.
LEMMA NoneIsInitial == \A s \in TaskStatus : "none" \notin Lifecycle!Legal[s]
BY SMTT(30) DEF Lifecycle!Legal, TaskStatus

\* A statement that counts no attempt moves every row along a legal edge.
LEMMA LegalMove ==
    ASSUME StoreTypeOK, status' \in [Task -> TaskStatus], attempts' = attempts,
           \A t \in Task : status'[t] # status[t] =>
               status'[t] \in Lifecycle!Legal[status[t]] /\ status'[t] # "running"
    PROVE  Lifecycle!LNext
BY DEF Lifecycle!LNext, Lifecycle!Move

LEMMA StoreNextRefines ==
    StoreInv /\ [StoreNext]_storeVars => [Lifecycle!LNext]_<<status, attempts>>
<1> SUFFICES ASSUME StoreInv, StoreNext, ~UNCHANGED <<status, attempts>> PROVE Lifecycle!LNext
  BY DEF storeVars
<1> USE DEF Lifecycle!Legal
<1>0. StoreTypeOK /\ StoreTypeOK'
  BY StoreNextInv DEF StoreInv
<1>1. ASSUME NEW t \in Task, NEW s \in {"ready", "pending"}, NEW due \in Time, CreateTask(t, s, due)
      PROVE  Lifecycle!LNext
  BY SMTT(30), <1>0, <1>1, LegalMove DEF StoreTypeOK, CreateTask
<1>2. ASSUME NEW t \in Task, NEW w \in Worker, BeginAttempt(t, w) PROVE Lifecycle!LNext
  BY <1>2 DEF BeginAttempt, Lifecycle!LNext, Lifecycle!Begin
<1>3. ASSUME NEW t \in Task, NEW w \in Worker, NEW outcome \in {"succeeded", "pending", "dead"},
             NEW due \in Time, CompleteAttempt(t, w, outcome, due)
      PROVE  Lifecycle!LNext
  BY SMTT(30), <1>0, <1>3, LegalMove DEF StoreTypeOK, CompleteAttempt, ReleaseRows, Owns
<1>4. ASSUME NEW t \in Task, Preempt(t) PROVE Lifecycle!LNext
  BY SMTT(30), <1>0, <1>4, LegalMove DEF StoreTypeOK, Preempt, ReleaseRows
<1>5. ASSUME NEW t \in Task, status[t] # "none", CancelWrite(t) PROVE Lifecycle!LNext
  BY SMTT(30), <1>0, <1>5, LegalMove DEF StoreTypeOK, CancelWrite, TaskStatus
<1>6. ASSUME NEW Online \in SUBSET Worker, ReclaimExpired(Expired(Online)) PROVE Lifecycle!LNext
  BY SMTT(30), <1>0, <1>6, LegalMove DEF StoreTypeOK, ReclaimExpired, Expired, ReleaseRows
<1>7. ASSUME NEW ids \in SUBSET Task, NEW now \in Time, MarkReadyByIDs(ids, now)
      PROVE  Lifecycle!LNext
  BY SMTT(30), <1>0, <1>7, LegalMove DEF StoreTypeOK, MarkReadyByIDs, Promotable
<1>8. CASE RecoverInflight
  BY SMTT(30), <1>0, <1>8, LegalMove DEF StoreTypeOK, RecoverInflight, ReleaseRows
<1>9. ASSUME NEW ids \in SUBSET Task, RetryDead(ids) \/ DiscardDead(ids) PROVE Lifecycle!LNext
  BY SMTT(30), <1>0, <1>9, LegalMove DEF StoreTypeOK, RetryDead, DiscardDead, Dead
<1>10. ASSUME NEW t \in Task, LeaseExpires(t) \/ \E w \in Worker : RenewLease(t, w) PROVE FALSE
  BY <1>10 DEF LeaseExpires, RenewLease
<1> QED BY <1>1, <1>2, <1>3, <1>4, <1>5, <1>6, <1>7, <1>8, <1>9, <1>10 DEF StoreNext, StoreCall

\* The statements of internal/storage only move rows along the edges of the
\* state machine and count an attempt exactly when a ready row starts running.
THEOREM StoreImplementsLifecycle == StoreSpec => LifecycleSpec
<1>1. StoreInit => Lifecycle!LInit
  BY DEF StoreInit, Lifecycle!LInit
<1> QED BY <1>1, StoreInitInv, StoreNextInv, StoreNextRefines, PTL
        DEF StoreSpec, LifecycleSpec, Lifecycle!LSpec

\* canceled is final.
LEMMA CanceledStays ==
    ASSUME StoreInv, [StoreNext]_storeVars, NEW t \in Task, status[t] = "canceled"
    PROVE  status'[t] = "canceled"
<1>1. [Lifecycle!LNext]_<<status, attempts>>
  BY StoreNextRefines
<1>2. status \in [Task -> TaskStatus] /\ Lifecycle!Legal["canceled"] = {}
  BY DEF StoreInv, StoreTypeOK, Lifecycle!Legal
<1> QED BY <1>1, <1>2 DEF Lifecycle!LNext, Lifecycle!Move, Lifecycle!Begin

-----------------------------------------------------------------------------
(* Attempt rows left open.  Statement by statement: a row is orphaned only *)
(* by RecoverInflight and by a cancellation, and then it is the current    *)
(* attempt's.                                                              *)

\* Statements that leave t's attempts and whether it runs alone.
LEMMA SameOrphans ==
    ASSUME NEW t, history'[t] = history[t], attempts'[t] = attempts[t],
           status'[t] = "running" <=> status[t] = "running"
    PROVE  OrphanRows(t)' = OrphanRows(t)
BY DEF OrphanRows

LEMMA BeginOrphans ==
    ASSUME StoreInv, NEW u \in Task, NEW w, BeginAttempt(u, w), NEW t \in Task
    PROVE  OrphanRows(t)' \subseteq OrphanRows(t)
<1>0. /\ history \in [Task -> Seq(AttemptStatus)] /\ status \in [Task -> TaskStatus] /\ attempts \in [Task -> Nat]
      /\ Len(history[t]) = attempts[t]
  BY DEF StoreInv, StoreTypeOK, RunningHasOpenAttempt
<1>1. CASE u # t
  BY <1>0, <1>1, SameOrphans DEF BeginAttempt
<1>2. CASE u = t
  <2>1. history'[t] = Append(history[t], "running") /\ attempts'[t] = attempts[t] + 1 /\ status[t] = "ready" /\ status'[t] = "running"
    BY <1>0, <1>2 DEF BeginAttempt
  <2>2. \A n \in DOMAIN history'[t] : n = attempts'[t] \/ (n \in DOMAIN history[t] /\ history'[t][n] = history[t][n])
    BY SMTT(30), <1>0, <2>1
  <2> QED BY <2>1, <2>2 DEF OrphanRows
<1> QED BY <1>1, <1>2

LEMMA CompleteOrphans ==
    ASSUME StoreInv, NEW u \in Task, NEW w, NEW outcome \in {"succeeded", "pending", "dead"}, NEW due,
           CompleteAttempt(u, w, outcome, due), NEW t \in Task
    PROVE  OrphanRows(t)' \subseteq OrphanRows(t)
<1>0. /\ history \in [Task -> Seq(AttemptStatus)] /\ status \in [Task -> TaskStatus] /\ attempts' = attempts
  BY DEF StoreInv, StoreTypeOK, CompleteAttempt
<1>1. CASE u # t
  BY <1>0, <1>1, SameOrphans DEF CompleteAttempt, ReleaseRows
<1>2. CASE u = t
  <2> DEFINE s == IF outcome = "succeeded" THEN "succeeded" ELSE "failed"
  <2>1. history'[t] = [history[t] EXCEPT ![attempts[t]] = s] /\ s # "running" /\ status'[t] = outcome
    BY <1>0, <1>2 DEF CompleteAttempt, ReleaseRows
  <2>2. DOMAIN history'[t] = DOMAIN history[t]
    BY <2>1
  <2>3. \A n \in DOMAIN history[t] : history'[t][n] = "running" => history[t][n] = "running" /\ n # attempts[t]
    BY <2>1
  <2> QED BY <2>2, <2>3 DEF OrphanRows
<1> QED BY <1>1, <1>2

\* Preempt and ReclaimExpired close every open row of the tasks they take back.
LEMMA TakeBackOrphans ==
    ASSUME StoreInv, NEW S, NEW s \in AttemptStatus \ {"running"},
           ReleaseRows(S, "ready"), CloseOpenAttempts(S, s), UNCHANGED attempts, NEW t \in Task
    PROVE  OrphanRows(t)' \subseteq OrphanRows(t)
<1>1. CASE t \notin S
  BY <1>1, SameOrphans DEF ReleaseRows, CloseOpenAttempts
<1>2. CASE t \in S
  <2>1. history'[t] = [n \in DOMAIN history[t] |-> IF history[t][n] = "running" THEN s ELSE history[t][n]]
    BY <1>2 DEF CloseOpenAttempts
  <2>2. \A n \in DOMAIN history'[t] : history'[t][n] # "running"
    BY <2>1
  <2> QED BY <2>2 DEF OrphanRows
<1> QED BY <1>1, <1>2

\* Statements that change no attempt row can orphan at most the current one.
LEMMA MoveOrphans ==
    ASSUME NEW t \in Task, history'[t] = history[t], attempts'[t] = attempts[t]
    PROVE  /\ OrphanRows(t)' \subseteq OrphanRows(t) \union {attempts[t]}
           /\ status[t] # "running" => OrphanRows(t)' \subseteq OrphanRows(t)
BY DEF OrphanRows

LEMMA StoreOrphans ==
    ASSUME StoreInv, StoreCall \/ UNCHANGED storeVars, NEW t \in Task
    PROVE  \/ OrphanRows(t)' \subseteq OrphanRows(t)
           \/ /\ status[t] = "running" /\ status'[t] = "canceled"
              /\ OrphanRows(t)' \subseteq OrphanRows(t) \union {attempts[t]}
<1> DEFINE Fewer == OrphanRows(t)' \subseteq OrphanRows(t)
<1>0. status \in [Task -> TaskStatus]
  BY DEF StoreInv, StoreTypeOK
<1>1. ASSUME NEW u \in Task, NEW s \in {"ready", "pending"}, NEW due, CreateTask(u, s, due) PROVE Fewer
  BY <1>0, <1>1, SameOrphans DEF CreateTask
<1>2. ASSUME NEW u \in Task, NEW w, BeginAttempt(u, w) PROVE Fewer
  BY <1>2, BeginOrphans
<1>3. ASSUME NEW u \in Task, LeaseExpires(u) \/ \E w \in Worker : RenewLease(u, w) PROVE Fewer
  BY <1>3, SameOrphans DEF RenewLease, LeaseExpires
<1>4. ASSUME NEW u \in Task, NEW w, NEW outcome \in {"succeeded", "pending", "dead"}, NEW due,
             CompleteAttempt(u, w, outcome, due)
      PROVE  Fewer
  BY <1>4, CompleteOrphans
<1>5. ASSUME NEW u \in Task, Preempt(u) PROVE Fewer
  BY <1>5, TakeBackOrphans DEF Preempt, AttemptStatus
<1>6. ASSUME NEW u \in Task, CancelWrite(u)
      PROVE  \/ Fewer
             \/ /\ status[t] = "running" /\ status'[t] = "canceled"
                /\ OrphanRows(t)' \subseteq OrphanRows(t) \union {attempts[t]}
  <2>1. CASE u = t
    BY <1>0, <1>6, <2>1, MoveOrphans DEF CancelWrite
  <2>2. CASE u # t
    BY SMTT(30), <1>6, <2>2, SameOrphans DEF CancelWrite
  <2> QED BY <2>1, <2>2
<1>7. ASSUME NEW Online, ReclaimExpired(Expired(Online)) PROVE Fewer
  BY <1>7, TakeBackOrphans DEF ReclaimExpired, AttemptStatus
<1>8. ASSUME NEW ids, NEW instant, MarkReadyByIDs(ids, instant) PROVE Fewer
  BY <1>8, SameOrphans DEF MarkReadyByIDs, Promotable
<1>9. ASSUME NEW ids, RetryDead(ids) \/ DiscardDead(ids) PROVE Fewer
  BY <1>9, SameOrphans DEF RetryDead, DiscardDead, Dead
<1>10. CASE UNCHANGED storeVars
  BY <1>10, SameOrphans DEF storeVars
<1> QED BY <1>1, <1>2, <1>3, <1>4, <1>5, <1>6, <1>7, <1>8, <1>9, <1>10 DEF StoreCall

LEMMA RecoverOrphans ==
    ASSUME StoreInv, RecoverInflight, NEW t \in Task
    PROVE  /\ status'[t] # "running" /\ (status'[t] = "canceled" <=> status[t] = "canceled")
           /\ OrphanRows(t)' \subseteq OrphanRows(t) \union {attempts[t]}
           /\ status[t] # "running" => OrphanRows(t)' \subseteq OrphanRows(t)
<1>1. history'[t] = history[t] /\ attempts'[t] = attempts[t]
  BY DEF RecoverInflight
<1>2. status'[t] # "running" /\ (status'[t] = "canceled" <=> status[t] = "canceled")
  BY DEF RecoverInflight, ReleaseRows
<1> QED BY <1>1, <1>2, MoveOrphans

-----------------------------------------------------------------------------
(* Statements that neither begin nor decide an attempt.                    *)

Verdicts == {"succeeded", "failed"}

\* What every step but a dispatch and a report leaves alone of t's row.
Quiet(t) ==
    /\ attempts'[t] = attempts[t]
    /\ status'[t] = "running" => status[t] = "running" /\ workerId'[t] = workerId[t]
    /\ \A n \in DOMAIN history[t] : history'[t][n] \in Verdicts => history[t][n] \in Verdicts

LEMMA SameRows == ASSUME UNCHANGED <<status, workerId, attempts, history>>, NEW t PROVE Quiet(t)
BY DEF Quiet

LEMMA TakenBackIsQuiet ==
    ASSUME NEW S, NEW s, s \notin Verdicts, ReleaseRows(S, "ready"), UNCHANGED attempts,
           CloseOpenAttempts(S, s), NEW t \in Task
    PROVE  Quiet(t)
<1>1. attempts'[t] = attempts[t] /\ (status'[t] = "running" => status[t] = "running" /\ workerId'[t] = workerId[t])
  BY DEF ReleaseRows
<1>2. CASE t \notin S
  BY <1>1, <1>2 DEF CloseOpenAttempts, Quiet
<1>3. CASE t \in S
  <2>1. history'[t] = [n \in DOMAIN history[t] |-> IF history[t][n] = "running" THEN s ELSE history[t][n]]
    BY <1>3 DEF CloseOpenAttempts
  <2>2. \A n \in DOMAIN history[t] : history'[t][n] \in Verdicts => history[t][n] \in Verdicts
    BY <2>1
  <2> QED BY <1>1, <2>2 DEF Quiet
<1> QED BY <1>2, <1>3

-----------------------------------------------------------------------------
(* Rows that do not run.                                                   *)

Parked == {"pending", "ready", "canceled"}

\* Until it runs, such a row keeps its execute_after and stays such a row.
LEMMA ParkedStays ==
    ASSUME StoreInv, [StoreNext]_storeVars, NEW t \in Task, status[t] \in Parked, status'[t] # "running"
    PROVE  status'[t] \in Parked /\ executeAfter'[t] = executeAfter[t]
<1>0. status \in [Task -> TaskStatus] /\ executeAfter \in [Task -> Time]
  BY DEF StoreInv, StoreTypeOK
<1>1. ASSUME NEW u \in Task, NEW s, NEW due, CreateTask(u, s, due)
      PROVE  status'[t] = status[t] /\ executeAfter'[t] = executeAfter[t]
  BY <1>0, <1>1 DEF CreateTask, Parked
<1>2. ASSUME NEW u \in Task, NEW w, BeginAttempt(u, w) \/ RenewLease(u, w)
      PROVE  status'[t] = status[t] /\ executeAfter'[t] = executeAfter[t]
  BY <1>0, <1>2 DEF BeginAttempt, RenewLease
<1>3. ASSUME NEW u \in Task, NEW w, NEW outcome, NEW due, CompleteAttempt(u, w, outcome, due)
      PROVE  status'[t] = status[t] /\ executeAfter'[t] = executeAfter[t]
  BY <1>0, <1>3 DEF CompleteAttempt, ReleaseRows, Owns, Parked
<1>4. ASSUME NEW u \in Task, Preempt(u) \/ LeaseExpires(u) \/ CancelWrite(u)
      PROVE  status'[t] \in Parked /\ executeAfter'[t] = executeAfter[t]
  BY <1>0, <1>4 DEF Preempt, LeaseExpires, CancelWrite, ReleaseRows, Parked
<1>5. ASSUME NEW S, ReclaimExpired(S) PROVE status'[t] \in Parked /\ executeAfter'[t] = executeAfter[t]
  BY <1>0, <1>5 DEF ReclaimExpired, ReleaseRows, Parked
<1>6. ASSUME NEW ids, NEW instant, MarkReadyByIDs(ids, instant)
      PROVE  status'[t] \in Parked /\ executeAfter'[t] = executeAfter[t]
  BY <1>0, <1>6 DEF MarkReadyByIDs, Parked
<1>7. ASSUME NEW ids, RetryDead(ids) \/ DiscardDead(ids)
      PROVE  status'[t] = status[t] /\ executeAfter'[t] = executeAfter[t]
  BY <1>0, <1>7 DEF RetryDead, DiscardDead, Dead, Parked
<1>8. CASE RecoverInflight
  BY <1>0, <1>8 DEF RecoverInflight, ReleaseRows, Parked
<1>9. CASE UNCHANGED storeVars
  BY <1>9 DEF storeVars
<1> QED BY <1>1, <1>2, <1>3, <1>4, <1>5, <1>6, <1>7, <1>8, <1>9 DEF StoreNext, StoreCall

\* A row waits because it waited before, was submitted with a delay or has
\* just failed.
LEMMA PendingComes ==
    ASSUME StoreInv, [StoreNext]_storeVars, NEW t \in Task, status'[t] = "pending"
    PROVE  \/ status[t] = "pending" /\ executeAfter'[t] = executeAfter[t]
           \/ status[t] \in {"none", "running"}
<1>0. status \in [Task -> TaskStatus]
  BY DEF StoreInv, StoreTypeOK
<1>1. CASE status[t] \in Parked
  <2>1. ASSUME status[t] \in {"ready", "canceled"} PROVE FALSE
    <3>1. [Lifecycle!LNext]_<<status, attempts>>
      BY StoreNextRefines
    <3>2. "pending" \notin Lifecycle!Legal["ready"] /\ "pending" \notin Lifecycle!Legal["canceled"]
      BY DEF Lifecycle!Legal
    <3> QED BY <1>0, <2>1, <3>1, <3>2 DEF Lifecycle!LNext, Lifecycle!Move, Lifecycle!Begin
  <2> QED BY <1>1, <2>1, ParkedStays DEF Parked
<1>2. CASE status[t] \in {"succeeded", "dead"}
  <2>1. [Lifecycle!LNext]_<<status, attempts>>
    BY StoreNextRefines
  <2>2. "pending" \notin Lifecycle!Legal["succeeded"] /\ "pending" \notin Lifecycle!Legal["dead"]
    BY DEF Lifecycle!Legal
  <2> QED BY <1>0, <1>2, <2>1, <2>2 DEF Lifecycle!LNext, Lifecycle!Move, Lifecycle!Begin
<1> QED BY <1>0, <1>1, <1>2 DEF TaskStatus, Parked
=============================================================================
