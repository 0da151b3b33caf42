------------------------ MODULE ExternalWorkerProofs ------------------------
(***************************************************************************)
(* What an external worker was given and has not reported is undecided, on *)
(* a slot of its own, for any tasks, workers, slots and bounds.            *)
(***************************************************************************)
EXTENDS ExternalProofs

\* Zenon proves the leaves that cite no other prover.
USE ZenonT(30)

\* CompleteAttempt by v, for the rows of another worker and for other rows.
LEMMA ReportRows ==
    ASSUME StoreTypeOK, NEW v \in Worker, NEW a \in Attempt, NEW outcome \in {"succeeded", "dead"},
           CompleteReport(v, a, outcome), NEW w \in Worker, NEW t \in Task,
           v # w \/ t # a[1] \/ ~Owns(t, v)
    PROVE  RowKept(w, t)
<1>1. CASE UNCHANGED storeVars
  BY <1>1 DEF storeVars, RowKept
<1>2. CASE Owns(a[1], v) /\ CompleteAttempt(a[1], v, outcome, 0)
  <2>1. attempts' = attempts /\ Owns(a[1], v) /\ ReleaseRows({a[1]}, outcome)
    BY <1>2 DEF CompleteAttempt
  <2>2. CASE t # a[1]
    BY <2>1, <2>2 DEF ReleaseRows, RowKept
  <2>3. CASE t = a[1] /\ v # w
    BY <2>1, <2>3 DEF ReleaseRows, RowKept, Owns
  <2> QED BY <1>2, <2>2, <2>3
<1> QED BY <1>1, <1>2 DEF CompleteReport

\* The manager's part of a registration, a claim and a completion of v.
LEMMA OtherObjects ==
    ASSUME Types, Locals, NEW v \in Worker, WorkerStep(v), ~Restart, NEW w \in Worker, w # v
    PROVE  \A i \in Index : obj'[<<w, i>>] = obj[<<w, i>>]
<1>1. ObjTypeOK /\ MemoryTypeOK
  BY DEF Types
<1>2. CASE obj' = obj
  BY <1>2
<1>3. ASSUME NEW i \in Index, Others(v, i) PROVE \A j \in Index : obj'[<<w, j>>] = obj[<<w, j>>]
  BY <1>3 DEF Others
<1>4. CASE RegisterMap(v)
  BY <1>1, <1>3, <1>4, RefreshFacts DEF RegisterMap
<1>5. ASSUME NEW arrives \in BOOLEAN, ClaimReceive(v, arrives)
      PROVE  \A i \in Index : obj'[<<w, i>>] = obj[<<w, i>>]
  <2> DEFINE p == Tail(obj[<<v, poll[v]>>].pending)
  <2>1. poll[v] \in Index /\ obj[<<v, poll[v]>>].pending # <<>>
    BY <1>1, <1>5 DEF ClaimReceive, MemoryTypeOK
  <2>2. obj[<<v, poll[v]>>].pending \in Seq(Pair)
    BY <1>1, <2>1 DEF ObjTypeOK, ObjectRecord
  <2>3. p \in Seq(Pair)
    BY SMTT(30), <2>1, <2>2
  <2>4. obj' = [obj EXCEPT ![<<v, poll[v]>>].pending = p]
    BY <1>5 DEF ClaimReceive
  <2> HIDE DEF p
  <2> QED BY <1>1, <1>3, <2>1, <2>3, <2>4, ChannelFacts
<1>6. ASSUME NEW a \in Attempt, NEW answered \in BOOLEAN, CompleteRelease(v, a, answered)
      PROVE  \A i \in Index : obj'[<<w, i>>] = obj[<<w, i>>]
  <2>1. known[v] \in Index /\ ReleaseSlot(v, known[v], a[1])
    BY <1>1, <1>6 DEF CompleteRelease, MemoryTypeOK
  <2> QED BY <1>1, <1>3, <2>1, ReleaseSlotFacts
<1>7. \/ RegisterMap(v) \/ \E arrives \in BOOLEAN : ClaimReceive(v, arrives)
      \/ \E a \in Attempt, answered \in BOOLEAN : CompleteRelease(v, a, answered)
      \/ obj' = obj
  BY DEF WorkerStep, RegisterAdd, RegisterUpsert, Heartbeat, Drain, Silence,
     ClaimGet, ClaimNothing, CompleteReport, RemoteDies, memoryVars
<1> QED BY <1>2, <1>4, <1>5, <1>6, <1>7

LEMMA OtherServed ==
    ASSUME Types, Locals, NEW v \in Worker, WorkerStep(v), ~Restart,
           NEW w \in Worker, w # v, Served(w)
    PROVE  Served(w)'
<1>1. MemoryTypeOK /\ StoreTypeOK
  BY DEF Types, StoreInv
<1>2. \A i \in Index : obj'[<<w, i>>] = obj[<<w, i>>]
  BY OtherObjects
<1>3. /\ known'[w] = known[w] /\ exec'[w] = exec[w] /\ reg'[w] = reg[w] /\ poll'[w] = poll[w]
      /\ held'[w] = held[w] /\ closing'[w] = closing[w]
  <2>1. CASE RegisterMap(v) \/ RegisterAdd(v) \/ \E ok \in BOOLEAN : RegisterUpsert(v, ok)
    BY <1>1, <2>1 DEF RegisterMap, RegisterAdd, RegisterUpsert, remoteVars, MemoryTypeOK
  <2>2. CASE Heartbeat(v) \/ Drain(v) \/ Silence(v) \/ RemoteDies(v)
    BY <1>1, <2>2 DEF Heartbeat, Drain, Silence, RemoteDies, memoryVars, MemoryTypeOK
  <2>3. CASE ClaimGet(v) \/ ClaimNothing(v)
    BY <1>1, <2>3 DEF ClaimGet, ClaimNothing, remoteVars, MemoryTypeOK
  <2>4. ASSUME NEW arrives \in BOOLEAN, ClaimReceive(v, arrives)
        PROVE  /\ known'[w] = known[w] /\ exec'[w] = exec[w] /\ reg'[w] = reg[w] /\ poll'[w] = poll[w]
               /\ held'[w] = held[w] /\ closing'[w] = closing[w]
    <3>1. held'[w] = held[w]
      BY <1>1, <2>4 DEF ClaimReceive, MemoryTypeOK
    <3> QED BY <1>1, <2>4, <3>1 DEF ClaimReceive, MemoryTypeOK
  <2>5. ASSUME NEW a \in Attempt, NEW outcome \in {"succeeded", "dead"}, CompleteReport(v, a, outcome)
        PROVE  /\ known'[w] = known[w] /\ exec'[w] = exec[w] /\ reg'[w] = reg[w] /\ poll'[w] = poll[w]
               /\ held'[w] = held[w] /\ closing'[w] = closing[w]
    BY <1>1, <2>5 DEF CompleteReport, remoteVars, MemoryTypeOK
  <2>6. ASSUME NEW a \in Attempt, NEW answered \in BOOLEAN, CompleteRelease(v, a, answered)
        PROVE  /\ known'[w] = known[w] /\ exec'[w] = exec[w] /\ reg'[w] = reg[w] /\ poll'[w] = poll[w]
               /\ held'[w] = held[w] /\ closing'[w] = closing[w]
    <3>1. held'[w] = held[w] /\ closing'[w] = closing[w]
      BY <1>1, <2>6 DEF CompleteRelease, MemoryTypeOK
    <3> QED BY <2>6, <3>1 DEF CompleteRelease
  <2> QED BY <2>1, <2>2, <2>3, <2>4, <2>5, <2>6 DEF WorkerStep
<1>4. sched' = sched /\ attempts' = attempts
  <2>1. ASSUME NEW a \in Attempt, NEW outcome \in {"succeeded", "dead"}, CompleteReport(v, a, outcome)
        PROVE  sched' = sched /\ attempts' = attempts
    BY <2>1 DEF CompleteReport, CompleteAttempt, storeVars
  <2> QED BY <2>1 DEF WorkerStep, RegisterMap, RegisterAdd, RegisterUpsert, Heartbeat, Drain, Silence,
     ClaimGet, ClaimReceive, ClaimNothing, CompleteRelease, RemoteDies, memoryVars, storeVars
<1>5. ASSUME NEW t \in Task PROVE RowKept(w, t)
  <2>1. ASSUME NEW a \in Attempt, NEW outcome \in {"succeeded", "dead"}, CompleteReport(v, a, outcome)
        PROVE  RowKept(w, t)
    BY <1>1, <2>1, ReportRows
  <2>2. CASE UNCHANGED storeVars
    BY <2>2 DEF storeVars, RowKept
  <2> QED BY <2>1, <2>2 DEF WorkerStep, RegisterMap, RegisterAdd, RegisterUpsert, Heartbeat, Drain, Silence,
     ClaimGet, ClaimReceive, ClaimNothing, CompleteRelease, RemoteDies, memoryVars
<1>6. known[w] # 0 => known[w] \in Index
  BY ServedFacts DEF Served
<1>7. Kept(w)
  BY <1>2, <1>3, <1>6 DEF Served, OneObject, Kept
<1> QED BY <1>2, <1>4, <1>5, <1>6, <1>7, Frame

\* A first registration: nothing was given to w before.
LEMMA RegisterServed ==
    ASSUME Types, Locals, NEW w \in Worker, Served(w), RegisterMap(w)
    PROVE  Served(w)'
<1>1. MemoryTypeOK /\ ObjTypeOK /\ 0 \notin Index
  BY SMTT(30), ExternalAssumption DEF Types, Index
<1>2. UNCHANGED <<storeVars, held, exec, poll, closing, sched>>
  BY DEF RegisterMap, remoteVars
<1>3. PICK i \in Index : /\ Refresh(w, i)
                         /\ known' = [known EXCEPT ![w] = i]
                         /\ reg' = [reg EXCEPT ![w] = [pc |-> "upsert", o |-> i]]
  BY DEF RegisterMap
<1>4. known'[w] = i /\ reg'[w].o = i
  BY <1>1, <1>3 DEF MemoryTypeOK
<1>5. Others(w, i)
  BY <1>1, <1>3, RefreshFacts
<1>6. \A t \in Task : RowKept(w, t)
  BY <1>2 DEF RowKept, storeVars
<1>7. CASE i = known[w] /\ obj'[<<w, i>>] = [obj[<<w, i>>] EXCEPT !.online = TRUE]
  <2>1. obj[<<w, i>>] \in ObjectRecord
    BY <1>1 DEF ObjTypeOK
  <2>2. obj'[<<w, i>>].used = obj[<<w, i>>].used /\ obj'[<<w, i>>].pending = obj[<<w, i>>].pending
    BY <1>7, <2>1 DEF ObjectRecord
  <2>3. Kept(w)
    BY <1>2, <1>4, <1>5, <1>7, <2>2 DEF Others, Kept, Served, OneObject
  <2> QED BY <1>2, <1>6, <1>7, <2>2, <2>3, Frame DEF storeVars
<1>8. CASE known[w] = 0 /\ obj'[<<w, i>>] = NewObject
  <2>1. /\ held[w] = {} /\ closing[w] = {} /\ sched.w # w
        /\ exec[w] = 0 /\ poll[w] = 0
        /\ \A j \in Index : obj[<<w, j>>] = Unborn
    BY <1>1, <1>8, ServedFacts DEF Served, OneObject
  <2>2. \A j \in Index : obj'[<<w, j>>].pending = <<>>
    BY <1>5, <1>8, <2>1, NewObjectFacts DEF Others
  <2>3. Sent(w)' = {}
    <3>1. Range(<<>>) = {}
      BY SMTT(30) DEF Range
    <3> QED BY <2>2, <3>1 DEF Sent
  <2>4. Out(w)' = {} /\ Open(w)' = {}
    BY <1>2, <2>1, <2>3 DEF Out, Open
  <2>5. OneObject(w)'
    <3>1. \A j \in Index : j # i => obj'[<<w, j>>] = Unborn
      BY <1>5, <2>1 DEF Others
    <3>2. IsInjective(obj'[<<w, i>>].pending)
      BY SMTT(30), <2>2 DEF IsInjective
    <3> QED BY <1>1, <1>2, <1>4, <2>1, <2>4, <3>1, <3>2 DEF OneObject
  <2>6. OneEach(w)'
    BY <1>2, <2>1, <2>3, <2>4 DEF OneEach
  <2>7. Current(w)'
    BY <1>2, <2>1, <2>4 DEF Current
  <2> QED BY <2>5, <2>6, <2>7 DEF Served
<1> QED BY <1>1, <1>3, <1>7, <1>8, RefreshFacts

\* What leaves the channel is held or lost.
LEMMA ReceiveServed ==
    ASSUME Types, Locals, NEW w \in Worker, Served(w), NEW arrives \in BOOLEAN, ClaimReceive(w, arrives)
    PROVE  Served(w)'
<1> DEFINE k == known[w]
           p == obj[<<w, k>>].pending
           h == Head(p)
<1>1. MemoryTypeOK /\ ObjTypeOK
  BY DEF Types
<1>2. poll[w] = k /\ k # 0
  BY DEF ClaimReceive, Served, OneObject
<1>3. k \in Index /\ obj[<<w, k>>] \in ObjectRecord /\ Sent(w) = Range(p) /\ IsInjective(p)
  BY <1>2, ServedFacts DEF Served, OneObject
<1>4. p \in Seq(Pair) /\ p # <<>>
  BY <1>2, <1>3 DEF ObjectRecord, ClaimReceive
<1>5. h \in Range(p) /\ h \in Pair /\ Tail(p) \in Seq(Pair) /\ Range(Tail(p)) = Range(p) \ {h} /\ IsInjective(Tail(p))
  BY <1>3, <1>4, ReceiveFacts
<1>6. /\ obj' = [obj EXCEPT ![<<w, k>>].pending = Tail(p)]
      /\ poll' = [poll EXCEPT ![w] = 0]
      /\ held' = held \/ held' = [held EXCEPT ![w] = @ \union {h}]
      /\ UNCHANGED <<storeVars, known, exec, reg, closing, sched>>
  BY <1>2 DEF ClaimReceive
<1> HIDE DEF h, p, k
<1>7. Others(w, k) /\ obj'[<<w, k>>] = [obj[<<w, k>>] EXCEPT !.pending = Tail(p)]
  <2> DEFINE q == Tail(p)
  <2>1. q \in Seq(Pair) /\ obj' = [obj EXCEPT ![<<w, k>>].pending = q]
    BY <1>5, <1>6
  <2> HIDE DEF q
  <2>2. Others(w, k) /\ obj'[<<w, k>>] = [obj[<<w, k>>] EXCEPT !.pending = q]
    BY <1>1, <1>3, <2>1, ChannelFacts
  <2> QED BY <2>2 DEF q
<1>8. obj'[<<w, k>>].pending = Tail(p) /\ obj'[<<w, k>>].used = obj[<<w, k>>].used
  BY <1>3, <1>7 DEF ObjectRecord
<1>9. \A i \in Index : i # k => obj'[<<w, i>>] = Unborn
  BY <1>7 DEF Others, Served, OneObject, k
<1>10. Sent(w)' = Sent(w) \ {h}
  <2>1. \A i \in Index : i # k => obj'[<<w, i>>].pending = <<>>
    BY <1>9, NewObjectFacts
  <2>2. Sent(w)' = Range(obj'[<<w, k>>].pending)
    BY <1>3, <2>1, OneChannel DEF Sent
  <2> QED BY <1>3, <1>5, <1>8, <2>2
<1>11. held'[w] \subseteq held[w] \union {h} /\ closing'[w] = closing[w]
  BY <1>1, <1>6 DEF MemoryTypeOK
<1>12. Out(w)' \subseteq Out(w) /\ Open(w)' \subseteq Open(w)
  BY <1>3, <1>5, <1>10, <1>11 DEF Out, Open
<1>13. Sent(w)' \intersect (held'[w] \union closing'[w]) = {}
  BY <1>10, <1>11 DEF Served, OneEach
<1>14. Used(w)' = Used(w)
  BY <1>6, <1>8 DEF Used, k
<1>15. \A a \in Out(w)' : a[1] \in Used(w)'
  BY <1>12, <1>14 DEF Served, OneEach
<1>16. OneObject(w)'
  <2>1. exec'[w] \in {0, k} /\ poll'[w] = 0 /\ (reg'[w].pc # "idle" => reg'[w].o = k) /\ (sched'.w = w => sched'.o = k)
    BY <1>1, <1>6 DEF Served, OneObject, MemoryTypeOK, k
  <2>2. known'[w] = k
    BY <1>6 DEF k
  <2> QED BY <1>2, <1>5, <1>8, <1>9, <2>1, <2>2 DEF OneObject
<1>17. \A t \in Task : RowKept(w, t)
  BY <1>6 DEF storeVars, RowKept
<1>18. SchedServed(w)'
  BY <1>6, <1>12, <1>14, <1>17, SchedStays DEF storeVars
<1>19. \A a \in Open(w)' : RowKept(w, a[1])
  BY <1>6 DEF storeVars, RowKept
<1> QED BY <1>6, <1>12, <1>13, <1>15, <1>16, <1>18, <1>19, ServedStep DEF storeVars

\* A report of w decides the attempt w has, and no other it still has.
LEMMA ReportServed ==
    ASSUME Types, Locals, NEW w \in Worker, Served(w),
           NEW a \in Attempt, NEW outcome \in {"succeeded", "dead"}, CompleteReport(w, a, outcome)
    PROVE  Served(w)'
<1>1. MemoryTypeOK /\ StoreTypeOK
  BY DEF Types, StoreInv
<1>2. /\ a \in held[w] \ closing[w] /\ closing'[w] = closing[w] \union {a}
      /\ UNCHANGED <<held, obj, known, exec, reg, poll, sched>> /\ attempts' = attempts
  BY <1>1 DEF CompleteReport, CompleteAttempt, remoteVars, storeVars, MemoryTypeOK
<1>3. Kept(w)
  BY <1>2 DEF Served, OneObject, Kept
<1>4. /\ OneObject(w)' /\ Sent(w)' = Sent(w)
      /\ Out(w)' \subseteq Out(w) /\ Open(w)' \subseteq Open(w) /\ Open(w)' \subseteq Out(w)'
      /\ Sent(w)' \intersect (held'[w] \union closing'[w]) = {}
  BY <1>2, <1>3, KeptFacts DEF Served, OneObject
<1>5. a \in Out(w) /\ a \notin Open(w)'
  BY <1>2, <1>4 DEF Out, Open, Served, OneEach
<1>6. Used(w)' = Used(w)
  BY <1>2 DEF Used
<1>7. \A b \in Out(w)' : b[1] \in Used(w)'
  BY <1>4, <1>6 DEF Served, OneEach
<1>8. ASSUME NEW b \in Open(w)' PROVE RowKept(w, b[1])
  <2>1. b \in Out(w) /\ b # a /\ b[1] \in Task
    <3>1. Out(w) \subseteq Pair
      BY ServedFacts DEF Served
    <3> QED BY <1>4, <1>5, <1>8, <3>1 DEF Pair
  <2>2. b[1] # a[1]
    BY <1>5, <2>1 DEF Served, OneEach
  <2> QED BY <1>1, <2>1, <2>2, ReportRows
<1>9. SchedServed(w)'
  <2>1. CASE sched.w # w
    BY <1>2, <1>4, <2>1, SchedStays
  <2>2. CASE sched.w = w /\ sched.t # a[1]
    <3>1. sched.t \in Task => RowKept(w, sched.t)
      BY <1>1, <2>2, ReportRows
    <3> QED BY <1>2, <1>4, <1>6, <3>1, SchedStays
  <2>3. CASE sched.w = w /\ sched.t = a[1]
    <3>1. sched.pc \notin {"begin", "check", "send"}
      BY <1>5, <2>3 DEF Served, OneEach
    <3>2. sched'.w = w => sched'.o = known'[w]
      BY <1>2 DEF Served, OneObject
    <3> QED BY <1>2, <3>1, <3>2 DEF SchedServed
  <2> QED BY <2>1, <2>2, <2>3
<1> QED BY <1>2, <1>4, <1>7, <1>8, <1>9, ServedStep

\* The end of a completion gives back the slot of what was reported.
LEMMA CompleteServed ==
    ASSUME Types, Locals, NEW w \in Worker, Served(w), NEW a \in Attempt, NEW answered \in BOOLEAN,
           CompleteRelease(w, a, answered), ~Restart, w \notin replaced'
    PROVE  Served(w)'
<1> DEFINE k == known[w]
<1>1. MemoryTypeOK /\ ObjTypeOK
  BY DEF Types
<1>2. /\ a \in closing[w] /\ k # 0 /\ ReleaseSlot(w, k, a[1])
      /\ UNCHANGED <<storeVars, known, exec, reg, poll, sched>>
  BY DEF CompleteRelease
<1>3. closing'[w] = closing[w] \ {a} /\ held'[w] = held[w] \ {a}
  BY <1>1 DEF CompleteRelease, MemoryTypeOK
<1>4. k \in Index /\ obj[<<w, k>>] \in ObjectRecord
  BY <1>2, ServedFacts DEF Served
<1>5. Others(w, k) /\ obj'[<<w, k>>] = [obj[<<w, k>>] EXCEPT !.used = @ \ {a[1]}]
  BY SMTT(30), <1>1, <1>2, <1>4, ReleaseSlotFacts
<1>6. obj'[<<w, k>>].used = obj[<<w, k>>].used \ {a[1]} /\ obj'[<<w, k>>].pending = obj[<<w, k>>].pending
  BY <1>4, <1>5 DEF ObjectRecord
<1>7. Kept(w)
  <2>1. held'[w] \union closing'[w] \subseteq held[w] \union closing[w] /\ held'[w] \ closing'[w] \subseteq held[w] \ closing[w]
    BY <1>3
  <2>2. \A i \in Index : i # k => obj'[<<w, i>>] = obj[<<w, i>>]
    BY <1>5 DEF Others
  <2> QED BY <1>2, <1>6, <2>1, <2>2 DEF Served, OneObject, Kept
<1>8. /\ OneObject(w)' /\ Sent(w)' = Sent(w)
      /\ Out(w)' \subseteq Out(w) /\ Open(w)' \subseteq Open(w) /\ Open(w)' \subseteq Out(w)'
      /\ Sent(w)' \intersect (held'[w] \union closing'[w]) = {}
  BY <1>2, <1>7, KeptFacts DEF Served, OneObject
<1>9. a \in Out(w) /\ a \notin Out(w)'
  BY SMTT(30), <1>2, <1>3, <1>8 DEF Out, Served, OneEach
<1>10. Used(w)' = Used(w) \ {a[1]}
  BY <1>2, <1>6 DEF Used
<1>11. \A b \in Out(w)' : b[1] \in Used(w)'
  <2> SUFFICES ASSUME NEW b \in Out(w)' PROVE b[1] \in Used(w)'
    OBVIOUS
  <2>1. b \in Out(w) /\ b # a
    BY <1>8, <1>9
  <2> QED BY <1>9, <1>10, <2>1 DEF Served, OneEach
<1>12. \A t \in Task : RowKept(w, t)
  BY <1>2 DEF storeVars, RowKept
<1>13. SchedServed(w)'
  <2>1. sched.w = w /\ sched.pc \in {"begin", "check", "send"} => sched.t # a[1]
    BY <1>9 DEF Served, OneEach
  <2>2. CASE sched.t # a[1]
    BY <1>2, <1>8, <1>10, <1>12, <2>2, SchedStays DEF storeVars
  <2>3. CASE sched.t = a[1]
    <3>1. sched'.w = w => sched'.o = known'[w]
      BY <1>2 DEF Served, OneObject
    <3> QED BY <1>2, <2>1, <2>3, <3>1 DEF SchedServed
  <2> QED BY <2>2, <2>3
<1>14. \A b \in Open(w)' : RowKept(w, b[1])
  BY <1>2 DEF storeVars, RowKept
<1> QED BY <1>2, <1>8, <1>11, <1>13, <1>14, ServedStep DEF storeVars

LEMMA OwnServed ==
    ASSUME Types, Locals, NEW w \in Worker, Served(w), WorkerStep(w), ~Restart, w \notin replaced'
    PROVE  Served(w)'
<1>1. MemoryTypeOK
  BY DEF Types
<1>2. CASE \/ RegisterAdd(w) \/ (\E ok \in BOOLEAN : RegisterUpsert(w, ok))
           \/ Heartbeat(w) \/ Drain(w) \/ Silence(w) \/ ClaimGet(w) \/ ClaimNothing(w) \/ RemoteDies(w)
  <2>1. UNCHANGED <<storeVars, obj, known, closing, sched>>
    BY <1>2 DEF RegisterAdd, RegisterUpsert, Heartbeat, Drain, Silence, ClaimGet, ClaimNothing,
       RemoteDies, memoryVars
  <2>2. held'[w] \subseteq held[w]
    BY <1>1, <1>2 DEF RegisterAdd, RegisterUpsert, Heartbeat, Drain, Silence, ClaimGet, ClaimNothing,
       RemoteDies, remoteVars, MemoryTypeOK
  <2>3. exec'[w] \in {0, known[w]}
    BY <1>1, <1>2 DEF RegisterAdd, RegisterUpsert, Heartbeat, Drain, Silence, ClaimGet, ClaimNothing,
       RemoteDies, memoryVars, MemoryTypeOK, Served, OneObject
  <2>4. poll'[w] \in {0, known[w]}
    BY <1>1, <1>2 DEF RegisterAdd, RegisterUpsert, Heartbeat, Drain, Silence, ClaimGet, ClaimNothing,
       RemoteDies, memoryVars, MemoryTypeOK, Served, OneObject
  <2>5. reg'[w].pc # "idle" => reg'[w].o = known[w]
    <3>1. reg' = reg \/ (reg[w].pc # "idle" /\ \E c \in {"idle", "add"} : reg' = [reg EXCEPT ![w].pc = c])
      BY <1>2 DEF RegisterAdd, RegisterUpsert, Heartbeat, Drain, Silence, ClaimGet, ClaimNothing,
         RemoteDies, memoryVars
    <3> QED BY SMTT(30), <1>1, <3>1 DEF MemoryTypeOK, Served, OneObject
  <2>6. Kept(w)
    BY <2>1, <2>2, <2>3, <2>4, <2>5 DEF Kept
  <2>7. \A t \in Task : RowKept(w, t)
    BY <2>1 DEF storeVars, RowKept
  <2> QED BY <2>1, <2>6, <2>7, Frame DEF storeVars
<1> QED BY <1>2, RegisterServed, ReceiveServed, ReportServed, CompleteServed DEF WorkerStep

LEMMA ReapServes ==
    ASSUME Types, Locals, NEW w \in Worker, Served(w), ReapStep, w \notin replaced'
    PROVE  Served(w)'
<1>1. MemoryTypeOK /\ ObjTypeOK /\ StoreTypeOK
  BY DEF Types, StoreInv
<1>2. UNCHANGED <<held, reg, poll, closing, sched>>
  BY DEF ReapStep, ReapMark, ReapClose, ReapRemove, ReapDelete, ReapReclaim, ReapPush, ReapFrame
<1>3. known'[w] = known[w]
  <2>1. CASE ReapDelete
    BY <1>1, <2>1 DEF ReapDelete, MemoryTypeOK
  <2> QED BY <2>1 DEF ReapStep, ReapMark, ReapClose, ReapRemove, ReapReclaim, ReapPush
<1>4. exec'[w] \in {0, known[w]}
  <2>1. CASE ReapRemove
    BY <1>1, <2>1 DEF ReapRemove, MemoryTypeOK, Served, OneObject
  <2>2. exec' = exec => exec'[w] \in {0, known[w]}
    BY DEF Served, OneObject
  <2> QED BY <2>1, <2>2 DEF ReapStep, ReapMark, ReapClose, ReapDelete, ReapReclaim, ReapPush
<1>5. /\ \A i \in Index : i # known[w] => obj'[<<w, i>>] = obj[<<w, i>>]
      /\ known[w] # 0 => /\ obj'[<<w, known[w]>>].used = obj[<<w, known[w]>>].used
                         /\ obj'[<<w, known[w]>>].pending = obj[<<w, known[w]>>].pending
  <2>1. CASE obj' = obj
    BY <2>1
  <2>2. ASSUME NEW v \in Worker, ReapClose(v), known[v] # 0
        PROVE  /\ \A i \in Index : i # known[w] => obj'[<<w, i>>] = obj[<<w, i>>]
               /\ known[w] # 0 => /\ obj'[<<w, known[w]>>].used = obj[<<w, known[w]>>].used
                                  /\ obj'[<<w, known[w]>>].pending = obj[<<w, known[w]>>].pending
    <3> DEFINE k == known[v]
    <3>1. k \in Index
      BY <1>1, <2>2 DEF MemoryTypeOK
    <3>2. Others(v, k) /\ obj'[<<v, k>>] = [obj[<<v, k>>] EXCEPT !.online = FALSE, !.closed = TRUE]
      BY <1>1, <2>2, <3>1, CloseFacts DEF ReapClose
    <3>3. obj[<<v, k>>] \in ObjectRecord
      BY <1>1, <3>1 DEF ObjTypeOK
    <3>4. obj'[<<v, k>>].used = obj[<<v, k>>].used /\ obj'[<<v, k>>].pending = obj[<<v, k>>].pending
      BY <3>2, <3>3 DEF ObjectRecord
    <3>5. CASE v = w
      BY <3>1, <3>2, <3>4, <3>5 DEF Others
    <3>6. CASE v # w
      <4>1. known[w] # 0 => known[w] \in Index
        BY <1>1 DEF MemoryTypeOK
      <4>2. \A i \in Index : obj'[<<w, i>>] = obj[<<w, i>>]
        BY <3>1, <3>2, <3>6 DEF Others
      <4> QED BY <4>1, <4>2
    <3> QED BY <3>5, <3>6
  <2>3. obj' = obj \/ \E v \in Worker : ReapClose(v) /\ known[v] # 0
    BY DEF ReapStep, ReapMark, ReapClose, ReapRemove, ReapDelete, ReapReclaim, ReapPush
  <2> QED BY <2>1, <2>2, <2>3
<1>6. attempts' = attempts /\ \A t \in Task : RowKept(w, t)
  <2>1. CASE ReapReclaim
    <3>1. attempts' = attempts /\ \E S : ReleaseRows(S, "ready")
      BY <2>1 DEF ReapReclaim, ReclaimExpired
    <3> QED BY <3>1 DEF ReleaseRows, RowKept
  <2>2. CASE UNCHANGED storeVars
    BY <2>2 DEF storeVars, RowKept
  <2> QED BY <2>1, <2>2 DEF ReapStep, ReapMark, ReapClose, ReapRemove, ReapDelete, ReapPush
<1>7. Kept(w)
  <2>1. poll'[w] \in {0, known[w]} /\ (reg'[w].pc # "idle" => reg'[w].o = known[w])
    BY <1>2 DEF Served, OneObject
  <2>2. /\ held'[w] \union closing'[w] \subseteq held[w] \union closing[w]
        /\ held'[w] \ closing'[w] \subseteq held[w] \ closing[w]
    BY <1>2
  <2> QED BY <1>3, <1>4, <1>5, <2>1, <2>2 DEF Kept
<1> QED BY <1>2, <1>5, <1>6, <1>7, Frame

LEMMA CallsServe ==
    ASSUME Types, Locals, NEW w \in Worker, Served(w), NEW u \in Task, SubmitCall(u) \/ LeaseLapses(u)
    PROVE  Served(w)'
<1>1. StoreTypeOK
  BY DEF Types, StoreInv
<1>2. UNCHANGED <<memoryVars, held>>
  BY DEF SubmitCall, LeaseLapses, remoteVars
<1>3. Kept(w) /\ sched' = sched /\ obj' = obj
  BY <1>2 DEF memoryVars, Kept, Served, OneObject
<1>4. attempts' = attempts /\ \A t \in Task : RowKept(w, t)
  <2>1. CASE Insert(u)
    BY <1>1, <2>1 DEF Insert, CreateTask, storeVars, StoreTypeOK, RowKept
  <2>2. CASE UNCHANGED <<status, workerId, attempts>>
    BY <2>2 DEF RowKept
  <2> QED BY <2>1, <2>2 DEF SubmitCall, SubmitStep, SubmitFault, Lookup, Enqueue, LeaseLapses,
     LeaseExpires, storeVars
<1> QED BY <1>3, <1>4, Frame

LEMMA WorkerInvStep == Types /\ Locals /\ WorkerInv /\ [Next]_vars => WorkerInv'
<1> SUFFICES ASSUME Types, Locals, WorkerInv, [Next]_vars, NEW w \in Worker, w \notin replaced'
             PROVE  Served(w)'
  BY DEF WorkerInv
<1>1. CASE UNCHANGED vars
  <2>1. Served(w)
    BY <1>1 DEF WorkerInv, vars, historyVars
  <2>2. Kept(w)
    BY <1>1, <2>1 DEF vars, memoryVars, remoteVars, Kept, Served, OneObject
  <2>3. obj' = obj /\ sched' = sched /\ attempts' = attempts /\ \A t \in Task : RowKept(w, t)
    BY <1>1 DEF vars, memoryVars, storeVars, RowKept
  <2> QED BY <2>1, <2>2, <2>3, Frame
<1>2. CASE Restart
  BY <1>2 DEF Restart
<1>3. CASE Next /\ ~Restart
  <2>1. replaced \subseteq replaced'
    <3>1. ASSUME NEW v \in Worker, WorkerStep(v) PROVE replaced \subseteq replaced'
      BY <1>3, <3>1 DEF WorkerStep, RegisterMap, RegisterAdd, RegisterUpsert, Heartbeat, Drain, Silence,
         ClaimGet, ClaimReceive, ClaimNothing, CompleteReport, CompleteRelease, RemoteDies, historyVars
    <3>2. CASE SchedStep
      BY <1>3, <3>2 DEF SchedStep, SchedPop, SchedPick, SchedReserve, SchedBegin, SchedCheck, SchedSend,
         SchedFrame, historyVars
    <3>3. CASE ReapStep
      BY <3>3 DEF ReapStep, ReapMark, ReapClose, ReapRemove, ReapDelete, ReapReclaim, ReapPush
    <3>4. ASSUME NEW t \in Task, SubmitCall(t) \/ LeaseLapses(t) PROVE replaced \subseteq replaced'
      BY <3>4 DEF SubmitCall, LeaseLapses, historyVars
    <3> QED BY <1>3, <3>1, <3>2, <3>3, <3>4 DEF Next, Crash
  <2>2. Served(w)
    BY <2>1 DEF WorkerInv
  <2>3. ASSUME NEW v \in Worker, WorkerStep(v) PROVE Served(w)'
    BY <1>3, <2>2, <2>3, OwnServed, OtherServed
  <2> QED BY <1>3, <2>2, <2>3, SchedServes, ReapServes, CallsServe DEF Next, Crash
<1> QED BY <1>1, <1>2, <1>3

LEMMA InitWorkerInv == Init => WorkerInv
<1> SUFFICES ASSUME Init, NEW w \in Worker PROVE Served(w)
  BY DEF WorkerInv
<1>1. /\ \A i \in Index : obj[<<w, i>>] = Unborn
      /\ known[w] = 0 /\ exec[w] = 0 /\ poll[w] = 0 /\ reg[w].pc = "idle"
      /\ held[w] = {} /\ closing[w] = {} /\ sched.w # w
  BY NoneAssumption DEF Init, NoObjects, Zero, NoCall, Nothing, Idle
<1>2. Sent(w) = {}
  <2>1. Range(<<>>) = {}
    BY SMTT(30) DEF Range
  <2>2. \A i \in Index : obj[<<w, i>>].pending = <<>>
    BY <1>1, NewObjectFacts
  <2> QED BY <2>1, <2>2 DEF Sent
<1>3. Out(w) = {} /\ Open(w) = {}
  BY <1>1, <1>2 DEF Out, Open
<1> QED BY <1>1, <1>2, <1>3 DEF Served, OneObject, OneEach, Current

LEMMA StaleStep == Types /\ Locals /\ WorkerInv /\ StaleInv /\ [Next]_vars => StaleInv'
<1> SUFFICES ASSUME Types, Locals, WorkerInv, StaleInv, [Next]_vars PROVE StaleInv'
  OBVIOUS
<1>1. CASE UNCHANGED historyVars
  BY <1>1 DEF historyVars, StaleInv
<1>2. CASE Restart
  BY <1>2 DEF Restart, StaleInv
<1>3. ASSUME NEW w \in Worker, NEW a \in Attempt, NEW outcome \in {"succeeded", "dead"},
             CompleteReport(w, a, outcome)
      PROVE  StaleInv'
  <2>1. replaced' = replaced /\ a \in held[w] \ closing[w]
    BY <1>3 DEF CompleteReport
  <2>2. CASE stale' = stale
    BY <2>1, <2>2 DEF StaleInv
  <2>3. CASE Owns(a[1], w) /\ attempts[a[1]] # a[2] /\ stale' = stale \union {w}
    <3>1. a \in Open(w)
      BY <2>1 DEF Open
    <3>2. w \in replaced
      BY <2>3, <3>1 DEF WorkerInv, Served, Current, Undecided
    <3> QED BY <2>1, <2>3, <3>2 DEF StaleInv
  <2> QED BY <1>3, <2>2, <2>3 DEF CompleteReport
<1>4. ASSUME stale' = stale, NEW w \in Worker, replaced' = replaced \union {w} PROVE StaleInv'
  BY <1>4 DEF StaleInv
<1>5. ASSUME NEW w \in Worker, WorkerStep(w) PROVE StaleInv'
  <2>1. ASSUME NEW a \in Attempt, NEW answered \in BOOLEAN, CompleteRelease(w, a, answered)
        PROVE  StaleInv'
    BY <1>1, <1>2, <1>4, <2>1 DEF CompleteRelease, historyVars
  <2> QED BY <1>1, <1>2, <1>3, <1>5, <2>1
          DEF WorkerStep, RegisterMap, RegisterAdd, RegisterUpsert, Heartbeat, Drain, Silence,
              ClaimGet, ClaimReceive, ClaimNothing, RemoteDies
<1>6. CASE SchedStep
  BY <1>1, <1>2, <1>6 DEF SchedStep, SchedPop, SchedPick, SchedReserve, SchedBegin, SchedCheck, SchedSend,
     SchedFrame
<1>7. CASE ReapStep
  <2>1. CASE ReapDelete
    BY <1>4, <2>1 DEF ReapDelete, ReapFrame, Locals
  <2> QED BY <1>1, <1>7, <2>1
          DEF ReapStep, ReapMark, ReapClose, ReapRemove, ReapReclaim, ReapPush, ReapFrame, historyVars
<1>8. ASSUME NEW t \in Task, SubmitCall(t) \/ LeaseLapses(t) PROVE StaleInv'
  BY <1>1, <1>8 DEF SubmitCall, LeaseLapses
<1>9. CASE UNCHANGED vars
  BY <1>1, <1>9 DEF vars
<1> QED BY <1>2, <1>5, <1>6, <1>7, <1>8, <1>9 DEF Next, Crash

\* Spec keeps the whole invariant.
LEMMA ExternalInv == Spec => [](Types /\ Locals /\ WorkerInv /\ StaleInv)
<1>1. Init => StaleInv
  BY DEF Init, StaleInv
<1> QED BY <1>1, InitTypes, TypesStep, InitWorkerInv, WorkerInvStep, StaleStep, PTL DEF Spec

\* As long as the object of a worker lives and no request is repeated, what
\* the worker has not reported has not been decided by anybody else
\* (ReserveSlot, Deliver, PollClaim, completeTask, ReclaimExpired).
THEOREM UnreportedStaysOpen == Spec => []UnreportedIsUndecided
<1>1. WorkerInv => UnreportedIsUndecided
  BY DEF WorkerInv, Served, Current, Undecided, UnreportedIsUndecided
<1> QED BY <1>1, ExternalInv, PTL

\* A report is applied to another attempt than its own only for a worker whose
\* object was dropped or who repeated a request (completeTask, ReserveSlot).
THEOREM ReportsDecideTheirAttempt == Spec => []StaleOnlyAfterReplacement
<1>1. StaleInv => StaleOnlyAfterReplacement
  BY DEF StaleInv, StaleOnlyAfterReplacement
<1> QED BY <1>1, ExternalInv, PTL

\* Everything a worker was sent and has not finished occupies a slot of its
\* object (ReserveSlot, ReleaseSlot, Deliver, completeTask).
THEOREM SentOccupiesSlots == Spec => []SlotsRespected
<1>1. WorkerInv => SlotsRespected
  BY DEF WorkerInv, Served, OneObject, OneEach, Out, Used, SlotsRespected
<1> QED BY <1>1, ExternalInv, PTL

-----------------------------------------------------------------------------
(* The bounds of slots and channels.                                       *)

\* What a step may do to one object: slots are given back, or one more is
\* taken where there was one; attempts leave the channel, or the one just begun
\* is sent where there is room.
ObjectMove(o, n, w) ==
    /\ \/ n.used \subseteq o.used
       \/ n.used \subseteq o.used \union {sched.t} /\ Cardinality(o.used) < Slots[w]
    /\ \/ n.pending \in {o.pending, <<>>}
       \/ o.pending # <<>> /\ n.pending = Tail(o.pending)
       \/ /\ sched.pc = "send" /\ Len(o.pending) < Buffer(w)
          /\ n.pending = Append(o.pending, <<sched.t, attempts[sched.t]>>)

ObjectMoves == \A w \in Worker, i \in Index : ObjectMove(obj[<<w, i>>], obj'[<<w, i>>], w)

LEMMA OneMoves ==
    ASSUME NEW w \in Worker, NEW i \in Index, Others(w, i), ObjectMove(obj[<<w, i>>], obj'[<<w, i>>], w)
    PROVE  ObjectMoves
BY DEF Others, ObjectMoves, ObjectMove

LEMMA ReleaseMoves ==
    ASSUME ObjTypeOK, NEW w \in Worker, NEW i \in Index, NEW t, ReleaseSlot(w, i, t)
    PROVE  ObjectMoves
<1>1. Others(w, i) /\ obj'[<<w, i>>] = [obj[<<w, i>>] EXCEPT !.used = @ \ {t}]
  BY SMTT(30), ReleaseSlotFacts
<1>2. obj[<<w, i>>] \in ObjectRecord
  BY DEF ObjTypeOK
<1>3. obj'[<<w, i>>].used \subseteq obj[<<w, i>>].used /\ obj'[<<w, i>>].pending = obj[<<w, i>>].pending
  BY <1>1, <1>2 DEF ObjectRecord
<1>4. ObjectMove(obj[<<w, i>>], obj'[<<w, i>>], w)
  BY <1>3 DEF ObjectMove
<1> QED BY <1>1, <1>4, OneMoves

\* What taking a slot and what a channel operation write.
LEMMA ReserveMoves ==
    ASSUME ObjTypeOK, NEW w \in Worker, NEW i \in Index, NEW t \in Task,
           obj' = [obj EXCEPT ![<<w, i>>].used = @ \union {t}]
    PROVE  /\ Others(w, i) /\ obj'[<<w, i>>].used = obj[<<w, i>>].used \union {t}
           /\ obj'[<<w, i>>].pending = obj[<<w, i>>].pending
<1>1. Others(w, i) /\ obj'[<<w, i>>] = [obj[<<w, i>>] EXCEPT !.used = @ \union {t}]
  BY ReserveFacts
<1>2. obj[<<w, i>>] \in ObjectRecord
  BY DEF ObjTypeOK
<1> QED BY <1>1, <1>2 DEF ObjectRecord

LEMMA ChannelMoves ==
    ASSUME ObjTypeOK, NEW w \in Worker, NEW i \in Index, NEW p \in Seq(Pair),
           obj' = [obj EXCEPT ![<<w, i>>].pending = p]
    PROVE  Others(w, i) /\ obj'[<<w, i>>].used = obj[<<w, i>>].used /\ obj'[<<w, i>>].pending = p
<1>1. Others(w, i) /\ obj'[<<w, i>>] = [obj[<<w, i>>] EXCEPT !.pending = p]
  BY ChannelFacts
<1>2. obj[<<w, i>>] \in ObjectRecord
  BY DEF ObjTypeOK
<1> QED BY <1>1, <1>2 DEF ObjectRecord

LEMMA SchedMoves ==
    ASSUME Types, Locals, SchedStep, ~Restart
    PROVE  ObjectMoves
<1> DEFINE w == sched.w
           i == sched.o
           o == obj[<<w, i>>]
           n == obj'[<<w, i>>]
<1>0. ObjTypeOK /\ attempts \in [Task -> Nat]
  BY DEF Types, StoreInv, StoreTypeOK
<1>1. CASE (\E t \in Task : SchedPop(t)) \/ SchedPick \/ UNCHANGED obj
  <2>1. UNCHANGED obj
    BY <1>1 DEF SchedPop, SchedPick
  <2> QED BY <2>1 DEF ObjectMoves, ObjectMove
<1>2. ASSUME sched.pc \in {"reserve", "begin", "check", "send"} PROVE w \in Worker /\ i \in Index /\ sched.t \in Task /\ o \in ObjectRecord
  BY <1>0, <1>2 DEF Locals, ObjTypeOK
<1>3. ASSUME sched.pc \in {"begin", "check", "send"}, ReleaseSlot(w, i, sched.t) PROVE ObjectMoves
  BY <1>0, <1>2, <1>3, ReleaseMoves
<1>4. CASE SchedReserve
  <2>1. sched.pc = "reserve"
    BY <1>4 DEF SchedReserve
  <2>2. \/ UNCHANGED obj
        \/ CanHandle(w, i) /\ obj' = [obj EXCEPT ![<<w, i>>].used = @ \union {sched.t}]
    BY <1>4 DEF SchedReserve, Reservable
  <2>3. CASE CanHandle(w, i) /\ obj' = [obj EXCEPT ![<<w, i>>].used = @ \union {sched.t}]
    <3> DEFINE t == sched.t
    <3>0. w \in Worker /\ i \in Index /\ t \in Task /\ obj' = [obj EXCEPT ![<<w, i>>].used = @ \union {t}]
      BY <1>2, <2>1, <2>3
    <3>1. Others(w, i) /\ n.used = o.used \union {t} /\ n.pending = o.pending
      <4> HIDE DEF w, i, t
      <4> QED BY <1>0, <3>0, ReserveMoves
    <3>2. ObjectMove(o, n, w)
      BY <2>3, <3>1 DEF ObjectMove, CanHandle
    <3> QED BY <1>2, <2>1, <3>1, <3>2, OneMoves
  <2> QED BY <1>1, <2>2, <2>3
<1>5. CASE SchedBegin \/ SchedCheck
  BY <1>1, <1>3, <1>5 DEF SchedBegin, SchedCheck
<1>6. CASE SchedSend
  <2>1. sched.pc = "send"
    BY <1>6 DEF SchedSend
  <2>2. \/ ReleaseSlot(w, i, sched.t)
        \/ Len(o.pending) < Buffer(w) /\ Send(w, i, <<sched.t, attempts[sched.t]>>)
    BY <1>6 DEF SchedSend
  <2>3. CASE Len(o.pending) < Buffer(w) /\ Send(w, i, <<sched.t, attempts[sched.t]>>)
    <3> DEFINE p == Append(o.pending, <<sched.t, attempts[sched.t]>>)
    <3>1. p \in Seq(Pair)
      <4>1. o.pending \in Seq(Pair) /\ <<sched.t, attempts[sched.t]>> \in Pair
        BY <1>0, <1>2, <2>1 DEF ObjectRecord, Pair
      <4> QED BY <4>1, AppendType
    <3>2. obj' = [obj EXCEPT ![<<w, i>>].pending = p]
      BY <2>3 DEF Send
    <3> HIDE DEF p
    <3>3. Others(w, i) /\ n.used = o.used /\ n.pending = p
      <4> HIDE DEF w, i
      <4> QED BY <1>0, <1>2, <2>1, <3>1, <3>2, ChannelMoves
    <3>4. ObjectMove(o, n, w)
      BY <2>1, <2>3, <3>3 DEF ObjectMove, p
    <3> QED BY <1>2, <2>1, <3>3, <3>4, OneMoves
  <2> QED BY <1>3, <2>1, <2>2, <2>3
<1> QED BY <1>1, <1>4, <1>5, <1>6 DEF SchedStep

LEMMA ObjectStep == Types /\ Locals /\ [Next]_vars => ObjectMoves
<1> SUFFICES ASSUME Types, Locals, [Next]_vars PROVE ObjectMoves
  OBVIOUS
<1>0. ObjTypeOK /\ MemoryTypeOK
  BY DEF Types
<1>1. CASE UNCHANGED obj
  BY <1>1 DEF ObjectMoves, ObjectMove
<1>2. CASE Restart
  <2>1. \A w \in Worker, j \in Index : obj'[<<w, j>>] = Unborn
    BY <1>2 DEF Restart, NoObjects
  <2> QED BY <2>1, NewObjectFacts DEF ObjectMoves, ObjectMove
<1>3. ASSUME NEW w \in Worker, WorkerStep(w), ~Restart PROVE ObjectMoves
  <2>1. CASE RegisterMap(w)
    <3>1. PICK i \in Index : Refresh(w, i)
      BY <2>1 DEF RegisterMap
    <3>2. Others(w, i) /\ (obj'[<<w, i>>] = [obj[<<w, i>>] EXCEPT !.online = TRUE] \/ obj'[<<w, i>>] = NewObject)
      BY <1>0, <3>1, RefreshFacts
    <3>3. obj[<<w, i>>] \in ObjectRecord
      BY <1>0 DEF ObjTypeOK
    <3>4. \/ obj'[<<w, i>>].used = obj[<<w, i>>].used /\ obj'[<<w, i>>].pending = obj[<<w, i>>].pending
          \/ obj'[<<w, i>>].used = {} /\ obj'[<<w, i>>].pending = <<>>
      BY <3>2, <3>3, NewObjectFacts DEF ObjectRecord
    <3>5. ObjectMove(obj[<<w, i>>], obj'[<<w, i>>], w)
      BY <3>4 DEF ObjectMove
    <3> QED BY <3>2, <3>5, OneMoves
  <2>2. ASSUME NEW arrives \in BOOLEAN, ClaimReceive(w, arrives) PROVE ObjectMoves
    <3> DEFINE i == poll[w]
               p == obj[<<w, i>>].pending
    <3>1. i \in Index /\ obj[<<w, i>>] \in ObjectRecord
      BY <1>0, <2>2 DEF ClaimReceive, MemoryTypeOK, ObjTypeOK
    <3>2. p \in Seq(Pair) /\ p # <<>> /\ obj' = [obj EXCEPT ![<<w, i>>].pending = Tail(p)]
      BY <2>2, <3>1 DEF ClaimReceive, ObjectRecord
    <3>3. Tail(p) \in Seq(Pair)
      BY SMTT(30), <3>2
    <3>4. Others(w, i) /\ obj'[<<w, i>>].used = obj[<<w, i>>].used /\ obj'[<<w, i>>].pending = Tail(p)
      <4> DEFINE q == Tail(p)
      <4>1. q \in Seq(Pair) /\ obj' = [obj EXCEPT ![<<w, i>>].pending = q]
        BY <3>2, <3>3
      <4>2. ObjTypeOK /\ i \in Index
        BY <1>0, <3>1
      <4> HIDE DEF p, q, i
      <4>3. Others(w, i) /\ obj'[<<w, i>>].used = obj[<<w, i>>].used /\ obj'[<<w, i>>].pending = q
        BY <4>1, <4>2, ChannelMoves
      <4> QED BY <4>3 DEF q
    <3>5. ObjectMove(obj[<<w, i>>], obj'[<<w, i>>], w)
      BY <3>2, <3>4 DEF ObjectMove
    <3> QED BY <3>1, <3>4, <3>5, OneMoves
  <2>3. ASSUME NEW a \in Attempt, NEW answered \in BOOLEAN, CompleteRelease(w, a, answered) PROVE ObjectMoves
    <3>1. known[w] \in Index /\ ReleaseSlot(w, known[w], a[1])
      BY <1>0, <1>3, <2>3 DEF CompleteRelease, MemoryTypeOK
    <3> QED BY <1>0, <3>1, ReleaseMoves
  <2> QED BY <1>1, <1>3, <2>1, <2>2, <2>3
          DEF WorkerStep, RegisterAdd, RegisterUpsert, Heartbeat, Drain, Silence, ClaimGet, ClaimNothing,
              CompleteReport, RemoteDies, memoryVars
<1>4. ASSUME NEW w \in Worker, ReapClose(w) PROVE ObjectMoves
  <2>1. CASE known[w] # 0
    <3> DEFINE i == known[w]
    <3>1. i \in Index /\ obj[<<w, i>>] \in ObjectRecord
      BY <1>0, <2>1 DEF MemoryTypeOK, ObjTypeOK
    <3>2. obj' = [obj EXCEPT ![<<w, i>>].online = FALSE, ![<<w, i>>].closed = TRUE]
      BY <1>4, <2>1 DEF ReapClose
    <3>3. Others(w, i) /\ obj'[<<w, i>>] = [obj[<<w, i>>] EXCEPT !.online = FALSE, !.closed = TRUE]
      BY <1>0, <3>1, <3>2, CloseFacts
    <3>4. obj'[<<w, i>>].used = obj[<<w, i>>].used /\ obj'[<<w, i>>].pending = obj[<<w, i>>].pending
      BY <3>1, <3>3 DEF ObjectRecord
    <3>5. ObjectMove(obj[<<w, i>>], obj'[<<w, i>>], w)
      BY <3>4 DEF ObjectMove
    <3> QED BY <3>1, <3>3, <3>5, OneMoves
  <2> QED BY <1>1, <1>4, <2>1 DEF ReapClose
<1>5. CASE SchedStep /\ ~Restart
  BY <1>5, SchedMoves
<1>6. CASE ReapStep
  BY <1>1, <1>4, <1>6 DEF ReapStep, ReapMark, ReapRemove, ReapDelete, ReapReclaim, ReapPush
<1>7. ASSUME NEW t \in Task, SubmitCall(t) \/ LeaseLapses(t) PROVE ObjectMoves
  BY <1>1, <1>7 DEF SubmitCall, LeaseLapses, memoryVars
<1>8. CASE UNCHANGED vars
  BY <1>1, <1>8 DEF vars, memoryVars
<1> QED BY <1>2, <1>3, <1>5, <1>6, <1>7, <1>8 DEF Next, Crash

Counted ==
    /\ \A t \in Task : attempts[t] <= MaxAttempts
    /\ sched.pc \in {"check", "send"} => attempts[sched.t] > 0
    /\ troubles \in 0..MaxTroubles

\* Attempts are counted by the scheduler's BeginAttempt alone.
LEMMA AttemptMoves ==
    ASSUME Types, Locals, Next
    PROVE  \/ attempts' = attempts /\ sched' \in {sched, Idle}
           \/ attempts' = attempts /\ sched'.pc \in {"pick", "reserve", "begin"}
           \/ attempts' = attempts /\ sched.pc = "check" /\ sched'.t = sched.t
           \/ /\ sched.t \in Task /\ attempts[sched.t] < MaxAttempts /\ sched'.t = sched.t
              /\ attempts' = [attempts EXCEPT ![sched.t] = @ + 1]
<1>0. sched.pc # "idle" => sched.t \in Task
  BY DEF Locals
<1>1. sched \in [pc : {"idle", "pick", "reserve", "begin", "check", "send"},
                 t : Task \union {NoTask}, w : Worker \union {NoWorker}, o : Index \union {0}]
  BY DEF Types, MemoryTypeOK
<1>2. CASE Restart
  BY <1>2 DEF Restart, RecoverInflight
<1>3. ASSUME NEW t \in Task, SubmitCall(t) \/ LeaseLapses(t) PROVE attempts' = attempts /\ sched' = sched
  BY <1>3 DEF SubmitCall, SubmitStep, SubmitFault, Lookup, Insert, Enqueue, CreateTask, LeaseLapses,
     LeaseExpires, storeVars, memoryVars
<1>4. ASSUME NEW w \in Worker, WorkerStep(w), ~Restart PROVE attempts' = attempts /\ sched' = sched
  BY <1>4 DEF WorkerStep, RegisterMap, RegisterAdd, RegisterUpsert, Heartbeat, Drain, Silence, ClaimGet,
     ClaimReceive, ClaimNothing, CompleteReport, CompleteAttempt, CompleteRelease, RemoteDies, storeVars,
     memoryVars
<1>5. CASE ReapStep
  BY <1>5 DEF ReapStep, ReapMark, ReapClose, ReapRemove, ReapDelete, ReapReclaim, ReapPush,
     ReclaimExpired, ReapFrame, storeVars
<1>6. ASSUME NEW t \in Task, SchedPop(t) PROVE attempts' = attempts /\ sched'.pc = "pick"
  BY SMTT(30), <1>6, <1>1 DEF SchedPop, storeVars
<1>7. CASE SchedPick \/ SchedReserve
  <2>1. attempts' = attempts
    BY <1>7 DEF SchedPick, SchedReserve, storeVars
  <2>2. sched' = Idle \/ sched'.pc \in {"pick", "reserve", "begin"}
    BY <1>1, <1>7 DEF SchedPick, SchedReserve, Requeue
  <2> QED BY <2>1, <2>2
<1>8. CASE SchedBegin
  <2>1. sched.t \in Task
    BY <1>0, <1>8 DEF SchedBegin
  <2>2. CASE BeginAttempt(sched.t, sched.w) /\ attempts[sched.t] < MaxAttempts /\ sched' = [sched EXCEPT !.pc = "check"]
    <3>1. sched'.t = sched.t
      BY <1>1, <2>2
    <3> QED BY <2>1, <2>2, <3>1 DEF BeginAttempt
  <2> QED BY <1>8, <2>2 DEF SchedBegin, storeVars
<1>9. CASE SchedCheck
  <2>1. attempts' = attempts /\ sched.pc = "check" /\ (sched' = Idle \/ sched' = [sched EXCEPT !.pc = "send"])
    BY <1>9 DEF SchedCheck, Requeue, storeVars
  <2>2. sched' = [sched EXCEPT !.pc = "send"] => sched'.t = sched.t
    BY <1>1
  <2> QED BY <2>1, <2>2
<1>10. CASE SchedSend /\ ~Restart
  BY <1>10 DEF SchedSend, Requeue, storeVars
<1> QED BY <1>2, <1>3, <1>4, <1>5, <1>6, <1>7, <1>8, <1>9, <1>10 DEF Next, SchedStep, Crash

LEMMA TroubleMoves == [Next]_vars => UNCHANGED troubles \/ Trouble
<1> SUFFICES ASSUME Next PROVE UNCHANGED troubles \/ Trouble
  BY DEF vars
<1>1. ASSUME NEW w \in Worker, WorkerStep(w) PROVE UNCHANGED troubles \/ Trouble
  BY <1>1 DEF WorkerStep, RegisterMap, RegisterAdd, RegisterUpsert, Heartbeat, Drain, Silence, ClaimGet,
     ClaimReceive, ClaimNothing, CompleteReport, CompleteRelease, RemoteDies
<1>2. CASE SchedStep
  BY <1>2 DEF SchedStep, SchedPop, SchedPick, SchedReserve, SchedBegin, SchedCheck, SchedSend, SchedFrame
<1>3. CASE ReapStep
  BY <1>3 DEF ReapStep, ReapMark, ReapClose, ReapRemove, ReapDelete, ReapReclaim, ReapPush, ReapFrame
<1>4. ASSUME NEW t \in Task, SubmitCall(t) \/ LeaseLapses(t) PROVE UNCHANGED troubles \/ Trouble
  BY <1>4 DEF SubmitCall, LeaseLapses
<1> QED BY <1>1, <1>2, <1>3, <1>4 DEF Next, Crash

LEMMA CountedStep == Types /\ Locals /\ Counted /\ [Next]_vars => Counted'
<1> SUFFICES ASSUME Types, Locals, Counted, [Next]_vars PROVE Counted'
  OBVIOUS
<1>1. attempts \in [Task -> Nat] /\ MaxAttempts \in Nat /\ MaxTroubles \in Nat
  BY ExternalAssumption DEF Types, StoreInv, StoreTypeOK
<1>2. troubles' \in 0..MaxTroubles
  BY SMTT(30), <1>1, TroubleMoves DEF Counted, Trouble
<1>3. /\ \A t \in Task : attempts'[t] <= MaxAttempts
      /\ sched'.pc \in {"check", "send"} => attempts'[sched'.t] > 0
  <2>1. CASE UNCHANGED vars
    BY <2>1 DEF vars, storeVars, memoryVars, Counted
  <2>2. CASE attempts' = attempts /\ sched' \in {sched, Idle}
    BY SMTT(30), <2>2 DEF Counted, Idle
  <2>3. CASE attempts' = attempts /\ sched'.pc \in {"pick", "reserve", "begin"}
    BY <2>3 DEF Counted
  <2>4. CASE attempts' = attempts /\ sched.pc = "check" /\ sched'.t = sched.t
    BY <2>4 DEF Counted
  <2>5. CASE /\ sched.t \in Task /\ attempts[sched.t] < MaxAttempts /\ sched'.t = sched.t
             /\ attempts' = [attempts EXCEPT ![sched.t] = @ + 1]
    BY SMTT(30), <1>1, <2>5 DEF Counted
  <2> QED BY <2>1, <2>2, <2>3, <2>4, <2>5, AttemptMoves
<1> QED BY <1>2, <1>3 DEF Counted

RemoteTypeOK ==
    /\ row \in [Worker -> {"none", "online", "draining", "offline"}]
    /\ fresh \in [Worker -> BOOLEAN]
    /\ replaced \subseteq Worker /\ stale \subseteq Worker

LEMMA RemoteStep == Types /\ Locals /\ RemoteTypeOK /\ [Next]_vars => RemoteTypeOK'
<1> SUFFICES ASSUME Types, Locals, RemoteTypeOK, [Next]_vars PROVE RemoteTypeOK'
  OBVIOUS
<1>1. CASE Restart
  BY <1>1 DEF Restart, remoteVars, RemoteTypeOK
<1>2. ASSUME NEW w \in Worker, Beat(w) PROVE /\ row' \in [Worker -> {"none", "online", "draining", "offline"}]
                                             /\ fresh' \in [Worker -> BOOLEAN]
  BY <1>2 DEF Beat, RemoteTypeOK
<1>3. ASSUME NEW w \in Worker, WorkerStep(w), ~Restart PROVE RemoteTypeOK'
  <2>1. CASE RegisterMap(w) \/ RegisterAdd(w) \/ ClaimGet(w) \/ ClaimNothing(w) \/ RemoteDies(w)
    BY <1>3, <2>1 DEF RegisterMap, RegisterAdd, ClaimGet, ClaimNothing, RemoteDies, remoteVars, historyVars, RemoteTypeOK
  <2>2. ASSUME NEW ok \in BOOLEAN, RegisterUpsert(w, ok) PROVE RemoteTypeOK'
    BY <2>2 DEF RegisterUpsert, historyVars, RemoteTypeOK
  <2>3. CASE Heartbeat(w) \/ \E arrives \in BOOLEAN : ClaimReceive(w, arrives)
    BY <1>2, <2>3 DEF Heartbeat, ClaimReceive, historyVars, RemoteTypeOK
  <2>4. CASE Drain(w) \/ Silence(w)
    BY <2>4 DEF Drain, Silence, historyVars, RemoteTypeOK
  <2>5. ASSUME NEW a \in Attempt, NEW outcome \in {"succeeded", "dead"}, CompleteReport(w, a, outcome)
        PROVE  RemoteTypeOK'
    BY <2>5 DEF CompleteReport, remoteVars, RemoteTypeOK
  <2>6. ASSUME NEW a \in Attempt, NEW answered \in BOOLEAN, CompleteRelease(w, a, answered) PROVE RemoteTypeOK'
    BY <1>2, <1>3, <2>6 DEF CompleteRelease, RemoteTypeOK
  <2> QED BY <1>3, <2>1, <2>2, <2>3, <2>4, <2>5, <2>6 DEF WorkerStep
<1>4. CASE ReapStep
  <2>1. CASE ReapMark
    BY <2>1 DEF ReapMark, ReapFrame, RemoteTypeOK
  <2>2. CASE ReapDelete
    BY <2>2 DEF ReapDelete, ReapFrame, Locals, RemoteTypeOK
  <2>3. CASE UNCHANGED <<row, fresh, replaced, stale>>
    BY <2>3 DEF RemoteTypeOK
  <2> QED BY <1>4, <2>1, <2>2, <2>3 DEF ReapStep, ReapClose, ReapRemove, ReapReclaim, ReapPush, ReapFrame
<1>5. ASSUME UNCHANGED <<remoteVars, historyVars>> PROVE RemoteTypeOK'
  BY <1>5 DEF remoteVars, historyVars, RemoteTypeOK
<1>6. CASE SchedStep /\ ~Restart
  BY <1>5, <1>6 DEF SchedStep, SchedPop, SchedPick, SchedReserve, SchedBegin, SchedCheck, SchedSend, SchedFrame
<1>7. ASSUME NEW t \in Task, SubmitCall(t) \/ LeaseLapses(t) PROVE RemoteTypeOK'
  BY <1>5, <1>7 DEF SubmitCall, LeaseLapses
<1>8. CASE UNCHANGED vars
  BY <1>5, <1>8 DEF vars
<1> QED BY <1>1, <1>3, <1>4, <1>6, <1>7, <1>8 DEF Next, Crash

Bounded ==
    \A w \in Worker, i \in Index :
        LET o == obj[<<w, i>>]
        IN  /\ IsFiniteSet(o.used) /\ Cardinality(o.used) <= Slots[w]
            /\ o.pending \in Seq(Attempt) /\ Len(o.pending) <= Buffer(w)

Claimed == held \in [Worker -> SUBSET Attempt] /\ closing \in [Worker -> SUBSET Attempt]

LEMMA ClaimedStep == Types /\ Locals /\ Bounded /\ Claimed /\ [Next]_vars => Claimed'
<1> SUFFICES ASSUME Types, Locals, Bounded, Claimed, [Next]_vars PROVE Claimed'
  OBVIOUS
<1>1. CASE Restart
  BY <1>1 DEF Restart, Nothing, remoteVars, Claimed
<1>2. CASE UNCHANGED <<held, closing>>
  BY <1>2 DEF Claimed
<1>3. ASSUME NEW w \in Worker, WorkerStep(w), ~Restart PROVE Claimed'
  <2>1. ASSUME NEW arrives \in BOOLEAN, ClaimReceive(w, arrives) PROVE Claimed'
    <3> DEFINE p == obj[<<w, poll[w]>>].pending
    <3>1. poll[w] \in Index /\ p \in Seq(Attempt) /\ p # <<>>
      BY <2>1 DEF ClaimReceive, Types, MemoryTypeOK, Bounded
    <3>2. Head(p) \in Attempt
      BY SMTT(30), <3>1
    <3>3. /\ closing' = closing
          /\ held' = held \/ held' = [held EXCEPT ![w] = @ \union {Head(p)}]
      BY <2>1 DEF ClaimReceive
    <3> HIDE DEF p
    <3> QED BY <3>2, <3>3 DEF Claimed
  <2>2. ASSUME NEW a \in Attempt, NEW outcome \in {"succeeded", "dead"}, CompleteReport(w, a, outcome)
        PROVE  Claimed'
    BY <2>2 DEF CompleteReport, remoteVars, Claimed
  <2>3. ASSUME NEW a \in Attempt, NEW answered \in BOOLEAN, CompleteRelease(w, a, answered) PROVE Claimed'
    BY <1>3, <2>3 DEF CompleteRelease, Claimed
  <2>4. CASE RemoteDies(w)
    BY <2>4 DEF RemoteDies, memoryVars, Claimed
  <2> QED BY <1>2, <1>3, <2>1, <2>2, <2>3, <2>4
          DEF WorkerStep, RegisterMap, RegisterAdd, RegisterUpsert, Heartbeat, Drain, Silence, ClaimGet,
              ClaimNothing, remoteVars, memoryVars
<1>4. CASE SchedStep /\ ~Restart
  BY <1>2, <1>4 DEF SchedStep, SchedPop, SchedPick, SchedReserve, SchedBegin, SchedCheck, SchedSend,
     SchedFrame, remoteVars
<1>5. CASE ReapStep
  BY <1>2, <1>5 DEF ReapStep, ReapMark, ReapClose, ReapRemove, ReapDelete, ReapReclaim, ReapPush, ReapFrame
<1>6. ASSUME NEW t \in Task, SubmitCall(t) \/ LeaseLapses(t) PROVE Claimed'
  BY <1>2, <1>6 DEF SubmitCall, LeaseLapses, remoteVars, memoryVars
<1>7. CASE UNCHANGED vars
  BY <1>2, <1>7 DEF vars, remoteVars, memoryVars
<1> QED BY <1>1, <1>3, <1>4, <1>5, <1>6, <1>7 DEF Next, Crash

\* Receiving from a channel and sending where there is room.
LEMMA ChannelBound ==
    ASSUME NEW p \in Seq(Attempt), NEW b \in Nat, Len(p) <= b
    PROVE  /\ <<>> \in Seq(Attempt) /\ Len(<<>>) <= b
           /\ p # <<>> => Tail(p) \in Seq(Attempt) /\ Len(Tail(p)) <= b
           /\ \A a \in Attempt : Len(p) < b => Append(p, a) \in Seq(Attempt) /\ Len(Append(p, a)) <= b
<1>1. <<>> \in Seq(Attempt) /\ Len(<<>>) <= b
  BY SMTT(30)
<1>2. p # <<>> => Tail(p) \in Seq(Attempt) /\ Len(Tail(p)) <= b
  BY SMTT(30)
<1>3. ASSUME NEW a \in Attempt, Len(p) < b PROVE Append(p, a) \in Seq(Attempt) /\ Len(Append(p, a)) <= b
  BY SMTT(30), <1>3
<1> QED BY <1>1, <1>2, <1>3

INSTANCE FiniteSetTheorems

\* A set to which at most x was added.
LEMMA SubsetCounts ==
    ASSUME NEW S, IsFiniteSet(S), NEW T, NEW x, T \subseteq S \union {x}
    PROVE  /\ IsFiniteSet(T) /\ Cardinality(S) \in Nat /\ Cardinality(T) \in Nat
           /\ Cardinality(T) <= Cardinality(S) + 1
           /\ T \subseteq S => Cardinality(T) <= Cardinality(S)
<1>0. /\ IsFiniteSet(S \union {x}) /\ Cardinality(S) \in Nat
      /\ Cardinality(S \union {x}) = IF x \in S THEN Cardinality(S) ELSE Cardinality(S) + 1
  BY FS_AddElement, FS_CardinalityType
<1>1. Cardinality(S \union {x}) <= Cardinality(S) + 1
  BY SMTT(30), <1>0
<1>2. IsFiniteSet(T) /\ Cardinality(T) <= Cardinality(S \union {x}) /\ Cardinality(T) \in Nat
  BY <1>0, FS_Subset, FS_CardinalityType
<1>3. T \subseteq S => Cardinality(T) <= Cardinality(S)
  BY FS_Subset
<1>4. Cardinality(S \union {x}) \in Nat
  BY <1>0, FS_CardinalityType
<1>5. Cardinality(T) <= Cardinality(S) + 1
  BY SMTT(30), <1>0, <1>1, <1>2, <1>4
<1> QED BY <1>0, <1>2, <1>3, <1>5

LEMMA BoundedStep == Types /\ Locals /\ Counted /\ Bounded /\ [Next]_vars => Bounded'
<1> SUFFICES ASSUME Types, Locals, Counted, Bounded, [Next]_vars, NEW w \in Worker, NEW i \in Index
             PROVE  LET n == obj'[<<w, i>>]
                    IN  /\ IsFiniteSet(n.used) /\ Cardinality(n.used) <= Slots[w]
                        /\ n.pending \in Seq(Attempt) /\ Len(n.pending) <= Buffer(w)
  BY DEF Bounded, Buffer
<1> DEFINE o == obj[<<w, i>>]
           n == obj'[<<w, i>>]
<1>1. ObjectMove(o, n, w)
  BY ObjectStep DEF ObjectMoves
<1>2. Slots[w] \in Nat /\ Buffer(w) \in Nat
  BY SMTT(30), ExternalAssumption DEF Buffer
<1>3. IsFiniteSet(o.used) /\ Cardinality(o.used) <= Slots[w] /\ o.pending \in Seq(Attempt) /\ Len(o.pending) <= Buffer(w)
  BY DEF Bounded
<1>4. IsFiniteSet(n.used) /\ Cardinality(n.used) <= Slots[w]
  <2> DEFINE S == o.used
             T == n.used
  <2>1. T \subseteq S \/ (T \subseteq S \union {sched.t} /\ Cardinality(S) < Slots[w])
    BY <1>1 DEF ObjectMove
  <2>2. IsFiniteSet(S) /\ Cardinality(S) <= Slots[w]
    BY <1>3
  <2> HIDE DEF S, T
  <2>3. T \subseteq S \union {sched.t}
    BY <2>1
  <2>4. /\ IsFiniteSet(T) /\ Cardinality(S) \in Nat /\ Cardinality(T) \in Nat
        /\ Cardinality(T) <= Cardinality(S) + 1
        /\ T \subseteq S => Cardinality(T) <= Cardinality(S)
    BY <2>2, <2>3, SubsetCounts
  <2>5. Cardinality(T) <= Slots[w]
    BY SMTT(30), <1>2, <2>1, <2>2, <2>4
  <2> QED BY <2>4, <2>5 DEF T
<1>5. n.pending \in Seq(Attempt) /\ Len(n.pending) <= Buffer(w)
  <2> DEFINE p == o.pending
             q == n.pending
             a == <<sched.t, attempts[sched.t]>>
  <2>1. p \in Seq(Attempt) /\ Len(p) <= Buffer(w)
    BY <1>3
  <2>2. sched.pc = "send" => a \in Attempt
    <3> SUFFICES ASSUME sched.pc = "send" PROVE a \in Attempt
      OBVIOUS
    <3>1. sched.t \in Task
      BY DEF Locals
    <3>2. attempts[sched.t] \in Nat /\ MaxAttempts \in Nat
      BY <3>1, ExternalAssumption DEF Types, StoreInv, StoreTypeOK
    <3>3. attempts[sched.t] \in 1..MaxAttempts
      BY SMTT(30), <3>1, <3>2 DEF Counted
    <3> QED BY <3>1, <3>3 DEF Attempt
  <2>3. \/ q \in {p, <<>>}
        \/ p # <<>> /\ q = Tail(p)
        \/ sched.pc = "send" /\ Len(p) < Buffer(w) /\ q = Append(p, a)
    BY <1>1 DEF ObjectMove
  <2> HIDE DEF p, q, a
  <2>6. q \in Seq(Attempt) /\ Len(q) <= Buffer(w)
    BY <1>2, <2>1, <2>2, <2>3, ChannelBound
  <2> QED BY <2>6 DEF q
<1> QED BY <1>4, <1>5

\* The types of External: a worker's used set never exceeds the slots it
\* registered with and its pending channel never holds more than 2 * slots + 4
\* attempts, whatever registrations, offline marks and restarts came between
\* (CanHandle and ReserveSlot under the mutex, Deliver's select, Register).
THEOREM ExternalTypes == Spec => []TypeOK
<1> DEFINE Inv == Types /\ Locals /\ Counted /\ RemoteTypeOK /\ Bounded /\ Claimed
<1>1. Init => Inv
  <2> SUFFICES ASSUME Init PROVE Inv
    OBVIOUS
  <2>1. Types /\ Locals
    BY InitTypes
  <2>2. Counted
    BY SMTT(30), ExternalAssumption DEF Init, StoreInit, Idle, Counted
  <2>3. RemoteTypeOK
    BY DEF Init, RemoteTypeOK
  <2>4. Claimed
    BY DEF Init, Nothing, Claimed
  <2>5. Bounded
    <3>1. \A w \in Worker, i \in Index : obj[<<w, i>>] = Unborn
      BY DEF Init, NoObjects
    <3>2. IsFiniteSet({}) /\ Cardinality({}) = 0
      BY FS_EmptySet
    <3>3. \A w \in Worker : Slots[w] \in Nat /\ Buffer(w) \in Nat
      BY SMTT(30), ExternalAssumption DEF Buffer
    <3>4. <<>> \in Seq(Attempt) /\ Len(<<>>) = 0
      BY SMTT(30)
    <3>5. \A w \in Worker : 0 <= Slots[w] /\ 0 <= Buffer(w)
      BY SMTT(30), <3>3
    <3>6. Unborn.used = {} /\ Unborn.pending = <<>>
      BY NewObjectFacts
    <3> QED BY <3>1, <3>2, <3>4, <3>5, <3>6 DEF Bounded
  <2> QED BY <2>1, <2>2, <2>3, <2>4, <2>5
<1>2. Inv /\ [Next]_vars => Inv'
  BY TypesStep, CountedStep, RemoteStep, BoundedStep, ClaimedStep
<1>3. Inv => TypeOK
  <2> SUFFICES ASSUME Inv PROVE TypeOK
    OBVIOUS
  <2>1. \A w \in Worker, i \in Index : obj[<<w, i>>] \in ObjectRecord
    BY DEF Types, ObjTypeOK
  <2>2. \A o \in ObjectRecord : o.used \subseteq Task /\ {o.born, o.online, o.closed} \subseteq BOOLEAN
    BY DEF ObjectRecord
  <2>3. troubles \in 0..MaxTroubles
    BY DEF Counted
  <2> QED BY <2>1, <2>2, <2>3 DEF TypeOK, Types, StoreInv, MemoryTypeOK, RemoteTypeOK, Bounded, Claimed
<1> QED BY <1>1, <1>2, <1>3, PTL DEF Spec
=============================================================================
