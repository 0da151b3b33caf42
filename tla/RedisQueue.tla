----------------------------- MODULE RedisQueue -----------------------------
(***************************************************************************)
(* internal/queue/redis.go: the scheduling data plane kept in Redis.  Each *)
(* Lua script and each single command is atomic, so each is one operator.  *)
(* A ready queue is a list plus a membership set that suppresses duplicate *)
(* pushes; a wait set is a sorted set scored in unix milliseconds.         *)
(*                                                                         *)
(* The operators are used by AsyncFlow as the queue half of its actions;   *)
(* QSpec lets arbitrary callers invoke them in any order (every caller     *)
(* pushes a task at its own priority).                                     *)
(***************************************************************************)
EXTENDS Domain, Sequences, Functions

VARIABLES
    list,      \* list[p]: ready:list:<p>, head first
    members,   \* members[p]: ready:members:<p>
    wait       \* wait[k][t]: the score of t in wait:<k>, or NotWaiting

NotWaiting == -1

queueVars == <<list, members, wait>>

QInit ==
    /\ list = [p \in Rank |-> <<>>]
    /\ members = [p \in Rank |-> {}]
    /\ wait = [k \in WaitKind |-> [t \in Task |-> NotWaiting]]

\* enqueueScript: SADD decides, the list is touched only when it added.
runEnqueue(p, t, head) ==
    /\ members' = [members EXCEPT ![p] = @ \union {t}]
    /\ list' = IF t \in members[p] THEN list
               ELSE [list EXCEPT ![p] = IF head THEN <<t>> \o @ ELSE Append(@, t)]
    /\ UNCHANGED wait

Enqueue(p, t) == runEnqueue(p, t, FALSE)

EnqueueHead(p, t) == runEnqueue(p, t, TRUE)

\* Mutant: the popped id keeps its membership marker.
DequeueKeepsMarker(p) ==
    /\ list[p] # <<>>
    /\ list' = [list EXCEPT ![p] = Tail(@)]
    /\ UNCHANGED <<members, wait>>

\* dequeueScript on a non-empty list: LPOP, then SREM of the popped id.
Dequeue(p) ==
    /\ list[p] # <<>>
    /\ members' = [members EXCEPT ![p] = @ \ {Head(list[p])}]
    /\ list' = [list EXCEPT ![p] = Tail(@)]
    /\ UNCHANGED wait

\* Mutant: the score is the raw instant.
AddWaitingRaw(k, t, due) ==
    /\ wait' = [wait EXCEPT ![k][t] = due]
    /\ UNCHANGED <<list, members>>

\* ZADD inserts or overwrites the score, truncated to milliseconds.
AddWaiting(k, t, due) ==
    /\ wait' = [wait EXCEPT ![k][t] = UnixMilli(due)]
    /\ UNCHANGED <<list, members>>

RemoveWaiting(k, t) ==
    /\ wait' = [wait EXCEPT ![k][t] = NotWaiting]
    /\ UNCHANGED <<list, members>>

\* ZRANGEBYSCORE -inf now LIMIT 0 Batch: a prefix of the set in score order.
DueIds(k, now) ==
    {t \in Task : wait[k][t] # NotWaiting /\ wait[k][t] <= UnixMilli(now)}

\* Mutant: the limit picks due ids regardless of score.
IsDueSample(k, now, ids) ==
    /\ ids \subseteq DueIds(k, now)
    /\ Cardinality(ids) <= Batch
    /\ ids # DueIds(k, now) => Cardinality(ids) = Batch

IsDuePrefix(k, now, ids) ==
    /\ ids \subseteq DueIds(k, now)
    /\ Cardinality(ids) <= Batch
    /\ ids # DueIds(k, now) => Cardinality(ids) = Batch
    /\ \A u \in ids, t \in DueIds(k, now) \ ids : wait[k][u] <= wait[k][t]

PopDue(k, now, ids) ==
    /\ IsDuePrefix(k, now, ids)
    /\ wait' = [wait EXCEPT ![k] =
                  [t \in Task |-> IF t \in ids THEN NotWaiting ELSE @[t]]]
    /\ UNCHANGED <<list, members>>

QNext ==
    \/ \E t \in Task : Enqueue(Priority[t], t)
    \/ \E t \in Task : EnqueueHead(Priority[t], t)
    \/ \E p \in Rank : Dequeue(p)
    \/ \E k \in WaitKind, t \in Task, due \in Time : AddWaiting(k, t, due)
    \/ \E k \in WaitKind, t \in Task : RemoveWaiting(k, t)
    \/ \E k \in WaitKind, now \in Time, ids \in SUBSET Task : PopDue(k, now, ids)

QSpec == QInit /\ [][QNext]_queueVars

-----------------------------------------------------------------------------
QTypeOK ==
    /\ list \in [Rank -> Seq(Task)]
    /\ members \in [Rank -> SUBSET Task]
    /\ wait \in [WaitKind -> [Task -> {NotWaiting} \union {UnixMilli(x) : x \in Time}]]

\* "A task id is present at most once per ready queue" (queue.go:22-23), and
\* the membership set that enforces it never drifts from the list: a marker
\* left behind by a pop would silently swallow every later push of that id.
QueueConsistent ==
    \A p \in Rank :
        /\ members[p] = Range(list[p])
        /\ \A i, j \in DOMAIN list[p] : list[p][i] = list[p][j] => i = j

\* Redis behaves like the in-memory queue the unit tests run against: with
\* the membership sets hidden, every script is a step of memory.go.
Mem == INSTANCE MemoryQueue WITH lists <- list, waiting <- wait

MemoryQueueSpec == Mem!MemSpec

=============================================================================
