----------------------------- MODULE MemoryQueue -----------------------------
(***************************************************************************)
(* The queue.Queue contract in the form the unit tests rely on             *)
(* (internal/queue/memory.go): one list per priority, searched for         *)
(* duplicates, and one id -> score map per wait kind.  RedisQueue is shown *)
(* to implement it.                                                        *)
(***************************************************************************)
EXTENDS Integers, Sequences, FiniteSets

CONSTANTS
    Task, Rank, WaitKind, Time, Batch,   \* as in Domain
    UnixMilli(_)                         \* the score of an instant

VARIABLES
    lists,    \* lists[p]: the ready ids of priority p, head first
    waiting   \* waiting[k][t]: t's score in wait set k, or NotWaiting

NotWaiting == -1

memVars == <<lists, waiting>>

MemInit ==
    /\ lists = [p \in Rank |-> <<>>]
    /\ waiting = [k \in WaitKind |-> [t \in Task |-> NotWaiting]]

add(p, t, head) ==
    /\ lists' = IF \E i \in DOMAIN lists[p] : lists[p][i] = t THEN lists
                ELSE [lists EXCEPT ![p] = IF head THEN <<t>> \o @ ELSE Append(@, t)]
    /\ UNCHANGED waiting

Dequeue(p) ==
    /\ lists[p] # <<>>
    /\ lists' = [lists EXCEPT ![p] = Tail(@)]
    /\ UNCHANGED waiting

AddWaiting(k, t, due) ==
    /\ waiting' = [waiting EXCEPT ![k][t] = UnixMilli(due)]
    /\ UNCHANGED lists

RemoveWaiting(k, t) ==
    /\ waiting' = [waiting EXCEPT ![k][t] = NotWaiting]
    /\ UNCHANGED lists

\* The scores in a wait set that are due at `now`, and the possible results of
\* PopDue: the Batch lowest of them, ties broken either way.
Due(scores, now) ==
    {t \in Task : scores[t] # NotWaiting /\ scores[t] <= UnixMilli(now)}

DueBatches(scores, now) ==
    {ids \in SUBSET Due(scores, now) :
        /\ Cardinality(ids) <= Batch
        /\ \A t \in Due(scores, now) \ ids :
              /\ Cardinality(ids) = Batch
              /\ \A u \in ids : scores[u] <= scores[t]}

PopDue(k, now, ids) ==
    /\ ids \in DueBatches(waiting[k], now)
    /\ waiting' = [waiting EXCEPT ![k] =
                     [t \in Task |-> IF t \in ids THEN NotWaiting ELSE @[t]]]
    /\ UNCHANGED lists

MemNext ==
    \/ \E p \in Rank, t \in Task, head \in BOOLEAN : add(p, t, head)
    \/ \E p \in Rank : Dequeue(p)
    \/ \E k \in WaitKind, t \in Task, due \in Time : AddWaiting(k, t, due)
    \/ \E k \in WaitKind, t \in Task : RemoveWaiting(k, t)
    \/ \E k \in WaitKind, now \in Time, ids \in SUBSET Task : PopDue(k, now, ids)

MemSpec == MemInit /\ [][MemNext]_memVars

=============================================================================
