---------------------------- MODULE MCRedisQueue ----------------------------
(* Three ids on two of the priorities, four instants in two milliseconds, *)
(* and a PopDue limit below the number of ids.                            *)
EXTENDS RedisQueue, TLC

CONSTANTS t1, t2, t3

MCTask == {t1, t2, t3}
MCPriority == t1 :> 2 @@ t2 :> 2 @@ t3 :> 4
MCMaxRetries == [t \in MCTask |-> 0]
=============================================================================
