----------------------------- MODULE MCAsyncFlow -----------------------------
(* Small instances of AsyncFlow.                                           *)
EXTENDS AsyncFlow, Schema

CONSTANTS t1, t2, w1, w2

OneTask == {t1}
TwoTasks == {t1, t2}
OneWorker == {w1}
TwoWorkers == {w1, w2}

AllNormal == [t \in Task |-> 2]
NormalLow == [t \in Task |-> IF t = t1 THEN 2 ELSE 3]
CriticalLow == [t \in Task |-> IF t = t1 THEN 0 ELSE 3]
NoRetries == [t \in Task |-> 0]
OneRetry == [t \in Task |-> 1]
OneSlot == [w \in Worker |-> 1]
TwoOneSlots == [w \in Worker |-> IF w = w1 THEN 2 ELSE 1]
AllTypes == [w \in Worker |-> Task]
AsDeployed == RejectedCalls
OnlyT2 == [w \in Worker |-> {t2}]
=============================================================================
