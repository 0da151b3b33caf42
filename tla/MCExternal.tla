----------------------------- MODULE MCExternal -----------------------------
(* Small instances of External: requests that share a key or have none,     *)
(* workers of two slots.                                                    *)
EXTENDS External, TLC

CONSTANTS t1, t2, w1

NoRetries == [t \in Task |-> 0]
OnePriority == [t \in Task |-> PriorityNormal]
TwoSlots == [w \in Worker |-> 2]
SharedOrNone == {[t \in Task |-> k] : k \in Key \union {NoKey}}
Alike == Permutations(Task)
=============================================================================
