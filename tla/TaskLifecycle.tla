---------------------------- MODULE TaskLifecycle ----------------------------
(***************************************************************************)
(* What the storage package promises about one task row, whoever calls it: *)
(* the transitions of the CAS state machine and when an attempt is counted.*)
(* AsyncFlow implements it, crashes, errors and races included.            *)
(***************************************************************************)
EXTENDS Naturals

CONSTANTS Task, TaskStatus   \* as in Domain

VARIABLES status, attempts

Legal ==
    [none      |-> {"pending", "ready"},
     pending   |-> {"ready", "canceled"},
     ready     |-> {"running", "canceled"},
     running   |-> {"succeeded", "pending", "dead", "ready", "canceled"},
     succeeded |-> {"canceled"},
     dead      |-> {"ready", "canceled"},
     canceled  |-> {}]

LInit ==
    /\ status = [t \in Task |-> "none"]
    /\ attempts = [t \in Task |-> 0]

\* One statement may move several rows, each along a legal edge; an attempt is
\* counted exactly when a ready row becomes running, one row at a time.
Move ==
    /\ status' \in [Task -> TaskStatus]
    /\ \A t \in Task :
          status'[t] # status[t] => status'[t] \in Legal[status[t]] \ {"running"}
    /\ UNCHANGED attempts

Begin(t) ==
    /\ status[t] = "ready"
    /\ status' = [status EXCEPT ![t] = "running"]
    /\ attempts' = [attempts EXCEPT ![t] = @ + 1]

LNext == Move \/ \E t \in Task : Begin(t)

LSpec == LInit /\ [][LNext]_<<status, attempts>>
=============================================================================
