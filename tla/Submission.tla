----------------------------- MODULE Submission -----------------------------
(***************************************************************************)
(* Idempotent submission: Engine.Submit over CreateTask, GetTaskByIdem and *)
(* the partial unique index of migrations/0001_init.sql.  Every request    *)
(* that gets as far as the insert brings its own new id, so requests are   *)
(* named by the task they would create.                                    *)
(***************************************************************************)
EXTENDS TaskStore

CONSTANTS
    Key,     \* idempotency keys
    NoKey,   \* the empty key, which the index does not cover
    Keys     \* the assignments of keys to requests considered

ASSUME KeysAssumption == NoKey \notin Key /\ Keys \subseteq [Task -> Key \union {NoKey}]

VARIABLES
    key,     \* key[t]: the key that comes with the request
    ready,   \* ids in the ready queue
    sub      \* the handler: its program counter and the task it answers with

submissionVars == <<key, ready, sub>>

SubmissionInit ==
    /\ key \in Keys
    /\ ready = {}
    /\ sub = [t \in Task |-> [pc |-> "new", got |-> NoTask]]

Answer(t, pc, got) == sub' = [sub EXCEPT ![t] = [pc |-> pc, got |-> got]]

\* The rows with t's key.
Duplicates(t) == {u \in Task : status[u] # "none" /\ key[u] = key[t] /\ key[t] # NoKey}

\* GetTaskByIdem: an existing task is the answer.
Lookup(t) ==
    /\ sub[t].pc = "new"
    /\ IF Duplicates(t) = {} THEN Answer(t, "insert", NoTask)
       ELSE \E u \in Duplicates(t) : Answer(t, "existing", u)
    /\ UNCHANGED <<storeVars, key, ready>>

\* Mutant: no unique index.
InsertUnchecked(t) ==
    /\ sub[t].pc = "insert"
    /\ CreateTask(t, "ready", 0)
    /\ Answer(t, "enqueue", NoTask)
    /\ UNCHANGED <<key, ready>>

\* CreateTask: the index refuses the second of two requests that both found
\* nothing; that request ends with ErrConflict.
Insert(t) ==
    /\ sub[t].pc = "insert"
    /\ IF Duplicates(t) = {}
       THEN CreateTask(t, "ready", 0) /\ Answer(t, "enqueue", NoTask)
       ELSE Answer(t, "failed", NoTask) /\ UNCHANGED storeVars
    /\ UNCHANGED <<key, ready>>

Enqueue(t) ==
    /\ sub[t].pc = "enqueue"
    /\ ready' = ready \union {t}
    /\ Answer(t, "created", t)
    /\ UNCHANGED <<storeVars, key>>

SubmitStep(t) == Lookup(t) \/ Insert(t) \/ Enqueue(t)

Submitting == {t \in Task : sub[t].pc \in {"insert", "enqueue"}}

\* Any of the three calls fails; what was done before stays.
SubmitFault(t) ==
    /\ sub[t].pc \in {"new", "insert", "enqueue"}
    /\ Answer(t, "failed", NoTask)
    /\ UNCHANGED <<storeVars, key, ready>>

SubmissionTypeOK ==
    /\ key \in [Task -> Key \union {NoKey}]
    /\ ready \subseteq Task
    /\ sub \in [Task -> [pc : {"new", "insert", "enqueue", "created", "existing", "failed"},
                         got : Task \union {NoTask}]]

\* All requests with one key that are answered are answered with one and the
\* same task, and it is the only row with that key: the lookup races the insert
\* of another request, the index decides.
IdempotentAnswers ==
    \A t, u \in Task :
        key[t] = key[u] /\ key[t] # NoKey =>
            /\ sub[t].got # NoTask /\ sub[u].got # NoTask => sub[t].got = sub[u].got
            /\ status[t] # "none" /\ status[u] # "none" => t = u
=============================================================================
