--------------------------------- MODULE Dag ---------------------------------
(***************************************************************************)
(* One DAG run: internal/orchestration/engine.go over storage/dags.go,     *)
(* composed with the life of the node tasks as far as orchestration sees   *)
(* it.  Every call of the package is keyed by the DAG's id, so one run     *)
(* shows all interactions.                                                 *)
(*                                                                         *)
(* A launcher is a goroutine in Submit (Api) or in OnTaskTerminal, the     *)
(* hook that ReportResult calls for the task that just ended.  A step is   *)
(* one transaction or one Redis call.  The task_id and attempts columns of *)
(* dag_nodes are only shown to users and are left out.                     *)
(***************************************************************************)
EXTENDS DagValidate

CONSTANTS
    NodeCount,     \* nodes of the definition, named by their position
    Requests,      \* what clients may submit: dependencies and failure policy
    MaxLaunches,   \* bound: tasks submitted for one node
    MaxTroubles    \* bound: failing calls, canceled tasks and restarts

Node == 1..NodeCount
Task == Node \X (1..MaxLaunches)
Api == <<0, 0>>
Launcher == Task \union {Api}

ASSUME CountAssumption == NodeCount \in Nat /\ MaxLaunches \in Nat /\ MaxTroubles \in Nat
Policy == {"terminate", "skip", "retry"}
ASSUME RequestAssumption == Requests \subseteq [deps : [Node -> Seq(Node)], policy : Policy]

VARIABLES
    dag,       \* dags.status; "none" is a DAG not yet submitted
    policy,    \* dags.failure_policy
    deps,      \* dags.definition: the dependencies of each node
    node,      \* dag_nodes.state
    task,      \* tasks.status; a "created" task is in no queue yet
    linked,    \* the tasks whose dag_id and dag_node_id are set
    at,        \* the locals of each launcher
    troubles,  \* failing calls, canceled tasks and restarts so far
    serial     \* history: no trouble and no overlap of launchers so far

vars == <<dag, policy, deps, node, task, linked, at, troubles, serial>>

NodeState == {"waiting", "running", "succeeded", "failed", "skipped"}
Concluded == {"succeeded", "failed"}
Ended == {"succeeded", "dead", "canceled"}

\* snap: the node states in the hook's memory; todo: nodes still to submit;
\* cur: the task being submitted; sent: tasks whose node row is not yet written;
\* again: the hook is inside retryNode.
Idle ==
    [pc |-> "idle", snap |-> [n \in Node |-> "waiting"], todo |-> {}, cur |-> Api,
     sent |-> {}, again |-> FALSE]

Init ==
    /\ dag = "none"
    /\ policy = "terminate"
    /\ deps = [n \in Node |-> <<>>]
    /\ node = [n \in Node |-> "waiting"]
    /\ task = [t \in Task |-> "none"]
    /\ linked = {}
    /\ at = [p \in Launcher |-> Idle]
    /\ troubles = 0
    /\ serial = TRUE

Dependencies(n) == Range(deps[n])

Submitted(n) == {t \in Task : t[1] = n /\ task[t] # "none"}

-----------------------------------------------------------------------------
(* Submitting tasks: launchNodes and retryNode.                            *)

Launching(ns) == IF ns = {} THEN Idle ELSE [Idle EXCEPT !.pc = "create", !.todo = ns]

Definition(d) == [n \in Node |-> [id |-> n, dependencies |-> d[n]]]

\* Engine.Submit: CreateDAG writes the DAG row and all node rows at once.
Submit(req) ==
    /\ dag = "none"
    /\ Validate(Definition(req.deps)).err = "none"
    /\ dag' = "running" /\ policy' = req.policy /\ deps' = req.deps
    /\ at' = [at EXCEPT ![Api] = Launching({n \in Node : req.deps[n] = <<>>})]
    /\ UNCHANGED <<node, task, linked, troubles>>

\* A failing call ends launchNodes early; a failing retryNode lets the hook
\* go on with the node failed.
GiveUp(p) ==
    at' = [at EXCEPT ![p] =
             IF at[p].again
             THEN [Idle EXCEPT !.pc = "apply", !.snap = [at[p].snap EXCEPT ![p[1]] = "failed"]]
             ELSE Idle]

\* The id the next task of a node gets.
Fresh(t) == task[t] = "none" /\ \A u \in Task : u[1] = t[1] /\ u[2] < t[2] => task[u] # "none"

\* engine.Submit, its insert.  Nodes are submitted in definition order.
Create(p) ==
    /\ at[p].pc = "create"
    /\ \E t \in Task :
          /\ t[1] \in at[p].todo /\ \A n \in at[p].todo : t[1] <= n
          /\ Fresh(t)
          /\ task' = [task EXCEPT ![t] = "created"]
          /\ at' = [at EXCEPT ![p].pc = "enqueue", ![p].todo = @ \ {t[1]}, ![p].cur = t]
    /\ UNCHANGED <<dag, policy, deps, node, linked, troubles>>

\* engine.Submit, its Enqueue; from here on a worker may run the task.
Enqueue(p) ==
    /\ at[p].pc = "enqueue"
    /\ task' = [task EXCEPT ![at[p].cur] = IF @ = "created" THEN "queued" ELSE @]
    /\ at' = [at EXCEPT ![p].pc = "link"]
    /\ UNCHANGED <<dag, policy, deps, node, linked, troubles>>

\* linkSubmitter: LinkDAGNode, after the task was enqueued.
Link(p) ==
    /\ at[p].pc = "link"
    /\ linked' = linked \union {at[p].cur}
    /\ at' = [at EXCEPT ![p].pc = IF at[p].todo = {} THEN "update" ELSE "create",
                        ![p].sent = @ \union {at[p].cur}, ![p].cur = Api]
    /\ UNCHANGED <<dag, policy, deps, node, task, troubles>>

\* Mutant: only the task id is recorded, the state stays.
UpdateTaskOnly(p) ==
    /\ at[p].pc = "update"
    /\ at' = [at EXCEPT ![p] = Idle]
    /\ UNCHANGED <<dag, policy, deps, node, task, linked, troubles>>

\* One UpdateDAGNodes after all submissions, whatever the rows hold by now.
Update(p) ==
    /\ at[p].pc = "update"
    /\ node' = [n \in Node |-> IF \E t \in at[p].sent : t[1] = n THEN "running" ELSE node[n]]
    /\ at' = [at EXCEPT ![p] = Idle]
    /\ UNCHANGED <<dag, policy, deps, task, linked, troubles>>

-----------------------------------------------------------------------------
(* OnTaskTerminal, for the node p[1] whose task p ended.                   *)

\* CompleteAttempt returns the row: a task not yet linked has no DAG, and the
\* hook returns at once.
Finish(t, outcome) ==
    /\ task[t] = "queued"
    /\ task' = [task EXCEPT ![t] = outcome]
    /\ at' = IF t \in linked THEN [at EXCEPT ![t].pc = "get"] ELSE at
    /\ UNCHANGED <<dag, policy, deps, node, linked, troubles>>

GetDAG(p) ==
    /\ at[p].pc = "get"
    /\ at' = [at EXCEPT ![p] = IF dag \in Concluded THEN Idle ELSE [@ EXCEPT !.pc = "list"]]
    /\ UNCHANGED <<dag, policy, deps, node, task, linked, troubles>>

\* Mutant: the task's status is taken for the node's state.
ListTaskStatus(p) ==
    /\ at[p].pc = "list"
    /\ LET hook(pc, s) == [Idle EXCEPT !.pc = pc, !.snap = [node EXCEPT ![p[1]] = s]]
       IN at' = [at EXCEPT ![p] =
            IF policy = "retry" /\ task[p] = "dead"
            THEN [Launching({p[1]}) EXCEPT !.snap = node, !.again = TRUE]
            ELSE hook("apply", task[p])]
    /\ UNCHANGED <<dag, policy, deps, node, task, linked, troubles>>

\* ListDAGNodes and the switch over outcome and policy.
ListDAGNodes(p) ==
    /\ at[p].pc = "list"
    /\ LET hook(pc, s) == [Idle EXCEPT !.pc = pc, !.snap = [node EXCEPT ![p[1]] = s]]
       IN at' = [at EXCEPT ![p] =
            IF task[p] = "succeeded" THEN hook("apply", "succeeded")
            ELSE IF policy = "skip" THEN hook("apply", "skipped")
            ELSE IF policy = "terminate" THEN hook("abort", "failed")
            ELSE [Launching({p[1]}) EXCEPT !.snap = node, !.again = TRUE]]
    /\ UNCHANGED <<dag, policy, deps, node, task, linked, troubles>>

\* Mutant: the nodes that will never run are not skipped.
AbortNodeOnly(p) ==
    /\ at[p].pc = "abort"
    /\ node' = [node EXCEPT ![p[1]] = "failed"]
    /\ dag' = "failed"
    /\ at' = [at EXCEPT ![p] = Idle]
    /\ UNCHANGED <<policy, deps, task, linked, troubles>>

\* DAGAbort: the node failed, what was waiting skipped, the DAG failed.
Abort(p) ==
    /\ at[p].pc = "abort"
    /\ node' = [n \in Node |-> IF n = p[1] THEN "failed"
                               ELSE IF at[p].snap[n] = "waiting" THEN "skipped" ELSE node[n]]
    /\ dag' = "failed"
    /\ at' = [at EXCEPT ![p] = Idle]
    /\ UNCHANGED <<policy, deps, task, linked, troubles>>

\* Mutant: one satisfied dependency is enough.
ReadyOnFirst(s) ==
    {n \in Node :
       /\ s[n] = "waiting"
       /\ \E d \in Dependencies(n) : s[d] \in {"succeeded", "skipped"}}

\* Mutant: a skipped dependency does not count as satisfied.
ReadyOnSuccess(s) ==
    {n \in Node : s[n] = "waiting" /\ \A d \in Dependencies(n) : s[d] = "succeeded"}

\* progress: the waiting nodes whose dependencies are all satisfied, ...
Ready(s) ==
    {n \in Node : s[n] = "waiting" /\ \A d \in Dependencies(n) : s[d] \in {"succeeded", "skipped"}}

\* Mutant: running nodes are not waited for.
AggregateEarly(s) ==
    IF \E n \in Node : s[n] = "waiting" THEN "running"
    ELSE IF \E n \in Node : s[n] = "failed" THEN "failed" ELSE "succeeded"

\* ... and the aggregate status once nothing is waiting or running.
Aggregate(s) ==
    IF \E n \in Node : s[n] \in {"waiting", "running"} THEN "running"
    ELSE IF \E n \in Node : s[n] = "failed" THEN "failed" ELSE "succeeded"

\* Only the hook's own row is written, but what comes next is decided on its
\* copy of all rows.
Apply(p) ==
    /\ at[p].pc = "apply"
    /\ node' = [node EXCEPT ![p[1]] = at[p].snap[p[1]]]
    /\ dag' = IF Aggregate(at[p].snap) = "running" THEN dag ELSE Aggregate(at[p].snap)
    /\ at' = [at EXCEPT ![p] =
                IF Aggregate(at[p].snap) = "running" THEN Launching(Ready(at[p].snap)) ELSE Idle]
    /\ UNCHANGED <<policy, deps, task, linked, troubles>>

-----------------------------------------------------------------------------
(* Disturbances.                                                           *)

Trouble == troubles < MaxTroubles /\ troubles' = troubles + 1

\* The call a launcher is about to make fails and changes nothing.
Fault(p) ==
    /\ at[p].pc # "idle"
    /\ Trouble
    /\ IF at[p].pc \in {"create", "enqueue", "link", "update"}
       THEN GiveUp(p)
       ELSE at' = [at EXCEPT ![p] = Idle]
    /\ UNCHANGED <<dag, policy, deps, node, task, linked>>

\* CancelTask: the hook is not called for a canceled task.
CancelTask(t) ==
    /\ Trouble
    /\ task[t] \in {"created", "queued"}
    /\ task' = [task EXCEPT ![t] = "canceled"]
    /\ UNCHANGED <<dag, policy, deps, node, linked, at>>

\* The process dies and starts again: goroutines are gone, ready rows are
\* pushed; nothing looks at running DAGs.
Restart ==
    /\ dag # "none"
    /\ Trouble
    /\ at' = [p \in Launcher |-> Idle]
    /\ task' = [t \in Task |-> IF task[t] = "created" THEN "queued" ELSE task[t]]
    /\ UNCHANGED <<dag, policy, deps, node, linked>>

-----------------------------------------------------------------------------
Step(p) ==
    \/ Create(p) \/ Enqueue(p) \/ Link(p) \/ Update(p)
    \/ GetDAG(p) \/ ListDAGNodes(p) \/ Abort(p) \/ Apply(p)

\* Bound: under the retry policy the last task a node may have does not die.
MayDie(t) == policy = "retry" => t[2] < MaxLaunches

Run(t) == Finish(t, "succeeded") \/ (MayDie(t) /\ Finish(t, "dead"))

\* One launcher at a time, and none of its tasks ends before it has recorded
\* them: what the code's order of calls takes for granted.
Serial ==
    /\ troubles = 0
    /\ \A p, q \in Launcher : at[p].pc # "idle" /\ at[q].pc # "idle" => p = q
    /\ \A p \in Launcher : \A t \in at[p].sent \union ({at[p].cur} \ {Api}) : task[t] \notin Ended

Watch == serial' = (serial /\ Serial')

Progress == ((\E p \in Launcher : Step(p)) \/ (\E t \in Task : Run(t))) /\ Watch

Next ==
    \/ \E req \in Requests : Submit(req) /\ Watch
    \/ Progress
    \/ \E p \in Launcher : Fault(p) /\ Watch
    \/ \E t \in Task : CancelTask(t) /\ Watch
    \/ Restart /\ Watch

Spec == Init /\ [][Next]_vars

\* Goroutines run on and the task engine brings every queued task to an end.  A
\* run of a DAG has finitely many steps, so fairness of their union is enough.
FairSpec == Spec /\ WF_vars(Progress)

-----------------------------------------------------------------------------
Locals ==
    [pc : {"idle", "create", "enqueue", "link", "update", "get", "list", "abort", "apply"},
     snap : [Node -> NodeState], todo : SUBSET Node, cur : Launcher, sent : SUBSET Task,
     again : BOOLEAN]

TypeOK ==
    /\ dag \in {"none", "running"} \union Concluded
    /\ policy \in Policy
    /\ deps \in [Node -> Seq(Node)]
    /\ node \in [Node -> NodeState]
    /\ task \in [Task -> {"none", "created", "queued"} \union Ended]
    /\ linked \subseteq Task
    /\ at \in [Launcher -> Locals]
    /\ troubles \in 0..MaxTroubles
    /\ serial \in BOOLEAN

\* A dependency is satisfied: one of its tasks succeeded, or died under the
\* policy that skips dead nodes.
Satisfied(n) ==
    \E t \in Submitted(n) : task[t] = "succeeded" \/ (policy = "skip" /\ task[t] = "dead")

\* A node's task is submitted only after every dependency is satisfied: hooks
\* that decide on a copy of the rows taken earlier, rows overwritten by a late
\* UpdateDAGNodes, failed calls and restarts never release a node early.
DependenciesFirst ==
    \A n \in Node : Submitted(n) # {} => \A d \in Dependencies(n) : Satisfied(d)

\* The aggregate status tells the truth about the past: a DAG is only recorded
\* as failed once a task died, and as succeeded once every node is satisfied.
\* The exception is DAGAbort: it skips nodes, and a hook that passed GetDAG just
\* before may count them as satisfied and write succeeded over failed.
AggregateSound ==
    /\ dag = "failed" => \E t \in Task : task[t] = "dead"
    /\ dag = "succeeded" =>
          \/ \A n \in Node : Satisfied(n)
          \/ policy = "terminate" /\ \E t \in Task : task[t] = "dead"

\* A concluded DAG leaves no node waiting (DAGAbort skips them, progress only
\* concludes without any), however stale the copy the hook concluded on.
NoneWaitingAfterEnd == dag \in Concluded => \A n \in Node : node[n] # "waiting"

\* Nothing left to do: no goroutine in orchestration, no task in the queues.
Quiescent ==
    /\ \A p \in Launcher : at[p].pc = "idle"
    /\ \A t \in Task : task[t] \notin {"created", "queued"}

\* Without overlap OnTaskTerminal brings every DAG to an end, under each of the
\* three failure policies.
SerialDagConcludes == serial /\ Quiescent => dag # "running"

\* Without overlap a node is submitted once, and again only by retryNode.
SerialLaunchesOnce ==
    serial /\ policy # "retry" => \A n \in Node : Cardinality(Submitted(n)) <= 1

\* Every DAG comes to an end when nothing fails, is canceled or restarted.
DagConcludes == dag = "running" ~> dag \in Concluded \/ troubles > 0
=============================================================================
