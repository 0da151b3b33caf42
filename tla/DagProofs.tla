------------------------------ MODULE DagProofs ------------------------------
(***************************************************************************)
(* DAG runs of any size: what is released, concluded and left waiting.     *)
(***************************************************************************)
EXTENDS Dag, TLAPS

\* Zenon proves the leaves that cite no other prover.
USE ZenonT(30)

Died(tk) == \E t \in Task : tk[t] = "dead"

\* What the states in s say of the tasks is true: rows and copies of rows may be
\* out of date, but a success or a death they mention did happen.
Truth(s, tk, pol) ==
    \A n \in Node :
        /\ s[n] = "succeeded" => \E t \in Task : t[1] = n /\ tk[t] = "succeeded"
        /\ s[n] = "failed" => Died(tk)
        /\ s[n] = "skipped" =>
              \/ pol = "skip" /\ \E t \in Task : t[1] = n /\ tk[t] = "dead"
              \/ pol = "terminate" /\ Died(tk)

\* DAGAbort skips all waiting nodes together.
SkipsAll(s, pol) ==
    pol = "terminate" /\ (\E n \in Node : s[n] = "skipped") => \A n \in Node : s[n] # "waiting"

\* No node returns to waiting, so a copy shows at least the waiting nodes.
Covers(s, nd, own) == \A n \in Node : n # own /\ nd[n] = "waiting" => s[n] = "waiting"

Reports(pc) == pc \in {"get", "list", "abort", "apply"}

\* What the locals of launcher p mean.
HookOK(p) ==
    /\ Reports(at[p].pc) \/ at[p].again => p \in Task /\ task[p] \in {"succeeded", "dead"}
    /\ at[p].again => task[p] = "dead" /\ policy = "retry"
    /\ at[p].pc \in {"abort", "apply"} \/ at[p].again =>
          /\ Truth(at[p].snap, task, policy)
          /\ SkipsAll(at[p].snap, policy)
          /\ Covers(at[p].snap, node, p[1])
    /\ at[p].pc = "abort" => policy = "terminate" /\ task[p] = "dead"
    /\ at[p].pc = "apply" => at[p].snap[p[1]] # "waiting"
    /\ at[p].pc \in {"enqueue", "link"} => at[p].cur \in Task
    /\ \A n \in at[p].todo : \A d \in Dependencies(n) : Satisfied(d)

\* Before Submit nothing has happened.
Untouched ==
    dag = "none" =>
        /\ node = [n \in Node |-> "waiting"]
        /\ task = [t \in Task |-> "none"]
        /\ at = [p \in Launcher |-> Idle]

DInv ==
    /\ TypeOK
    /\ Untouched
    /\ Truth(node, task, policy)
    /\ SkipsAll(node, policy)
    /\ \A p \in Launcher : HookOK(p)
    /\ DependenciesFirst
    /\ AggregateSound
    /\ NoneWaitingAfterEnd

-----------------------------------------------------------------------------
(* What every step after Submit keeps.                                     *)

Mono(tk, tk2) ==
    \A t \in Task :
        /\ tk[t] # "none" => tk2[t] # "none"
        /\ tk[t] = "succeeded" => tk2[t] = "succeeded"
        /\ tk[t] = "dead" => tk2[t] = "dead"

Kept ==
    /\ policy' = policy /\ deps' = deps
    /\ Mono(task, task')
    /\ \A n \in Node : node'[n] = "waiting" => node[n] = "waiting"

\* Ended tasks keep their outcome, so what was true of them stays true.
LEMMA TruthKept ==
    ASSUME NEW s, NEW tk, NEW tk2, NEW pol, Mono(tk, tk2), Truth(s, tk, pol)
    PROVE  Truth(s, tk2, pol)
  BY SMTT(30) DEF Mono, Truth, Died

\* A satisfied dependency stays satisfied.
LEMMA SatisfiedKept ==
    ASSUME Kept, NEW n, Satisfied(n)
    PROVE  Satisfied(n)'
  BY DEF Kept, Mono, Satisfied, Submitted

\* A goroutine in orchestration is not disturbed by the steps of others.
LEMMA Elsewhere ==
    ASSUME Kept, NEW q \in Launcher, HookOK(q), at'[q] = at[q], TypeOK
    PROVE  HookOK(q)'
  <1>1. Truth(at[q].snap, task, policy) => Truth(at[q].snap, task', policy)
    BY TruthKept DEF Kept
  <1>2. Covers(at[q].snap, node, q[1]) => Covers(at[q].snap, node', q[1])
    BY DEF Covers, Kept
  <1>3. q \in Task /\ task[q] \in {"succeeded", "dead"} => task'[q] = task[q]
    BY DEF Kept, Mono
  <1>4. \A n \in at[q].todo : \A d \in Dependencies(n)' : Satisfied(d)'
    BY SatisfiedKept DEF HookOK, Dependencies, Kept
  <1> QED
    BY <1>1, <1>2, <1>3, <1>4 DEF HookOK, Kept, Reports

\* A goroutine that returned.
LEMMA IdleOK ==
    ASSUME NEW p \in Launcher, at'[p] = Idle
    PROVE  HookOK(p)'
  BY SMTT(30) DEF HookOK, Idle, Reports

\* A goroutine that starts to launch nodes whose dependencies are satisfied.
LEMMA LaunchingOK ==
    ASSUME NEW p \in Launcher, NEW ns, at'[p] = Launching(ns),
           \A n \in ns : \A d \in Dependencies(n)' : Satisfied(d)'
    PROVE  HookOK(p)'
  <1>1. CASE ns = {}
    BY <1>1, IdleOK DEF Launching
  <1>2. CASE ns # {}
    BY <1>2 DEF HookOK, Launching, Idle, Reports
  <1> QED
    BY <1>1, <1>2

\* Steps that leave dags.status alone.
LEMMA SameStatus ==
    ASSUME DInv, Kept, dag' = dag
    PROVE  AggregateSound' /\ NoneWaitingAfterEnd'
  <1>1. \A n : Satisfied(n) => Satisfied(n)'
    BY SatisfiedKept
  <1>2. Died(task) => Died(task')
    BY DEF Kept, Mono, Died
  <1>3. AggregateSound'
    BY <1>1, <1>2 DEF DInv, AggregateSound, Kept, Died
  <1>4. NoneWaitingAfterEnd'
    BY DEF DInv, NoneWaitingAfterEnd, Kept
  <1> QED
    BY <1>3, <1>4

\* How the parts of the invariant fit together after Submit.
LEMMA Combine ==
    ASSUME DInv, Kept, TypeOK', dag' # "none",
           Truth(node', task', policy'), SkipsAll(node', policy'),
           \A q \in Launcher : HookOK(q)',
           AggregateSound', NoneWaitingAfterEnd',
           \A n \in Node : Submitted(n)' # {} =>
               Submitted(n) # {} \/ \A d \in Dependencies(n) : Satisfied(d)
    PROVE  DInv'
  <1>1. DependenciesFirst'
    BY SatisfiedKept DEF DInv, DependenciesFirst, Dependencies, Kept
  <1> QED
    BY <1>1 DEF DInv, Untouched

\* The locals of a goroutine that returned or is about to launch are typed.
LEMMA LocalsFacts ==
    /\ Idle \in Locals
    /\ \A ns \in SUBSET Node : Launching(ns) \in Locals
  BY DEF Locals, Launching, Idle, NodeState, Launcher

-----------------------------------------------------------------------------
(* One lemma per action.                                                   *)

\* A launcher that is not idle runs after Submit.
LEMMA ActiveAfterSubmit ==
    ASSUME DInv, NEW p \in Launcher, at[p].pc # "idle"
    PROVE  dag # "none"
  BY SMTT(30) DEF DInv, Untouched, Idle

\* So does a task that exists.
LEMMA TaskAfterSubmit ==
    ASSUME DInv, NEW t \in Task, task[t] # "none"
    PROVE  dag # "none"
  BY DEF DInv, Untouched

\* A step of p that keeps what is known and leaves dags.status alone.
LEMMA LauncherStep ==
    ASSUME DInv, Kept, TypeOK', dag' = dag, NEW p \in Launcher, at[p].pc # "idle",
           \A q \in Launcher : q # p => at'[q] = at[q], HookOK(p)',
           Truth(node', task', policy'), SkipsAll(node', policy'),
           \A n \in Node : Submitted(n)' # {} =>
               Submitted(n) # {} \/ \A d \in Dependencies(n) : Satisfied(d)
    PROVE  DInv'
  <1>1. dag' # "none"
    BY ActiveAfterSubmit
  <1>2. \A q \in Launcher : HookOK(q)'
    BY Elsewhere DEF DInv
  <1> QED
    BY <1>1, <1>2, SameStatus, Combine

LEMMA InitInv == Init => DInv
  <1> SUFFICES ASSUME Init PROVE DInv
    OBVIOUS
  <1>1. TypeOK
    BY SMTT(30), CountAssumption, LocalsFacts DEF Init, TypeOK, NodeState, Policy
  <1>2. \A p \in Launcher : HookOK(p)
    BY DEF Init, HookOK, Idle, Reports
  <1>3. Submitted(1) = {} /\ \A n : Submitted(n) = {}
    BY DEF Init, Submitted
  <1> QED
    BY <1>1, <1>2, <1>3
    DEF Init, DInv, Untouched, Truth, SkipsAll, DependenciesFirst, AggregateSound,
        NoneWaitingAfterEnd, Concluded

LEMMA SubmitInv ==
    ASSUME DInv, NEW req \in Requests, Submit(req), Watch
    PROVE  DInv'
  <1>1. /\ req.deps \in [Node -> Seq(Node)] /\ req.policy \in Policy
        /\ dag' = "running" /\ policy' = req.policy /\ deps' = req.deps
        /\ node' = [n \in Node |-> "waiting"] /\ task' = [t \in Task |-> "none"]
    BY RequestAssumption DEF Submit, DInv, Untouched
  <1>2. at' = [[p \in Launcher |-> Idle] EXCEPT ![Api] = Launching({n \in Node : req.deps[n] = <<>>})]
    BY DEF Submit, DInv, Untouched
  <1>3. \A p \in Launcher : p # Api => at'[p] = Idle
    BY <1>2
  <1>4. at'[Api] = Launching({n \in Node : req.deps[n] = <<>>})
    BY <1>2 DEF Launcher
  <1>5. \A n \in Node : req.deps[n] = <<>> => Dependencies(n)' = {}
    BY SMTT(30), <1>1 DEF Dependencies, Range
  <1>6. \A p \in Launcher : HookOK(p)'
    <2>1. HookOK(Api)'
      BY <1>4, <1>5, LaunchingOK DEF Launcher
    <2> QED
      BY <1>3, <2>1, IdleOK
  <1>7. TypeOK'
    <2>1. Launching({n \in Node : req.deps[n] = <<>>}) \in Locals /\ Idle \in Locals
      BY LocalsFacts
    <2>2. at' \in [Launcher -> Locals]
      BY <1>2, <2>1
    <2> QED
      BY <1>1, <2>2 DEF TypeOK, DInv, Submit, Watch, NodeState
  <1>8. \A n : Submitted(n)' = {}
    BY <1>1 DEF Submitted
  <1> QED
    BY <1>1, <1>6, <1>7, <1>8
    DEF DInv, Untouched, Truth, SkipsAll, DependenciesFirst, AggregateSound,
        NoneWaitingAfterEnd, Concluded

LEMMA CreateInv ==
    ASSUME DInv, NEW p \in Launcher, Create(p), Watch
    PROVE  DInv'
  <1>1. PICK t \in Task :
          /\ t[1] \in at[p].todo
          /\ task[t] = "none"
          /\ task' = [task EXCEPT ![t] = "created"]
          /\ at' = [at EXCEPT ![p].pc = "enqueue", ![p].todo = @ \ {t[1]}, ![p].cur = t]
    BY DEF Create, Fresh
  <1>2. /\ at[p].pc = "create" /\ TypeOK /\ HookOK(p)
        /\ UNCHANGED <<dag, policy, deps, node, linked, troubles>>
    BY DEF Create, DInv
  <1>3. at'[p] = [at[p] EXCEPT !.pc = "enqueue", !.todo = @ \ {t[1]}, !.cur = t]
    BY <1>1, <1>2 DEF TypeOK
  <1>4. Kept
    BY <1>1, <1>2 DEF Kept, Mono, TypeOK
  <1>5. TypeOK'
    <2>1. at[p] \in Locals /\ t \in Launcher
      BY <1>2 DEF TypeOK, Launcher
    <2>2. at'[p] \in Locals
      BY <1>3, <2>1 DEF Locals
    <2> QED
      BY <1>1, <1>2, <1>3, <2>2 DEF TypeOK, Watch
  <1>6. HookOK(p)'
    <2>1. /\ at'[p].pc = "enqueue" /\ at'[p].cur = t /\ at'[p].todo \subseteq at[p].todo
          /\ at'[p].again = at[p].again /\ at'[p].snap = at[p].snap
      BY SMTT(30), <1>2, <1>3 DEF TypeOK, Locals
    <2>2. Truth(at[p].snap, task, policy) => Truth(at[p].snap, task', policy)
      BY <1>4, TruthKept DEF Kept
    <2>3. p \in Task /\ task[p] \in {"succeeded", "dead"} => task'[p] = task[p]
      BY <1>4 DEF Kept, Mono
    <2>4. \A n \in at'[p].todo : \A d \in Dependencies(n)' : Satisfied(d)'
      BY <1>2, <1>4, <2>1, SatisfiedKept DEF HookOK, Dependencies
    <2> QED
      BY <1>2, <2>1, <2>2, <2>3, <2>4 DEF HookOK, Reports
  <1>7. \A n \in Node : Submitted(n)' # {} =>
            Submitted(n) # {} \/ \A d \in Dependencies(n) : Satisfied(d)
    BY SMTT(30), <1>1, <1>2 DEF Submitted, HookOK
  <1>8. Truth(node', task', policy') /\ SkipsAll(node', policy')
    BY <1>2, <1>4, TruthKept DEF DInv, Kept
  <1>9. \A q \in Launcher : q # p => at'[q] = at[q]
    BY <1>1, <1>2 DEF TypeOK
  <1> QED
    BY <1>2, <1>4, <1>5, <1>6, <1>7, <1>8, <1>9, LauncherStep

\* The steps that submit nothing new: no node gets its first task.
LEMMA SameTasks ==
    ASSUME \A t \in Task : task[t] = "none" => task'[t] = "none", NEW n \in Node,
           Submitted(n)' # {}
    PROVE  Submitted(n) # {}
  BY DEF Submitted

LEMMA EnqueueInv ==
    ASSUME DInv, NEW p \in Launcher, Enqueue(p), Watch
    PROVE  DInv'
  <1>1. /\ at[p].pc = "enqueue" /\ TypeOK /\ HookOK(p) /\ at[p].cur \in Task
        /\ task' = [task EXCEPT ![at[p].cur] = IF @ = "created" THEN "queued" ELSE @]
        /\ at' = [at EXCEPT ![p].pc = "link"]
        /\ UNCHANGED <<dag, policy, deps, node, linked, troubles>>
    BY DEF Enqueue, DInv, HookOK
  <1>2. at'[p] = [at[p] EXCEPT !.pc = "link"]
    BY <1>1 DEF TypeOK
  <1>3. Kept /\ \A t \in Task : task[t] = "none" => task'[t] = "none"
    BY <1>1 DEF Kept, Mono, TypeOK
  <1>4. TypeOK'
    <2>1. at'[p] \in Locals
      BY <1>1, <1>2 DEF TypeOK, Locals
    <2> QED
      BY <1>1, <1>2, <2>1 DEF TypeOK, Watch
  <1>5. HookOK(p)'
    <2>1. /\ at'[p].pc = "link" /\ at'[p].cur = at[p].cur /\ at'[p].todo = at[p].todo
          /\ at'[p].again = at[p].again /\ at'[p].snap = at[p].snap
      BY <1>1, <1>2 DEF TypeOK, Locals
    <2>2. Truth(at[p].snap, task, policy) => Truth(at[p].snap, task', policy)
      BY <1>3, TruthKept DEF Kept
    <2>3. p \in Task /\ task[p] \in {"succeeded", "dead"} => task'[p] = task[p]
      BY <1>3 DEF Kept, Mono
    <2>4. \A n \in at'[p].todo : \A d \in Dependencies(n)' : Satisfied(d)'
      BY <1>1, <1>3, <2>1, SatisfiedKept DEF HookOK, Dependencies
    <2> QED
      BY <1>1, <2>1, <2>2, <2>3, <2>4 DEF HookOK, Reports
  <1>6. Truth(node', task', policy') /\ SkipsAll(node', policy')
    BY SMTT(30), <1>1, <1>3, TruthKept DEF DInv, Kept
  <1>7. \A q \in Launcher : q # p => at'[q] = at[q]
    BY <1>1 DEF TypeOK
  <1> QED
    BY <1>1, <1>3, <1>4, <1>5, <1>6, <1>7, SameTasks, LauncherStep

LEMMA LinkInv ==
    ASSUME DInv, NEW p \in Launcher, Link(p), Watch
    PROVE  DInv'
  <1>1. /\ at[p].pc = "link" /\ TypeOK /\ HookOK(p) /\ at[p].cur \in Task
        /\ linked' = linked \union {at[p].cur}
        /\ at' = [at EXCEPT ![p].pc = IF at[p].todo = {} THEN "update" ELSE "create",
                            ![p].sent = @ \union {at[p].cur}, ![p].cur = Api]
        /\ UNCHANGED <<dag, policy, deps, node, task, troubles>>
    BY DEF Link, DInv, HookOK
  <1>2. at'[p] = [at[p] EXCEPT !.pc = IF at[p].todo = {} THEN "update" ELSE "create",
                              !.sent = @ \union {at[p].cur}, !.cur = Api]
    BY <1>1 DEF TypeOK
  <1>3. Kept /\ \A t \in Task : task[t] = "none" => task'[t] = "none"
    BY <1>1 DEF Kept, Mono
  <1>4. TypeOK'
    <2>1. at[p] \in Locals /\ Api \in Launcher
      BY <1>1 DEF TypeOK, Launcher
    <2>2. at'[p] \in Locals
      <3> DEFINE pc == IF at[p].todo = {} THEN "update" ELSE "create"
                 sent == at[p].sent \union {at[p].cur}
      <3>1. pc \in {"update", "create"} /\ sent \in SUBSET Task
        BY <1>1, <2>1 DEF Locals
      <3>2. at'[p] = [at[p] EXCEPT !.pc = pc, !.sent = sent, !.cur = Api]
        BY <1>2
      <3> HIDE DEF pc, sent
      <3> QED
        BY <2>1, <3>1, <3>2 DEF Locals
    <2> QED
      BY <1>1, <1>2, <2>2 DEF TypeOK, Watch
  <1>5. HookOK(p)'
    <2>0. at[p] \in Locals
      BY <1>1 DEF TypeOK
    <2>1. /\ at'[p].pc \in {"update", "create"} /\ at'[p].todo = at[p].todo
          /\ at'[p].again = at[p].again /\ at'[p].snap = at[p].snap
      BY <1>2, <2>0 DEF Locals
    <2>2. \A n \in at'[p].todo : \A d \in Dependencies(n)' : Satisfied(d)'
      BY <1>1, <1>3, <2>1, SatisfiedKept DEF HookOK, Dependencies
    <2> QED
      BY <1>1, <2>1, <2>2 DEF HookOK, Reports
  <1>6. Truth(node', task', policy') /\ SkipsAll(node', policy')
    BY <1>1 DEF DInv
  <1>7. \A q \in Launcher : q # p => at'[q] = at[q]
    BY <1>1 DEF TypeOK
  <1> QED
    BY <1>1, <1>3, <1>4, <1>5, <1>6, <1>7, SameTasks, LauncherStep

\* A goroutine that returns without touching tasks.
LEMMA ReturnInv ==
    ASSUME DInv, NEW p \in Launcher, at[p].pc # "idle", at' = [at EXCEPT ![p] = Idle],
           UNCHANGED <<dag, policy, deps, task, linked>>, Watch,
           troubles' \in 0..MaxTroubles,
           node' \in [Node -> NodeState],
           \A n \in Node : node'[n] \in {node[n], "running"}
    PROVE  DInv'
  <1>1. TypeOK
    BY DEF DInv
  <1>2. at'[p] = Idle /\ \A q \in Launcher : q # p => at'[q] = at[q]
    BY <1>1 DEF TypeOK
  <1>3. Kept /\ \A t \in Task : task[t] = "none" => task'[t] = "none"
    BY DEF Kept, Mono
  <1>4. TypeOK'
    BY <1>1, LocalsFacts DEF TypeOK, Watch
  <1>5. Truth(node', task', policy')
    BY SMTT(30) DEF DInv, Truth
  <1>6. SkipsAll(node', policy')
    BY DEF DInv, SkipsAll
  <1> QED
    BY <1>2, <1>3, <1>4, <1>5, <1>6, IdleOK, SameTasks, LauncherStep

LEMMA UpdateInv ==
    ASSUME DInv, NEW p \in Launcher, Update(p), Watch
    PROVE  DInv'
  <1>1. /\ node' \in [Node -> NodeState] /\ troubles' \in 0..MaxTroubles
        /\ \A n \in Node : node'[n] \in {node[n], "running"}
    BY DEF Update, DInv, TypeOK, NodeState
  <1> QED
    BY <1>1, ReturnInv DEF Update

LEMMA FinishInv ==
    ASSUME DInv, NEW t \in Task, NEW outcome \in {"succeeded", "dead"}, Finish(t, outcome), Watch
    PROVE  DInv'
  <1>1. /\ TypeOK /\ task[t] = "queued" /\ task' = [task EXCEPT ![t] = outcome]
        /\ at' = IF t \in linked THEN [at EXCEPT ![t].pc = "get"] ELSE at
        /\ UNCHANGED <<dag, policy, deps, node, linked, troubles>>
    BY DEF Finish, DInv
  <1>2. t \in Launcher /\ at[t] \in Locals /\ HookOK(t)
    BY <1>1 DEF Launcher, TypeOK, DInv
  <1>3. Kept /\ \A u \in Task : task[u] = "none" => task'[u] = "none"
    BY <1>1 DEF Kept, Mono, TypeOK
  <1>4. \A q \in Launcher : q # t => at'[q] = at[q]
    BY <1>1 DEF TypeOK
  <1>5. at'[t] = at[t] \/ at'[t] = [at[t] EXCEPT !.pc = "get"]
    BY <1>1, <1>2 DEF TypeOK
  <1>6. TypeOK'
    <2>1. at' \in [Launcher -> Locals]
      <3>1. [at[t] EXCEPT !.pc = "get"] \in Locals
        BY <1>2 DEF Locals
      <3> QED
        BY <1>1, <1>2, <3>1 DEF TypeOK
    <2> QED
      BY <1>1, <2>1 DEF TypeOK, Watch, Ended
  <1>7. HookOK(t)'
    <2>1. CASE at'[t] = at[t]
      BY <1>1, <1>2, <1>3, <2>1, Elsewhere
    <2>2. CASE at'[t] = [at[t] EXCEPT !.pc = "get"]
      <3>1. at'[t].pc = "get" /\ at'[t].todo = at[t].todo /\ at'[t].again = at[t].again
        BY <1>2, <2>2 DEF Locals
      <3>2. ~at[t].again
        BY <1>1, <1>2 DEF HookOK
      <3>3. \A n \in at'[t].todo : \A d \in Dependencies(n)' : Satisfied(d)'
        BY <1>1, <1>2, <1>3, <3>1, SatisfiedKept DEF HookOK, Dependencies
      <3>4. task'[t] \in {"succeeded", "dead"}
        BY <1>1 DEF TypeOK
      <3> QED
        BY <3>1, <3>2, <3>3, <3>4 DEF HookOK, Reports
    <2> QED
      BY <1>5, <2>1, <2>2
  <1>8. \A q \in Launcher : HookOK(q)'
    BY <1>1, <1>3, <1>4, <1>7, Elsewhere DEF DInv
  <1>9. Truth(node', task', policy') /\ SkipsAll(node', policy')
    BY <1>1, <1>3, TruthKept DEF DInv, Kept
  <1>10. dag' # "none"
    BY <1>1, TaskAfterSubmit
  <1> QED
    BY <1>1, <1>3, <1>6, <1>8, <1>9, <1>10, SameStatus, SameTasks, Combine

LEMMA GetDAGInv ==
    ASSUME DInv, NEW p \in Launcher, GetDAG(p), Watch
    PROVE  DInv'
  <1>1. /\ TypeOK /\ at[p].pc = "get" /\ at[p] \in Locals /\ HookOK(p)
        /\ UNCHANGED <<dag, policy, deps, node, task, linked, troubles>>
    BY DEF GetDAG, DInv, TypeOK
  <1>2. CASE dag \in Concluded
    <2>1. at' = [at EXCEPT ![p] = Idle]
      BY <1>2 DEF GetDAG
    <2> QED
      BY <1>1, <2>1, ReturnInv DEF TypeOK
  <1>3. CASE dag \notin Concluded
    <2>1. at'[p] = [at[p] EXCEPT !.pc = "list"] /\ \A q \in Launcher : q # p => at'[q] = at[q]
      BY <1>1, <1>3 DEF GetDAG, TypeOK
    <2>2. Kept /\ \A t \in Task : task[t] = "none" => task'[t] = "none"
      BY <1>1 DEF Kept, Mono
    <2>3. TypeOK'
      <3>1. [at[p] EXCEPT !.pc = "list"] \in Locals
        BY <1>1 DEF Locals
      <3>2. at' \in [Launcher -> Locals]
        BY <1>1, <1>3, <3>1 DEF GetDAG, TypeOK
      <3> QED
        BY <1>1, <3>2 DEF TypeOK, Watch
    <2>4. HookOK(p)'
      <3>1. /\ at'[p].pc = "list" /\ at'[p].todo = at[p].todo /\ at'[p].again = at[p].again
            /\ at'[p].snap = at[p].snap
        BY <1>1, <2>1 DEF Locals
      <3>2. \A n \in at'[p].todo : \A d \in Dependencies(n)' : Satisfied(d)'
        BY <1>1, <2>2, <3>1, SatisfiedKept DEF HookOK, Dependencies
      <3> QED
        BY <1>1, <3>1, <3>2 DEF HookOK, Reports
    <2> QED
      BY <1>1, <2>1, <2>2, <2>3, <2>4, SameTasks, LauncherStep DEF DInv
  <1> QED
    BY <1>2, <1>3

\* The copy a hook takes, with its own node's new state, is as good as the rows.
LEMMA CopyOK ==
    ASSUME DInv, NEW p \in Task, NEW st \in {"succeeded", "skipped", "failed"},
           st = "succeeded" => task[p] = "succeeded",
           st = "failed" => task[p] = "dead",
           st = "skipped" => task[p] = "dead" /\ policy = "skip"
    PROVE  LET snap == [node EXCEPT ![p[1]] = st]
           IN  /\ snap \in [Node -> NodeState] /\ snap[p[1]] # "waiting"
               /\ Truth(snap, task, policy) /\ SkipsAll(snap, policy) /\ Covers(snap, node, p[1])
  <1> DEFINE snap == [node EXCEPT ![p[1]] = st]
  <1>1. p[1] \in Node /\ node \in [Node -> NodeState] /\ Truth(node, task, policy)
        /\ SkipsAll(node, policy)
    BY DEF DInv, TypeOK, Task
  <1>2. snap \in [Node -> NodeState] /\ snap[p[1]] = st
        /\ \A n \in Node : n # p[1] => snap[n] = node[n]
    BY <1>1 DEF NodeState
  <1> HIDE DEF snap
  <1>3. Truth(snap, task, policy)
    BY SMTT(30), <1>1, <1>2 DEF Truth, Died
  <1>4. SkipsAll(snap, policy)
    BY <1>1, <1>2 DEF SkipsAll
  <1>5. Covers(snap, node, p[1])
    BY <1>2 DEF Covers
  <1> QED
    BY <1>2, <1>3, <1>4, <1>5 DEF snap

LEMMA ListDAGNodesInv ==
    ASSUME DInv, NEW p \in Launcher, ListDAGNodes(p), Watch
    PROVE  DInv'
  <1> DEFINE hook(pc, s) == [Idle EXCEPT !.pc = pc, !.snap = [node EXCEPT ![p[1]] = s]]
             retry == [Launching({p[1]}) EXCEPT !.snap = node, !.again = TRUE]
  <1>1. /\ TypeOK /\ at[p].pc = "list" /\ HookOK(p)
        /\ UNCHANGED <<dag, policy, deps, node, task, linked, troubles>>
    BY DEF ListDAGNodes, DInv
  <1>2. p \in Task /\ task[p] \in {"succeeded", "dead"} /\ p[1] \in Node
    BY <1>1 DEF HookOK, Reports, Task
  <1>3. Kept /\ \A t \in Task : task[t] = "none" => task'[t] = "none"
    BY <1>1 DEF Kept, Mono
  <1>4. \A q \in Launcher : q # p => at'[q] = at[q]
    BY <1>1 DEF ListDAGNodes, TypeOK
  <1>5. at'[p] \in Locals /\ HookOK(p)'
    <2>1. ASSUME NEW st \in {"succeeded", "skipped", "failed"}, NEW pc \in {"apply", "abort"},
                 at'[p] = hook(pc, st),
                 st = "succeeded" => task[p] = "succeeded",
                 st = "failed" => task[p] = "dead",
                 st = "skipped" => task[p] = "dead" /\ policy = "skip",
                 pc = "abort" => policy = "terminate" /\ task[p] = "dead"
          PROVE  at'[p] \in Locals /\ HookOK(p)'
      <3> DEFINE snap == [node EXCEPT ![p[1]] = st]
      <3>1. /\ snap \in [Node -> NodeState] /\ snap[p[1]] # "waiting"
            /\ Truth(snap, task, policy) /\ SkipsAll(snap, policy) /\ Covers(snap, node, p[1])
        BY <1>2, <2>1, CopyOK
      <3>2. at'[p] = [Idle EXCEPT !.pc = pc, !.snap = snap]
        BY <2>1
      <3> HIDE DEF snap
      <3>3. /\ at'[p].pc = pc /\ at'[p].snap = snap /\ at'[p].todo = {} /\ at'[p].again = FALSE
        BY <3>2 DEF Idle
      <3>4. at'[p] \in Locals
        BY <3>1, <3>2, LocalsFacts DEF Locals
      <3> QED
        BY <1>1, <1>2, <2>1, <3>1, <3>3, <3>4 DEF HookOK, Reports
    <2>2. ASSUME task[p] = "dead", policy = "retry", at'[p] = retry
          PROVE  at'[p] \in Locals /\ HookOK(p)'
      <3>1. at'[p] \in Locals
        <4>1. Launching({p[1]}) \in Locals /\ node \in [Node -> NodeState]
          BY <1>1, <1>2, LocalsFacts DEF TypeOK
        <4> QED
          BY <2>2, <4>1 DEF Locals
      <3>2. /\ at'[p].pc = "create" /\ at'[p].snap = node /\ at'[p].todo = {p[1]}
            /\ at'[p].again = TRUE
        BY <2>2 DEF Launching, Idle
      <3>3. \A d \in Dependencies(p[1]) : Satisfied(d)
        BY <1>2, <2>2 DEF DInv, DependenciesFirst, Submitted
      <3>4. \A n \in at'[p].todo : \A d \in Dependencies(n)' : Satisfied(d)'
        BY <1>1, <1>3, <3>2, <3>3, SatisfiedKept DEF Dependencies
      <3>5. Truth(node, task, policy) /\ SkipsAll(node, policy) /\ Covers(node, node, p[1])
        BY DEF DInv, Covers
      <3> QED
        BY <1>1, <1>2, <2>2, <3>1, <3>2, <3>4, <3>5 DEF HookOK, Reports
    <2>3. at'[p] = IF task[p] = "succeeded" THEN hook("apply", "succeeded")
                   ELSE IF policy = "skip" THEN hook("apply", "skipped")
                   ELSE IF policy = "terminate" THEN hook("abort", "failed")
                   ELSE retry
      BY <1>1 DEF ListDAGNodes, TypeOK
    <2> HIDE DEF hook, retry
    <2>4. CASE task[p] = "succeeded"
      BY <2>1, <2>3, <2>4
    <2>5. CASE task[p] = "dead" /\ policy = "skip"
      BY <2>1, <2>3, <2>5
    <2>6. CASE task[p] = "dead" /\ policy = "terminate"
      BY <2>1, <2>3, <2>6
    <2>7. CASE task[p] = "dead" /\ policy = "retry"
      BY <2>2, <2>3, <2>7
    <2> QED
      BY <1>1, <1>2, <2>4, <2>5, <2>6, <2>7 DEF TypeOK, Policy
  <1>6. TypeOK'
    <2>1. at' \in [Launcher -> Locals]
      BY <1>1, <1>4, <1>5 DEF ListDAGNodes, TypeOK
    <2> QED
      BY <1>1, <2>1 DEF TypeOK, Watch
  <1> QED
    BY <1>1, <1>3, <1>4, <1>5, <1>6, SameTasks, LauncherStep DEF DInv

LEMMA AbortInv ==
    ASSUME DInv, NEW p \in Launcher, Abort(p), Watch
    PROVE  DInv'
  <1>1. /\ TypeOK /\ at[p].pc = "abort" /\ HookOK(p) /\ dag' = "failed"
        /\ at' = [at EXCEPT ![p] = Idle]
        /\ UNCHANGED <<policy, deps, task, linked, troubles>>
    BY DEF Abort, DInv
  <1>2. /\ p \in Task /\ task[p] = "dead" /\ policy = "terminate" /\ Died(task)
        /\ Covers(at[p].snap, node, p[1])
    BY <1>1 DEF HookOK, Reports, Died
  <1>3. \A n \in Node : node'[n] # "waiting"
    BY <1>1, <1>2 DEF Abort, Covers
  <1>4. Kept /\ \A t \in Task : task[t] = "none" => task'[t] = "none"
    BY <1>1, <1>3 DEF Kept, Mono
  <1>5. Truth(node', task', policy') /\ SkipsAll(node', policy')
    <2>1. \A n \in Node : node'[n] \in {"failed", "skipped", node[n]}
      BY DEF Abort
    <2> QED
      BY SMTT(30), <1>1, <1>2, <1>3, <2>1 DEF DInv, Truth, SkipsAll
  <1>6. TypeOK'
    <2>1. node' \in [Node -> NodeState]
      BY <1>1 DEF Abort, TypeOK, NodeState
    <2> QED
      BY <1>1, <2>1, LocalsFacts DEF TypeOK, Watch, Concluded
  <1>7. \A q \in Launcher : HookOK(q)'
    <2>1. at'[p] = Idle /\ \A q \in Launcher : q # p => at'[q] = at[q]
      BY <1>1 DEF TypeOK
    <2> QED
      BY <1>1, <1>4, <2>1, IdleOK, Elsewhere DEF DInv
  <1>8. AggregateSound' /\ NoneWaitingAfterEnd'
    BY <1>1, <1>2, <1>3 DEF AggregateSound, NoneWaitingAfterEnd, Died
  <1> QED
    BY <1>1, <1>4, <1>5, <1>6, <1>7, <1>8, SameTasks, Combine

LEMMA ApplyInv ==
    ASSUME DInv, NEW p \in Launcher, Apply(p), Watch
    PROVE  DInv'
  <1> DEFINE snap == at[p].snap
  <1>1. /\ TypeOK /\ at[p].pc = "apply" /\ HookOK(p)
        /\ node' = [node EXCEPT ![p[1]] = snap[p[1]]]
        /\ dag' = IF Aggregate(snap) = "running" THEN dag ELSE Aggregate(snap)
        /\ at' = [at EXCEPT ![p] =
                    IF Aggregate(snap) = "running" THEN Launching(Ready(snap)) ELSE Idle]
        /\ UNCHANGED <<policy, deps, task, linked, troubles>>
    BY DEF Apply, DInv
  <1>2. /\ p \in Task /\ p[1] \in Node /\ snap \in [Node -> NodeState]
        /\ Truth(snap, task, policy) /\ SkipsAll(snap, policy) /\ Covers(snap, node, p[1])
        /\ snap[p[1]] # "waiting"
    BY <1>1 DEF HookOK, Reports, Task, TypeOK, Locals
  <1> HIDE DEF snap
  <1>3. /\ node' \in [Node -> NodeState] /\ node'[p[1]] = snap[p[1]]
        /\ \A n \in Node : n # p[1] => node'[n] = node[n]
    BY <1>1, <1>2 DEF TypeOK
  <1>4. Kept /\ \A t \in Task : task[t] = "none" => task'[t] = "none"
    BY <1>1, <1>2, <1>3 DEF Kept, Mono
  <1>5. Truth(node', task', policy')
    BY SMTT(30), <1>1, <1>2, <1>3 DEF DInv, Truth
  <1>6. SkipsAll(node', policy')
    <2>1. SkipsAll(node, policy)
      BY DEF DInv
    <2>2. CASE snap[p[1]] = "skipped"
      BY <1>1, <1>2, <1>3, <2>1, <2>2 DEF SkipsAll, Covers
    <2>3. CASE snap[p[1]] # "skipped"
      BY <1>1, <1>2, <1>3, <2>1, <2>3 DEF SkipsAll
    <2> QED
      BY <2>2, <2>3
  <1>7. \A n \in Ready(snap) : \A d \in Dependencies(n) : Satisfied(d)
    <2> SUFFICES ASSUME NEW n \in Ready(snap), NEW d \in Dependencies(n)
                 PROVE  Satisfied(d)
      OBVIOUS
    <2>1. n \in Node /\ snap[n] = "waiting" /\ snap[d] \in {"succeeded", "skipped"}
      BY DEF Ready
    <2>2. d \in Node
      BY SMTT(30), <1>1, <2>1 DEF Dependencies, Range, TypeOK
    <2>3. ~(policy = "terminate" /\ snap[d] = "skipped")
      BY <1>2, <2>1, <2>2 DEF SkipsAll
    <2> QED
      BY <1>2, <2>1, <2>2, <2>3 DEF Truth, Satisfied, Submitted
  <1>8. Ready(snap) \in SUBSET Node
    BY DEF Ready
  <1>9. TypeOK'
    <2>1. at' \in [Launcher -> Locals]
      BY <1>1, <1>8, LocalsFacts DEF TypeOK
    <2>2. dag' \in {"none", "running"} \union Concluded
      BY <1>1 DEF TypeOK, Aggregate, Concluded
    <2> QED
      BY <1>1, <1>3, <2>1, <2>2 DEF TypeOK, Watch
  <1>10. \A q \in Launcher : HookOK(q)'
    <2>1. \A q \in Launcher : q # p => at'[q] = at[q]
      BY <1>1 DEF TypeOK
    <2>2. HookOK(p)'
      <3>1. at'[p] = Idle \/ at'[p] = Launching(Ready(snap))
        BY <1>1 DEF TypeOK
      <3>2. \A n \in Ready(snap) : \A d \in Dependencies(n)' : Satisfied(d)'
        BY <1>1, <1>4, <1>7, SatisfiedKept DEF Dependencies
      <3> QED
        BY <3>1, <3>2, IdleOK, LaunchingOK
    <2> QED
      BY <1>1, <1>4, <2>1, <2>2, Elsewhere DEF DInv
  <1>11. AggregateSound' /\ NoneWaitingAfterEnd'
    <2>1. CASE Aggregate(snap) = "running"
      BY <1>1, <1>4, <2>1, SameStatus
    <2>2. CASE Aggregate(snap) # "running"
      <3>1. \A n \in Node : snap[n] \in {"succeeded", "failed", "skipped"}
        BY <1>2, <2>2 DEF Aggregate, NodeState
      <3>2. dag' = IF \E n \in Node : snap[n] = "failed" THEN "failed" ELSE "succeeded"
        BY <1>1, <2>2 DEF Aggregate
      <3>3. \A n \in Node : node'[n] # "waiting"
        BY <1>2, <1>3, <3>1 DEF Covers
      <3>4. dag' = "failed" => Died(task)
        BY <1>2, <3>2 DEF Truth
      <3>5. dag' = "succeeded" =>
              (\A n \in Node : Satisfied(n)) \/ (policy = "terminate" /\ Died(task))
        BY SMTT(30), <1>2, <3>1, <3>2 DEF Truth, Satisfied, Submitted
      <3>6. \A n : Satisfied(n) => Satisfied(n)'
        BY <1>4, SatisfiedKept
      <3> QED
        BY <1>1, <3>3, <3>4, <3>5, <3>6 DEF AggregateSound, NoneWaitingAfterEnd, Died
    <2> QED
      BY <2>1, <2>2
  <1>12. dag' # "none"
    BY <1>1, ActiveAfterSubmit DEF Aggregate
  <1> QED
    BY <1>1, <1>4, <1>5, <1>6, <1>9, <1>10, <1>11, <1>12, SameTasks, Combine

LEMMA FaultInv ==
    ASSUME DInv, NEW p \in Launcher, Fault(p), Watch
    PROVE  DInv'
  <1>1. /\ TypeOK /\ at[p].pc # "idle" /\ HookOK(p) /\ at[p] \in Locals
        /\ troubles' \in 0..MaxTroubles
        /\ UNCHANGED <<dag, policy, deps, node, task, linked>>
    BY SMTT(30), CountAssumption DEF Fault, Trouble, DInv, TypeOK
  <1>2. CASE at' = [at EXCEPT ![p] = Idle]
    BY <1>1, <1>2, ReturnInv DEF TypeOK
  <1>3. CASE at[p].again /\ GiveUp(p)
    <2> DEFINE snap == [at[p].snap EXCEPT ![p[1]] = "failed"]
               hook == [Idle EXCEPT !.pc = "apply", !.snap = snap]
    <2>1. /\ p \in Task /\ p[1] \in Node /\ task[p] = "dead" /\ policy = "retry"
          /\ at[p].snap \in [Node -> NodeState]
          /\ Truth(at[p].snap, task, policy) /\ Covers(at[p].snap, node, p[1])
      BY <1>1, <1>3 DEF HookOK, Task, Locals
    <2>2. /\ snap \in [Node -> NodeState] /\ snap[p[1]] = "failed"
          /\ Truth(snap, task, policy) /\ SkipsAll(snap, policy) /\ Covers(snap, node, p[1])
      <3>1. /\ snap \in [Node -> NodeState] /\ snap[p[1]] = "failed"
            /\ \A n \in Node : n # p[1] => snap[n] = at[p].snap[n]
        BY <2>1 DEF NodeState
      <3> HIDE DEF snap
      <3> QED
        BY SMTT(30), <2>1, <3>1 DEF Truth, SkipsAll, Covers, Died
    <2>3. at' = [at EXCEPT ![p] = hook]
      BY <1>3 DEF GiveUp
    <2> HIDE DEF snap
    <2>4. /\ hook \in Locals /\ hook.pc = "apply" /\ hook.snap = snap /\ hook.todo = {}
          /\ hook.again = FALSE
      BY <2>2, LocalsFacts DEF Locals, Idle
    <2> HIDE DEF hook
    <2>5. at'[p] = hook /\ \A q \in Launcher : q # p => at'[q] = at[q]
      BY <1>1, <2>3 DEF TypeOK
    <2>6. TypeOK'
      BY <1>1, <2>3, <2>4 DEF TypeOK, Watch
    <2>7. Kept /\ \A t \in Task : task[t] = "none" => task'[t] = "none"
      BY <1>1 DEF Kept, Mono
    <2>8. HookOK(p)'
      BY <1>1, <2>1, <2>2, <2>4, <2>5 DEF HookOK, Reports
    <2> QED
      BY <1>1, <2>5, <2>6, <2>7, <2>8, SameTasks, LauncherStep DEF DInv
  <1> QED
    BY <1>1, <1>2, <1>3 DEF Fault, GiveUp

\* Cancellations and restarts: tasks move on, but no outcome changes.
LEMMA TaskStepInv ==
    ASSUME DInv, Mono(task, task'), task' \in [Task -> {"none", "created", "queued"} \union Ended],
           \A t \in Task : task[t] = "none" => task'[t] = "none",
           dag # "none", troubles' \in 0..MaxTroubles, Watch,
           UNCHANGED <<dag, policy, deps, node, linked>>,
           at' = at \/ at' = [p \in Launcher |-> Idle]
    PROVE  DInv'
  <1>1. TypeOK /\ Kept
    BY DEF DInv, Kept
  <1>2. TypeOK'
    BY <1>1, LocalsFacts DEF TypeOK, Watch
  <1>3. \A q \in Launcher : HookOK(q)'
    BY <1>1, IdleOK, Elsewhere DEF DInv
  <1>4. Truth(node', task', policy') /\ SkipsAll(node', policy')
    BY <1>1, TruthKept DEF DInv
  <1> QED
    BY <1>1, <1>2, <1>3, <1>4, SameStatus, SameTasks, Combine

LEMMA CancelTaskInv ==
    ASSUME DInv, NEW t \in Task, CancelTask(t), Watch
    PROVE  DInv'
  <1>1. /\ TypeOK /\ task[t] \in {"created", "queued"} /\ troubles' \in 0..MaxTroubles
        /\ task' = [task EXCEPT ![t] = "canceled"]
    BY SMTT(30), CountAssumption DEF CancelTask, Trouble, DInv, TypeOK
  <1>2. /\ Mono(task, task') /\ task' \in [Task -> {"none", "created", "queued"} \union Ended]
        /\ \A u \in Task : task[u] = "none" => task'[u] = "none"
    BY <1>1 DEF Mono, TypeOK, Ended
  <1> QED
    BY <1>1, <1>2, TaskAfterSubmit, TaskStepInv DEF CancelTask

LEMMA RestartInv ==
    ASSUME DInv, Restart, Watch
    PROVE  DInv'
  <1>1. TypeOK /\ troubles' \in 0..MaxTroubles
    BY SMTT(30), CountAssumption DEF Restart, Trouble, DInv, TypeOK
  <1>2. /\ Mono(task, task') /\ task' \in [Task -> {"none", "created", "queued"} \union Ended]
        /\ \A u \in Task : task[u] = "none" => task'[u] = "none"
    BY <1>1 DEF Restart, Mono, TypeOK
  <1> QED
    BY <1>1, <1>2, TaskStepInv DEF Restart

LEMMA StutterInv ==
    ASSUME DInv, UNCHANGED vars
    PROVE  DInv'
  <1>1. Kept /\ dag' = dag /\ at' = at /\ node' = node /\ task' = task
    BY DEF vars, Kept, Mono
  <1>2. TypeOK' /\ Untouched'
    BY DEF DInv, vars, TypeOK, Untouched
  <1>3. Truth(node', task', policy') /\ SkipsAll(node', policy')
    BY <1>1 DEF DInv, Kept
  <1>4. \A p \in Launcher : HookOK(p)'
    BY <1>1, Elsewhere DEF DInv
  <1>5. DependenciesFirst'
    BY SMTT(30), <1>1 DEF DInv, Kept, DependenciesFirst, Dependencies, Satisfied, Submitted
  <1> QED
    BY <1>1, <1>2, <1>3, <1>4, <1>5, SameStatus DEF DInv

LEMMA NextInv == DInv /\ [Next]_vars => DInv'
  <1> SUFFICES ASSUME DInv, [Next]_vars PROVE DInv'
    OBVIOUS
  <1>1. ASSUME NEW req \in Requests, Submit(req), Watch PROVE DInv'
    BY <1>1, SubmitInv
  <1>2. ASSUME NEW p \in Launcher, Step(p), Watch PROVE DInv'
    BY <1>2, CreateInv, EnqueueInv, LinkInv, UpdateInv, GetDAGInv, ListDAGNodesInv, AbortInv,
       ApplyInv
    DEF Step
  <1>3. ASSUME NEW t \in Task, Run(t), Watch PROVE DInv'
    BY <1>3, FinishInv DEF Run
  <1>4. ASSUME NEW p \in Launcher, Fault(p), Watch PROVE DInv'
    BY <1>4, FaultInv
  <1>5. ASSUME NEW t \in Task, CancelTask(t), Watch PROVE DInv'
    BY <1>5, CancelTaskInv
  <1> QED
    BY <1>1, <1>2, <1>3, <1>4, <1>5, RestartInv, StutterInv DEF Next, Progress

LEMMA Invariance == Spec => []DInv
  BY InitInv, NextInv, PTL DEF Spec

-----------------------------------------------------------------------------
\* Rows, tasks and the locals of every goroutine keep their types, however
\* large the definition: the node state a hook writes is one dag_nodes.state
\* may hold (ListDAGNodes' switch, progress and DAGAbort).
THEOREM DagTypes == Spec => []TypeOK
  <1>1. DInv => TypeOK
    BY DEF DInv
  <1> QED
    BY <1>1, Invariance, PTL

\* In a DAG of any size and shape, whatever hooks overlap, fail or are lost, a
\* node's task is submitted only after each dependency succeeded, or died
\* under the skip policy (progress and launchNodes).
THEOREM NodesWaitForDependencies == Spec => []DependenciesFirst
  <1>1. DInv => DependenciesFirst
    BY DEF DInv
  <1> QED
    BY <1>1, Invariance, PTL

\* The status progress computes is never recorded without its reason: failed
\* only after a death, succeeded only when all nodes are satisfied or DAGAbort
\* skipped them.
THEOREM StatusHasReason == Spec => []AggregateSound
  <1>1. DInv => AggregateSound
    BY DEF DInv
  <1> QED
    BY <1>1, Invariance, PTL

\* Once the DAG is recorded as concluded no node row is left waiting
\* (OnTaskTerminal's abort branch and progress).
THEOREM NoNodeLeftWaiting == Spec => []NoneWaitingAfterEnd
  <1>1. DInv => NoneWaitingAfterEnd
    BY DEF DInv
  <1> QED
    BY <1>1, Invariance, PTL

-----------------------------------------------------------------------------
(* Runs without overlap: what holds between and inside the hooks as long   *)
(* as one goroutine at a time is in orchestration.                         *)

\* The tasks a goroutine has submitted and not yet recorded.
Held(l) == l.sent \union ({l.cur} \ {Api})

Sending(a, n) == \E p \in Launcher : \E t \in Held(a[p]) : t[1] = n

Alone(a, p) == \A q \in Launcher : q # p => a[q] = Idle

\* The locals between the calls of launchNodes, retryNode and OnTaskTerminal.
\* A hook's copy of the rows is still exact, but for its own node.
Tidy(p) ==
    /\ at[p].pc = "idle" => at[p] = Idle
    /\ at[p].pc # "idle" /\ p \in Task => task[p] \in {"succeeded", "dead"}
    /\ Reports(at[p].pc) => at[p].todo = {} /\ Held(at[p]) = {} /\ ~at[p].again
    /\ at[p].pc \in {"abort", "apply"} => \A n \in Node : n # p[1] => at[p].snap[n] = node[n]
    /\ at[p].pc = "apply" => at[p].snap[p[1]] \in {"succeeded", "skipped"}
    /\ at[p].pc \in {"create", "update"} => at[p].cur = Api
    /\ at[p].pc = "update" => at[p].todo = {}
    /\ at[p].again => /\ policy = "retry"
                      /\ p[1] \in at[p].todo \/ \E t \in Held(at[p]) : t[1] = p[1]
    /\ \A t \in Held(at[p]) : task[t] # "none"

\* Only the task a goroutine is about to link does not know its DAG.
Tracked ==
    \A t \in Task : task[t] # "none" => t \in linked \/ \E p \in Launcher : at[p].cur = t

\* A node that is waiting, or about to be submitted, has no task yet.
Once ==
    policy # "retry" =>
        /\ \A n \in Node : \A t, u \in Submitted(n) : t = u
        /\ \A p \in Launcher : \A n \in at[p].todo : Submitted(n) = {}
        /\ \A n \in Node : node[n] = "waiting" => Submitted(n) = {} \/ Sending(at, n)

\* A task of n is in the queues, or its end is being handled.
Runs(n) ==
    \E t \in Task :
        t[1] = n /\ (task[t] \in {"created", "queued"} \/ Reports(at[t].pc) \/ at[t].again)

\* While the DAG runs there is something left to do, and it will be done.
Moving ==
    dag = "running" =>
        /\ \E n \in Node : node[n] \in {"waiting", "running"}
        /\ \A n \in Node :
              /\ node[n] # "failed"
              /\ node[n] = "running" => Runs(n)
              /\ node[n] = "waiting" =>
                    \/ Sending(at, n)
                    \/ \E p \in Launcher : n \in at[p].todo
                    \/ \E d \in Dependencies(n) : node[d] \in {"waiting", "running"}

SBody == Serial /\ (\A p \in Launcher : Tidy(p)) /\ Tracked /\ Once /\ Moving

SInv == serial => SBody

LEMMA IdleFacts ==
    /\ Idle.pc = "idle" /\ Idle.todo = {} /\ Idle.cur = Api /\ Idle.sent = {}
    /\ Idle.again = FALSE /\ Held(Idle) = {}
  BY DEF Idle, Held

\* The locals of a goroutine that starts to launch.
LEMMA LaunchingFacts ==
    ASSUME NEW ns, NEW l, l = Launching(ns)
    PROVE  /\ l.todo = ns /\ l.cur = Api /\ Held(l) = {} /\ ~l.again
           /\ ns = {} => l = Idle
           /\ ns # {} => l.pc = "create"
  BY DEF Idle, Launching, Held

LEMMA TasksAreLaunchers == \A t \in Task : t \in Launcher /\ t # Api /\ t[1] \in Node
  BY SMTT(30), CountAssumption DEF Task, Api, Node, Launcher

LEMMA AloneFacts ==
    ASSUME NEW a, NEW p \in Launcher, Alone(a, p)
    PROVE  /\ \A n : Sending(a, n) <=> \E t \in Held(a[p]) : t[1] = n
           /\ \A n : (\E q \in Launcher : n \in a[q].todo) <=> n \in a[p].todo
           /\ \A t \in Task : (\E q \in Launcher : a[q].cur = t) <=> a[p].cur = t
  BY TasksAreLaunchers, IdleFacts DEF Alone, Sending

\* At most one goroutine is active, so the others have returned.
LEMMA SoloIsAlone ==
    ASSUME SBody, NEW p \in Launcher, at[p].pc # "idle"
    PROVE  Alone(at, p)
  BY SMTT(30) DEF SBody, Serial, Tidy, Alone

\* A goroutine that returned is tidy.
LEMMA IdleTidy ==
    ASSUME NEW q \in Launcher, at'[q] = Idle
    PROVE  Tidy(q)'
  BY IdleFacts DEF Tidy, Reports

\* The parts of the invariant after a step of the only active goroutine.
LEMMA SoloStep ==
    ASSUME NEW p \in Launcher, Alone(at', p), Serial', Tidy(p)', Tracked', Once', Moving'
    PROVE  SBody'
  <1>1. \A q \in Launcher : Tidy(q)'
    BY IdleTidy DEF Alone
  <1> QED
    BY <1>1 DEF SBody

LEMMA CreateSerial ==
    ASSUME DInv, SBody, NEW p \in Launcher, Create(p), Serial'
    PROVE  SBody'
  <1>1. PICK t \in Task :
          /\ t[1] \in at[p].todo
          /\ task[t] = "none"
          /\ task' = [task EXCEPT ![t] = "created"]
          /\ at' = [at EXCEPT ![p].pc = "enqueue", ![p].todo = @ \ {t[1]}, ![p].cur = t]
    BY DEF Create, Fresh
  <1>2. /\ at[p].pc = "create" /\ TypeOK /\ Tidy(p)
        /\ UNCHANGED <<dag, policy, deps, node, linked>>
    BY DEF Create, DInv, SBody
  <1>3. /\ at'[p].pc = "enqueue" /\ at'[p].cur = t /\ at'[p].todo = at[p].todo \ {t[1]}
        /\ at'[p].again = at[p].again /\ at'[p].snap = at[p].snap /\ at'[p].sent = at[p].sent
        /\ \A q \in Launcher : q # p => at'[q] = at[q]
    BY <1>1, <1>2 DEF TypeOK, Locals
  <1>4. /\ task'[t] = "created" /\ \A u \in Task : u # t => task'[u] = task[u]
        /\ t[1] \in Node /\ t # Api /\ at[p].cur = Api
    BY <1>1, <1>2, TasksAreLaunchers DEF TypeOK, Tidy
  <1>5. Alone(at, p) /\ Alone(at', p)
    BY <1>2, <1>3, SoloIsAlone DEF Alone
  <1>6. Held(at'[p]) = Held(at[p]) \union {t}
    BY <1>3, <1>4 DEF Held
  <1>7. Tidy(p)'
    <2>1. \A u \in Held(at'[p]) : task'[u] # "none"
      BY SMTT(30), <1>1, <1>2, <1>4, <1>6 DEF Tidy
    <2>2. at[p].again =>
            policy' = "retry" /\ (p[1] \in at'[p].todo \/ \E u \in Held(at'[p]) : u[1] = p[1])
      BY <1>1, <1>2, <1>3, <1>6 DEF Tidy
    <2>3. p \in Task => task'[p] \in {"succeeded", "dead"}
      BY <1>1, <1>2, <1>4 DEF Tidy
    <2> QED
      BY <1>3, <2>1, <2>2, <2>3 DEF Tidy, Reports
  <1>8. Tracked'
    <2>1. \A u \in Task : task[u] # "none" => u \in linked
      BY SMTT(30), <1>4, <1>5, AloneFacts, TasksAreLaunchers DEF SBody, Tracked
    <2> QED
      BY <1>2, <1>3, <1>4, <2>1 DEF Tracked
  <1>9. Once'
    <2> SUFFICES ASSUME policy # "retry" PROVE Once'
      BY <1>2 DEF Once
    <2>1. Submitted(t[1]) = {} /\ Submitted(t[1])' = {t}
      BY SMTT(30), <1>1, <1>4 DEF SBody, Once, Submitted
    <2>2. \A n : n # t[1] => Submitted(n)' = Submitted(n)
      BY <1>4 DEF Submitted
    <2>3. \A n : Sending(at', n) <=> Sending(at, n) \/ n = t[1]
      BY SMTT(30), <1>5, <1>6, AloneFacts
    <2>4. \A q \in Launcher : \A n \in at'[q].todo : n # t[1] /\ \E r \in Launcher : n \in at[r].todo
      BY SMTT(30), <1>3, <1>5, AloneFacts
    <2> QED
      BY SMTT(30), <1>2, <2>1, <2>2, <2>3, <2>4 DEF SBody, Once
  <1>10. Moving'
    <2>1. \A n : Sending(at, n) \/ (\E q \in Launcher : n \in at[q].todo) =>
              Sending(at', n) \/ \E q \in Launcher : n \in at'[q].todo
      BY SMTT(30), <1>3, <1>5, <1>6, AloneFacts
    <2>2. \A n : Runs(n) => Runs(n)'
      BY <1>1, <1>2, <1>3, <1>4, TasksAreLaunchers DEF Runs, Reports
    <2> QED
      BY <1>2, <2>1, <2>2 DEF SBody, Moving, Dependencies
  <1> QED
    BY <1>5, <1>7, <1>8, <1>9, <1>10, SoloStep

\* Steps that submit nothing, end nothing and leave the rows alone.
LEMMA SameWork ==
    ASSUME SBody, NEW p \in Launcher, Alone(at, p), Alone(at', p),
           Held(at'[p]) = Held(at[p]), at[p].todo \subseteq at'[p].todo,
           policy = "retry" \/ at'[p].todo = at[p].todo,
           UNCHANGED <<dag, policy, deps, node>>,
           \A n : Submitted(n)' = Submitted(n), \A n : Runs(n) => Runs(n)'
    PROVE  Once' /\ Moving'
  <1>1. \A n : Sending(at', n) <=> Sending(at, n)
    BY SMTT(30), AloneFacts
  <1>2. \A n : (\E q \in Launcher : n \in at[q].todo) => \E q \in Launcher : n \in at'[q].todo
    BY AloneFacts
  <1>3. Once'
    <2> SUFFICES ASSUME policy # "retry" PROVE Once'
      BY DEF Once
    <2>1. \A q \in Launcher : \A n \in at'[q].todo : \E r \in Launcher : n \in at[r].todo
      BY SMTT(30), AloneFacts
    <2> QED
      BY <1>1, <2>1 DEF SBody, Once
  <1>4. Moving'
    BY <1>1, <1>2 DEF SBody, Moving, Dependencies
  <1> QED
    BY <1>3, <1>4

LEMMA EnqueueSerial ==
    ASSUME DInv, SBody, NEW p \in Launcher, Enqueue(p), Serial'
    PROVE  SBody'
  <1>1. /\ at[p].pc = "enqueue" /\ TypeOK /\ Tidy(p) /\ at[p].cur \in Task
        /\ task' = [task EXCEPT ![at[p].cur] = IF @ = "created" THEN "queued" ELSE @]
        /\ at' = [at EXCEPT ![p].pc = "link"]
        /\ UNCHANGED <<dag, policy, deps, node, linked>>
    BY DEF Enqueue, DInv, SBody, HookOK
  <1>2. /\ at'[p].pc = "link" /\ at'[p].cur = at[p].cur /\ at'[p].todo = at[p].todo
        /\ at'[p].again = at[p].again /\ at'[p].snap = at[p].snap /\ at'[p].sent = at[p].sent
        /\ \A q \in Launcher : q # p => at'[q] = at[q]
    BY <1>1 DEF TypeOK, Locals
  <1>3. \A t \in Task : task'[t] = task[t] \/ (task[t] = "created" /\ task'[t] = "queued")
    BY <1>1 DEF TypeOK
  <1>4. Alone(at, p) /\ Alone(at', p) /\ Held(at'[p]) = Held(at[p])
    BY <1>1, <1>2, SoloIsAlone DEF Alone, Held
  <1>5. Tidy(p)'
    <2>1. Held(at[p]) \subseteq Task
      BY <1>1 DEF TypeOK, Locals, Held
    <2> QED
      BY SMTT(30), <1>1, <1>2, <1>3, <1>4, <2>1 DEF Tidy, Reports
  <1>6. Tracked'
    BY SMTT(30), <1>1, <1>2, <1>3 DEF SBody, Tracked
  <1>7. \A n : Submitted(n)' = Submitted(n)
    BY <1>3 DEF Submitted
  <1>8. \A n : Runs(n) => Runs(n)'
    BY <1>1, <1>2, <1>3, TasksAreLaunchers DEF Runs, Reports
  <1>9. Once' /\ Moving'
    BY <1>1, <1>2, <1>4, <1>7, <1>8, SameWork
  <1> QED
    BY <1>4, <1>5, <1>6, <1>9, SoloStep

LEMMA LinkSerial ==
    ASSUME DInv, SBody, NEW p \in Launcher, Link(p), Serial'
    PROVE  SBody'
  <1>1. /\ at[p].pc = "link" /\ TypeOK /\ Tidy(p) /\ at[p].cur \in Task
        /\ linked' = linked \union {at[p].cur}
        /\ UNCHANGED <<dag, policy, deps, node, task>>
    BY DEF Link, DInv, SBody, HookOK
  <1> DEFINE next == IF at[p].todo = {} THEN "update" ELSE "create"
  <1>n. next \in {"update", "create"} /\ (next = "update" => at[p].todo = {})
    OBVIOUS
  <1>u. at' = [at EXCEPT ![p].pc = next, ![p].sent = @ \union {at[p].cur}, ![p].cur = Api]
    BY DEF Link
  <1> HIDE DEF next
  <1>2. /\ at'[p].pc = next
        /\ at'[p].cur = Api /\ at'[p].todo = at[p].todo /\ at'[p].sent = at[p].sent \union {at[p].cur}
        /\ at'[p].again = at[p].again /\ at'[p].snap = at[p].snap
        /\ \A q \in Launcher : q # p => at'[q] = at[q]
    BY <1>1, <1>u DEF TypeOK, Locals
  <1>3. Alone(at, p) /\ Alone(at', p) /\ Held(at'[p]) = Held(at[p])
    BY <1>1, <1>2, SoloIsAlone, TasksAreLaunchers DEF Alone, Held
  <1>4. Tidy(p)'
    BY <1>1, <1>n, <1>2, <1>3 DEF Tidy, Reports
  <1>5. Tracked'
    BY SMTT(30), <1>1, <1>2, <1>3, AloneFacts DEF SBody, Tracked
  <1>6. \A n : Submitted(n)' = Submitted(n)
    BY <1>1 DEF Submitted
  <1>7. \A n : Runs(n) => Runs(n)'
    BY <1>1, <1>n, <1>2, TasksAreLaunchers DEF Runs, Reports
  <1>8. Once' /\ Moving'
    BY <1>1, <1>2, <1>3, <1>6, <1>7, SameWork
  <1> QED
    BY <1>3, <1>4, <1>5, <1>8, SoloStep

\* validate.go lets only dependencies on nodes of the definition pass.
LEMMA DependenciesAreNodes == TypeOK => \A n \in Node : Dependencies(n) \subseteq Node
  BY SMTT(30) DEF TypeOK, Dependencies, Range

LEMMA UpdateSerial ==
    ASSUME DInv, SBody, NEW p \in Launcher, Update(p), Serial'
    PROVE  SBody'
  <1>1. /\ at[p].pc = "update" /\ TypeOK /\ Tidy(p)
        /\ node' = [n \in Node |-> IF \E t \in at[p].sent : t[1] = n THEN "running" ELSE node[n]]
        /\ at' = [at EXCEPT ![p] = Idle]
        /\ UNCHANGED <<dag, policy, deps, task, linked>>
    BY DEF Update, DInv, SBody
  <1>2. at'[p] = Idle /\ \A q \in Launcher : q # p => at'[q] = at[q]
    BY <1>1 DEF TypeOK
  <1>3. Alone(at, p) /\ Alone(at', p)
    BY <1>1, <1>2, SoloIsAlone DEF Alone
  <1>4. /\ at[p].todo = {} /\ at[p].cur = Api /\ Held(at[p]) = at[p].sent
        /\ at[p].sent \subseteq Task /\ \A t \in at[p].sent : task[t] \notin Ended \union {"none"}
    <2>1. at[p].todo = {} /\ at[p].cur = Api /\ Held(at[p]) = at[p].sent
      BY <1>1 DEF Tidy, Held
    <2>2. \A t \in at[p].sent : task[t] \notin Ended
      BY DEF SBody, Serial
    <2> QED
      BY SMTT(30), <1>1, <2>1, <2>2 DEF Tidy, TypeOK, Locals
  <1>5. Tidy(p)'
    BY <1>2, IdleTidy
  <1>6. Tracked'
    BY SMTT(30), <1>1, <1>2, <1>3, <1>4, AloneFacts, TasksAreLaunchers DEF SBody, Tracked
  <1>7. \A n \in Node : /\ node'[n] = "waiting" => node[n] = "waiting" /\ ~Sending(at, n)
                        /\ node[n] \in {"waiting", "running"} => node'[n] \in {"waiting", "running"}
                        /\ node'[n] = "failed" => node[n] = "failed"
    BY SMTT(30), <1>1, <1>3, <1>4, AloneFacts
  <1>8. Once'
    <2>1. \A q \in Launcher : at'[q].todo = {}
      BY <1>2, <1>3, IdleFacts DEF Alone
    <2> QED
      BY SMTT(30), <1>1, <1>7, <2>1 DEF SBody, Once, Submitted
  <1>9. Moving'
    <2>1. dag = "running" => \A n \in Node : node'[n] = "running" => Runs(n)'
      <3>1. ASSUME NEW t \in at[p].sent PROVE task'[t] \in {"created", "queued"} /\ t \in Task
        BY <1>1, <1>4, <3>1 DEF TypeOK, Ended
      <3>2. ASSUME NEW n, Runs(n), \A t \in at[p].sent : t[1] # n PROVE Runs(n)'
        <4>1. at[p].again => p[1] # n
          BY <1>1, <1>4, <3>2 DEF Tidy
        <4> QED
          BY <1>1, <1>2, <3>2, <4>1, TasksAreLaunchers DEF Runs, Reports
      <3> QED
        BY <1>1, <3>1, <3>2 DEF SBody, Moving, Runs
    <2>2. \A n : ~\E q \in Launcher : n \in at[q].todo
      BY <1>3, <1>4, AloneFacts
    <2> QED
      BY <1>1, <1>7, <2>1, <2>2, DependenciesAreNodes DEF SBody, Moving, Dependencies
  <1> QED
    BY <1>3, <1>5, <1>6, <1>8, <1>9, SoloStep

LEMMA GetDAGSerial ==
    ASSUME DInv, SBody, NEW p \in Launcher, GetDAG(p), Serial'
    PROVE  SBody'
  <1>1. /\ at[p].pc = "get" /\ TypeOK /\ Tidy(p) /\ p \in Task
        /\ UNCHANGED <<dag, policy, deps, node, task, linked>>
    BY DEF GetDAG, DInv, SBody, HookOK, Reports
  <1>2. /\ dag \in Concluded => at'[p] = Idle
        /\ dag \notin Concluded => at'[p] = [at[p] EXCEPT !.pc = "list"]
        /\ \A q \in Launcher : q # p => at'[q] = at[q]
    BY <1>1 DEF GetDAG, TypeOK
  <1>3. at[p].todo = {} /\ at[p].sent = {} /\ at[p].cur = Api /\ ~at[p].again /\ Held(at[p]) = {}
    BY <1>1 DEF Tidy, Reports, Held
  <1>4. dag \notin Concluded =>
          /\ at'[p].pc = "list" /\ at'[p].todo = {} /\ at'[p].sent = {} /\ at'[p].cur = Api
          /\ ~at'[p].again
    BY <1>1, <1>2, <1>3 DEF TypeOK, Locals
  <1>5. Held(at'[p]) = {} /\ at'[p].todo = {} /\ at'[p].cur = Api
    BY <1>2, <1>4, IdleFacts DEF Held
  <1>6. Alone(at, p) /\ Alone(at', p)
    BY <1>1, <1>2, SoloIsAlone DEF Alone
  <1>7. Tidy(p)'
    BY <1>1, <1>2, <1>4, <1>5, IdleTidy DEF Tidy, Reports
  <1>8. Tracked'
    BY SMTT(30), <1>1, <1>3, <1>6, AloneFacts, TasksAreLaunchers DEF SBody, Tracked
  <1>9. \A n : Submitted(n)' = Submitted(n)
    BY <1>1 DEF Submitted
  <1>10. CASE dag \in Concluded
    <2>1. Moving' /\ dag # "running"
      BY <1>1, <1>10 DEF Moving, Concluded
    <2>2. Once'
      <3>1. \A n : ~Sending(at, n) /\ ~\E q \in Launcher : n \in at'[q].todo
        BY <1>3, <1>5, <1>6, AloneFacts
      <3> QED
        BY <1>1, <1>9, <3>1 DEF SBody, Once
    <2> QED
      BY <1>6, <1>7, <1>8, <2>1, <2>2, SoloStep
  <1>11. CASE dag \notin Concluded
    <2>1. \A n : Runs(n) => Runs(n)'
      BY <1>1, <1>2, <1>4, <1>11, TasksAreLaunchers DEF Runs, Reports
    <2>2. Once' /\ Moving'
      BY <1>1, <1>3, <1>5, <1>6, <1>9, <2>1, SameWork
    <2> QED
      BY <1>6, <1>7, <1>8, <2>2, SoloStep
  <1> QED
    BY <1>10, <1>11

LEMMA ListDAGNodesSerial ==
    ASSUME DInv, SBody, NEW p \in Launcher, ListDAGNodes(p), Serial'
    PROVE  SBody'
  <1>1. /\ at[p].pc = "list" /\ TypeOK /\ Tidy(p) /\ p \in Task /\ p[1] \in Node
        /\ task[p] \in {"succeeded", "dead"}
        /\ UNCHANGED <<dag, policy, deps, node, task, linked>>
    BY TasksAreLaunchers DEF ListDAGNodes, DInv, SBody, HookOK, Reports
  <1>2. at[p].todo = {} /\ at[p].sent = {} /\ at[p].cur = Api /\ ~at[p].again /\ Held(at[p]) = {}
    BY <1>1 DEF Tidy, Reports, Held
  <1>3. \A q \in Launcher : q # p => at'[q] = at[q]
    BY <1>1 DEF ListDAGNodes, TypeOK
  <1>4. Alone(at, p) /\ Alone(at', p)
    BY <1>1, <1>3, SoloIsAlone DEF Alone
  <1>5. \A n : Submitted(n)' = Submitted(n)
    BY <1>1 DEF Submitted
  <1> DEFINE Hook(pc, s) == [Idle EXCEPT !.pc = pc, !.snap = [node EXCEPT ![p[1]] = s]]
             Again == [Launching({p[1]}) EXCEPT !.snap = node, !.again = TRUE]
  <1>6. \/ at'[p] = Hook("apply", "succeeded") \/ at'[p] = Hook("apply", "skipped")
        \/ at'[p] = Hook("abort", "failed")
        \/ policy = "retry" /\ at'[p] = Again
    BY <1>1 DEF ListDAGNodes, TypeOK, Policy
  <1>7. ASSUME NEW pc \in {"apply", "abort"}, NEW s \in NodeState, at'[p] = Hook(pc, s)
        PROVE  /\ at'[p].pc = pc /\ at'[p].todo = {} /\ at'[p].cur = Api /\ Held(at'[p]) = {}
               /\ ~at'[p].again /\ at'[p].snap[p[1]] = s
               /\ \A n \in Node : n # p[1] => at'[p].snap[n] = node[n]
    BY SMTT(30), <1>1, <1>7 DEF Idle, Held, TypeOK
  <1>8. ASSUME at'[p] = Again
        PROVE  /\ at'[p].pc = "create" /\ at'[p].todo = {p[1]} /\ at'[p].cur = Api
               /\ Held(at'[p]) = {} /\ at'[p].again
    BY <1>8 DEF Idle, Launching, Held
  <1> HIDE DEF Hook, Again
  <1>9. /\ Held(at'[p]) = {} /\ at'[p].cur = Api
        /\ Reports(at'[p].pc) \/ at'[p].again
        /\ policy = "retry" \/ at'[p].todo = {}
    BY <1>6, <1>7, <1>8 DEF NodeState, Reports
  <1>10. Tidy(p)'
    <2>1. CASE policy = "retry" /\ at'[p] = Again
      BY <1>1, <1>8, <2>1 DEF Tidy, Reports
    <2>2. ASSUME NEW pc \in {"apply", "abort"}, NEW s \in NodeState, at'[p] = Hook(pc, s),
                 pc = "apply" => s \in {"succeeded", "skipped"}
          PROVE  Tidy(p)'
      BY <1>1, <1>7, <2>2 DEF Tidy, Reports
    <2> QED
      BY <1>6, <2>1, <2>2 DEF NodeState
  <1>11. Tracked'
    BY <1>1, <1>2, <1>4, AloneFacts, TasksAreLaunchers DEF SBody, Tracked
  <1>12. \A n : Runs(n) => Runs(n)'
    BY <1>1, <1>3, <1>9, TasksAreLaunchers DEF Runs
  <1>13. Once' /\ Moving'
    BY <1>1, <1>2, <1>4, <1>5, <1>9, <1>12, SameWork
  <1> QED
    BY <1>4, <1>10, <1>11, <1>13, SoloStep

LEMMA AbortSerial ==
    ASSUME DInv, SBody, NEW p \in Launcher, Abort(p), Serial'
    PROVE  SBody'
  <1>1. /\ at[p].pc = "abort" /\ TypeOK /\ Tidy(p) /\ dag' = "failed" /\ at' = [at EXCEPT ![p] = Idle]
        /\ UNCHANGED <<policy, deps, task, linked>>
    BY DEF Abort, DInv, SBody
  <1>2. at'[p] = Idle /\ \A q \in Launcher : q # p => at'[q] = at[q]
    BY <1>1 DEF TypeOK
  <1>3. at[p].todo = {} /\ at[p].cur = Api /\ Held(at[p]) = {}
    BY <1>1 DEF Tidy, Reports, Held
  <1>4. Alone(at, p) /\ Alone(at', p)
    BY <1>1, <1>2, SoloIsAlone DEF Alone
  <1>5. Tracked' /\ Moving'
    BY <1>1, <1>3, <1>4, AloneFacts, TasksAreLaunchers DEF SBody, Tracked, Moving
  <1>6. \A n \in Node : node'[n] = "waiting" => node[n] = "waiting"
    BY DEF Abort
  <1>7. Once'
    <2>1. \A n : ~Sending(at, n) /\ Submitted(n)' = Submitted(n)
      BY <1>1, <1>3, <1>4, AloneFacts DEF Submitted
    <2>2. \A q \in Launcher : at'[q].todo = {}
      BY <1>2, <1>4, IdleFacts DEF Alone
    <2> QED
      BY <1>1, <1>6, <2>1, <2>2 DEF SBody, Once
  <1> QED
    BY <1>2, <1>4, <1>5, <1>7, IdleTidy, SoloStep

LEMMA ApplySerial ==
    ASSUME DInv, SBody, NEW p \in Launcher, Apply(p), Serial'
    PROVE  SBody'
  <1> DEFINE snap == at[p].snap
  <1>1. /\ at[p].pc = "apply" /\ TypeOK /\ Tidy(p) /\ p \in Task /\ p[1] \in Node
        /\ snap \in [Node -> NodeState]
        /\ UNCHANGED <<policy, deps, task, linked>>
    BY TasksAreLaunchers DEF Apply, DInv, SBody, HookOK, Reports, TypeOK, Locals
  <1>2. /\ at[p].todo = {} /\ at[p].cur = Api /\ Held(at[p]) = {} /\ ~at[p].again
        /\ \A n \in Node : n # p[1] => snap[n] = node[n]
        /\ snap[p[1]] \in {"succeeded", "skipped"}
    BY <1>1 DEF Tidy, Reports, Held
  <1>3. \A n \in Node : node'[n] = snap[n]
    BY <1>1, <1>2 DEF Apply, TypeOK
  <1>4. PICK ns \in SUBSET Node :
          /\ at'[p] = Launching(ns) /\ \A q \in Launcher : q # p => at'[q] = at[q]
          /\ \/ ns = {} /\ dag' # "running"
             \/ ns = Ready(snap) /\ dag' = dag /\ \E n \in Node : snap[n] \in {"waiting", "running"}
    <2>1. Ready(snap) \subseteq Node /\ Launching({}) = Idle
      BY DEF Ready, Launching
    <2>2. Aggregate(snap) = "running" <=> \E n \in Node : snap[n] \in {"waiting", "running"}
      BY DEF Aggregate
    <2> QED
      BY <1>1, <2>1, <2>2 DEF Apply, TypeOK
  <1> HIDE DEF snap
  <1>5. /\ at'[p].todo = ns /\ at'[p].cur = Api /\ Held(at'[p]) = {} /\ ~at'[p].again
        /\ ns = {} => at'[p] = Idle
        /\ ns # {} => at'[p].pc = "create"
    <2>1. at'[p] = Launching(ns)
      BY <1>4
    <2> QED
      BY <2>1, LaunchingFacts
  <1>6. Alone(at, p) /\ Alone(at', p)
    BY <1>1, <1>4, SoloIsAlone DEF Alone
  <1>7. Tidy(p)'
    <2>1. CASE ns = {}
      BY <1>5, <2>1, IdleTidy
    <2>2. CASE ns # {}
      <3>1. at'[p].pc = "create" /\ task'[p] \in {"succeeded", "dead"}
        BY <1>1, <1>5, <2>2 DEF Tidy
      <3> QED
        BY <1>5, <3>1 DEF Tidy, Reports
    <2> QED
      BY <2>1, <2>2
  <1>8. Tracked'
    BY <1>1, <1>2, <1>6, AloneFacts, TasksAreLaunchers DEF SBody, Tracked
  <1>9. /\ \A n : ~Sending(at, n) /\ ~Sending(at', n) /\ ~\E q \in Launcher : n \in at[q].todo
        /\ \A n : (\E q \in Launcher : n \in at'[q].todo) <=> n \in ns
    BY <1>2, <1>5, <1>6, AloneFacts
  <1>10. \A n \in Node : snap[n] = "waiting" => node[n] = "waiting"
    BY <1>2
  <1>11. Once'
    <2>1. \A n \in ns : snap[n] = "waiting"
      BY <1>4 DEF Ready
    <2>2. \A n : Submitted(n)' = Submitted(n)
      BY <1>1 DEF Submitted
    <2> QED
      BY <1>1, <1>3, <1>9, <1>10, <2>1, <2>2 DEF SBody, Once
  <1>12. Moving'
    <2> SUFFICES ASSUME dag = "running", dag' = "running", ns = Ready(snap),
                        \E n \in Node : snap[n] \in {"waiting", "running"}
                 PROVE  Moving'
      BY <1>4 DEF Moving
    <2>1. \A n \in Node : snap[n] # "failed"
      BY <1>2 DEF SBody, Moving
    <2>2. ASSUME NEW n \in Node, snap[n] = "running" PROVE Runs(n)'
      BY SMTT(30), <1>1, <1>2, <1>4, <2>2, TasksAreLaunchers DEF SBody, Moving, Runs
    <2>3. ASSUME NEW n \in Node, snap[n] = "waiting", n \notin ns
          PROVE  \E d \in Dependencies(n) : node'[d] \in {"waiting", "running"}
      <3>1. PICK d \in Dependencies(n) : snap[d] \notin {"succeeded", "skipped"}
        BY <2>3 DEF Ready
      <3>2. d \in Node
        BY <1>1, DependenciesAreNodes
      <3> QED
        BY <1>1, <1>3, <2>1, <3>1, <3>2 DEF NodeState
    <2> QED
      BY <1>1, <1>3, <1>9, <2>1, <2>2, <2>3 DEF Moving, Dependencies
  <1> QED
    BY <1>6, <1>7, <1>8, <1>11, <1>12, SoloStep

LEMMA FinishSerial ==
    ASSUME DInv, SBody, NEW t \in Task, NEW outcome \in {"succeeded", "dead"}, Finish(t, outcome), Serial'
    PROVE  SBody'
  <1>1. /\ task[t] = "queued" /\ TypeOK /\ Tidy(t) /\ t \in Launcher
        /\ task'[t] = outcome /\ \A u \in Task : u # t => task'[u] = task[u]
        /\ UNCHANGED <<dag, policy, deps, node, linked>>
    BY TasksAreLaunchers DEF Finish, DInv, SBody, TypeOK
  <1>2. at[t] = Idle
    BY <1>1 DEF Tidy
  <1>3. t \in linked
    <2> SUFFICES ASSUME t \notin linked PROVE FALSE
      OBVIOUS
    <2>1. PICK p \in Launcher : at[p].cur = t
      BY <1>1 DEF SBody, Tracked
    <2>2. at' = at
      BY DEF Finish
    <2> QED
      BY <1>1, <2>1, <2>2, TasksAreLaunchers DEF Serial, Ended
  <1>4. /\ at'[t] = [Idle EXCEPT !.pc = "get"] /\ \A q \in Launcher : q # t => at'[q] = at[q]
    BY <1>1, <1>2, <1>3 DEF Finish, TypeOK
  <1>5. /\ at'[t].pc = "get" /\ at'[t].todo = {} /\ at'[t].cur = Api /\ Held(at'[t]) = {}
        /\ ~at'[t].again
    BY <1>4 DEF Idle, Held
  <1>6. Alone(at, t) /\ Alone(at', t)
    <2>1. \A q \in Launcher : q # t => at'[q].pc = "idle"
      BY <1>1, <1>5 DEF Serial
    <2>2. \A q \in Launcher : at[q].pc = "idle" => at[q] = Idle
      BY DEF SBody, Tidy
    <2> QED
      BY <1>4, <2>1, <2>2 DEF Alone
  <1>7. Tidy(t)'
    BY <1>1, <1>5 DEF Tidy, Reports
  <1>8. Tracked'
    BY SMTT(30), <1>1, <1>2, <1>6, AloneFacts, IdleFacts, TasksAreLaunchers DEF SBody, Tracked
  <1>9. \A n : Submitted(n)' = Submitted(n)
    BY <1>1 DEF Submitted
  <1>10. \A n : Runs(n) => Runs(n)'
    BY <1>1, <1>2, <1>4, <1>5, TasksAreLaunchers, IdleFacts DEF Runs, Reports
  <1>11. Once' /\ Moving'
    BY <1>1, <1>2, <1>5, <1>6, <1>9, <1>10, IdleFacts, SameWork
  <1> QED
    BY <1>1, <1>6, <1>7, <1>8, <1>11, SoloStep

LEMMA SubmitSerial ==
    ASSUME DInv, SBody, NEW req \in Requests, Submit(req), Serial'
    PROVE  SBody'
  <1> DEFINE roots == {n \in Node : req.deps[n] = <<>>}
  <1>1. /\ req.deps \in [Node -> Seq(Node)]
        /\ deps' = req.deps /\ linked' = linked
        /\ node' = [n \in Node |-> "waiting"] /\ task' = [t \in Task |-> "none"]
    BY RequestAssumption DEF Submit, DInv, Untouched
  <1>2. /\ at'[Api] = Launching(roots) /\ Api \in Launcher
        /\ \A q \in Launcher : q # Api => at'[q] = Idle
    BY DEF Submit, DInv, Untouched, Launcher
  <1> HIDE DEF roots
  <1>3. /\ at'[Api].todo = roots /\ at'[Api].cur = Api /\ Held(at'[Api]) = {} /\ ~at'[Api].again
        /\ roots = {} => at'[Api] = Idle
        /\ roots # {} => at'[Api].pc = "create"
    <2>1. at'[Api] = Launching(roots)
      BY <1>2
    <2> QED
      BY <2>1, LaunchingFacts
  <1>4. Alone(at', Api)
    BY <1>2 DEF Alone
  <1>5. Tidy(Api)'
    <2>1. CASE roots = {}
      BY <1>2, <1>3, <2>1, IdleTidy
    <2>2. CASE roots # {}
      <3>1. at'[Api].pc = "create" /\ Api \notin Task
        BY <1>3, <2>2, TasksAreLaunchers
      <3> QED
        BY <1>3, <3>1 DEF Tidy, Reports
    <2> QED
      BY <2>1, <2>2
  <1>6. Tracked' /\ Once'
    BY <1>1 DEF Tracked, Once, Submitted
  <1>7. Node # {}
    <2>1. ~Malformed(Definition(req.deps))
      BY DEF Submit, Validate, Verdict
    <2>2. Node = {} => Definition(req.deps) = <<>>
      BY SMTT(30) DEF Definition
    <2> QED
      BY <2>1, <2>2 DEF Malformed
  <1>8. Moving'
    <2>1. \A n \in Node : n \in roots \/ \E d \in Dependencies(n)' : d \in Node
      <3> SUFFICES ASSUME NEW n \in Node, n \notin roots PROVE \E d \in Dependencies(n)' : d \in Node
        OBVIOUS
      <3>1. req.deps[n] \in Seq(Node) /\ req.deps[n] # <<>>
        BY <1>1 DEF roots
      <3>2. 1 \in DOMAIN req.deps[n] /\ req.deps[n][1] \in Node
        BY SMTT(30), <3>1
      <3> QED
        BY <1>1, <3>2 DEF Dependencies, Range
    <2> QED
      BY <1>1, <1>2, <1>3, <1>7, <2>1 DEF Moving
  <1> QED
    BY <1>2, <1>4, <1>5, <1>6, <1>8, SoloStep

LEMMA StutterSerial ==
    ASSUME SBody, UNCHANGED vars
    PROVE  SBody'
  <1>1. Serial' /\ Tracked'
    BY DEF SBody, vars, Serial, Tracked
  <1>2. \A p \in Launcher : Tidy(p)'
    BY SMTT(30) DEF SBody, vars, Tidy
  <1>3. Once'
    BY SMTT(30) DEF SBody, vars, Once, Submitted
  <1>4. Moving'
    BY DEF SBody, vars, Moving, Runs, Dependencies
  <1> QED
    BY <1>1, <1>2, <1>3, <1>4 DEF SBody

LEMMA InitSerial == Init => SInv
  <1> SUFFICES ASSUME Init PROVE SBody
    BY DEF SInv
  <1>1. \A p \in Launcher : at[p] = Idle
    BY DEF Init
  <1>2. Serial
    BY <1>1, IdleFacts DEF Init, Serial
  <1>3. \A p \in Launcher : Tidy(p)
    BY <1>1, IdleFacts DEF Tidy, Reports
  <1>4. Tracked /\ Moving
    BY DEF Init, Tracked, Moving
  <1>5. Once
    BY <1>1, IdleFacts DEF Init, Once, Submitted
  <1> QED
    BY <1>2, <1>3, <1>4, <1>5 DEF SBody

\* A failing call, a canceled task or a restart ends the serial prefix.
LEMMA TroubleEndsSerial == TypeOK /\ Trouble => ~Serial'
  BY SMTT(30), CountAssumption DEF TypeOK, Trouble, Serial

LEMMA NextSerial == DInv /\ SInv /\ [Next]_vars => SInv'
  <1> SUFFICES ASSUME DInv, SInv, [Next]_vars, serial' PROVE SBody'
    BY DEF SInv
  <1>1. CASE UNCHANGED vars
    BY <1>1, StutterSerial DEF SInv, vars
  <1>2. ASSUME Watch PROVE SBody /\ Serial'
    BY <1>2 DEF Watch, SInv, DInv, TypeOK
  <1>3. ASSUME NEW req \in Requests, Submit(req), Watch PROVE SBody'
    BY <1>2, <1>3, SubmitSerial
  <1>4. ASSUME NEW p \in Launcher, Step(p), Watch PROVE SBody'
    BY <1>2, <1>4, CreateSerial, EnqueueSerial, LinkSerial, UpdateSerial, GetDAGSerial,
       ListDAGNodesSerial, AbortSerial, ApplySerial
    DEF Step
  <1>5. ASSUME NEW t \in Task, Run(t), Watch PROVE SBody'
    BY <1>2, <1>5, FinishSerial DEF Run
  <1>6. ASSUME Trouble, Watch PROVE FALSE
    BY <1>2, <1>6, TroubleEndsSerial DEF DInv
  <1> QED
    BY <1>1, <1>3, <1>4, <1>5, <1>6 DEF Next, Progress, Fault, CancelTask, Restart

LEMMA SerialInvariance == Spec => []SInv
  BY Invariance, InitSerial, NextSerial, PTL DEF Spec

-----------------------------------------------------------------------------
(* Runs without overlap end.                                               *)

\* Some node of every set depends on none of the others.
Rooted(d) == \A S \in SUBSET Node : S # {} => \E n \in S : Range(d[n]) \intersect S = {}

LEMMA InitRooted == Init => Rooted(deps)
  BY SMTT(30) DEF Init, Rooted, Range

\* The definition of a DAG is written once, by Submit.
LEMMA NextRooted ==
    ASSUME \A req \in Requests : Validate(Definition(req.deps)).err = "none" => Rooted(req.deps),
           Rooted(deps), [Next]_vars
    PROVE  Rooted(deps')
  <1>1. deps' = deps \/ \E req \in Requests : Submit(req)
    BY DEF Next, Progress, Step, Run, vars, Create, Enqueue, Link, Update, GetDAG, ListDAGNodes,
           Abort, Apply, Finish, Fault, CancelTask, Restart
  <1>2. ASSUME NEW req \in Requests, Submit(req) PROVE Rooted(deps')
    BY <1>2 DEF Submit
  <1> QED
    BY <1>1, <1>2

\* With nobody left to act a node could only wait for another waiting node, and
\* the waiting nodes have one that does not.
LEMMA QuietHasConcluded == DInv /\ SInv /\ Rooted(deps) => SerialDagConcludes
  <1> SUFFICES ASSUME DInv, SInv, Rooted(deps), serial, Quiescent, dag = "running" PROVE FALSE
    BY DEF SerialDagConcludes
  <1> DEFINE W == {n \in Node : node[n] = "waiting"}
  <1>1. SBody
    BY DEF SInv
  <1>2. \A p \in Launcher : at[p] = Idle
    BY <1>1 DEF SBody, Tidy, Quiescent
  <1>3. /\ \A n : ~Sending(at, n) /\ ~Runs(n)
        /\ \A p \in Launcher : at[p].todo = {}
    <2>1. \A p \in Launcher : /\ at[p].todo = {} /\ Held(at[p]) = {} /\ ~at[p].again
                              /\ at[p].pc = "idle"
      BY <1>2, IdleFacts
    <2> QED
      BY <2>1, TasksAreLaunchers DEF Sending, Runs, Reports, Quiescent
  <1>4. \A n \in Node : node[n] # "running"
    BY <1>1, <1>3 DEF SBody, Moving
  <1>5. W # {}
    BY <1>1, <1>4 DEF SBody, Moving
  <1>6. PICK n \in W : Dependencies(n) \intersect W = {}
    BY <1>5 DEF Rooted, Dependencies
  <1>7. \E d \in Dependencies(n) : node[d] \in {"waiting", "running"}
    BY <1>1, <1>3 DEF SBody, Moving
  <1>8. Dependencies(n) \subseteq Node
    BY DependenciesAreNodes DEF DInv
  <1> QED
    BY <1>4, <1>6, <1>7, <1>8

(* The lemmas on Validate, and with them the facts on cardinalities.       *)
Kahn == INSTANCE DagValidateProofs

\* The operators those lemmas are about are the ones of this module.
LEMMA SameCardinality ==
    ASSUME NEW S
    PROVE  Kahn!Cardinality(S) = Cardinality(S)
  BY DEF Cardinality, Kahn!Cardinality

LEMMA SameLastRound ==
    ASSUME NEW def
    PROVE  Kahn!LastRound(def) = LastRound(def)
  BY DEF LastRound, Kahn!LastRound, FirstRound, Kahn!FirstRound, Round, Kahn!Round, InDegrees, Kahn!InDegrees,
         Decrements, Kahn!Decrements, Ids, Kahn!Ids, Named, Kahn!Named, Cardinality, Kahn!Cardinality

LEMMA SameVerdict ==
    ASSUME NEW def
    PROVE  Kahn!Validate(def) = Validate(def)
  BY SameLastRound DEF Validate, Kahn!Validate, Malformed, Kahn!Malformed, Residual, Kahn!Residual,
         Verdict, Kahn!Verdict, Ids, Kahn!Ids, Range, Kahn!Range

\* Dependencies that pass Validate.
LEMMA AcceptedDependencies ==
    ASSUME NEW d \in [Node -> Seq(Node)], Validate(Definition(d)).err = "none"
    PROVE  Rooted(d)
  <1> DEFINE def == Definition(d)
  <1>1. /\ Len(def) = NodeCount /\ DOMAIN def = 1..NodeCount
        /\ \A n \in Node : def[n].id = n /\ def[n].dependencies = d[n]
    BY SMTT(30), CountAssumption DEF Definition, Node
  <1>2. Kahn!Listed(def)
    BY SMTT(30), <1>1, CountAssumption DEF Kahn!Listed, Node
  <1>3. Kahn!Ids(def) = Node
    BY <1>1 DEF Kahn!Ids, Node
  <1>4. \A n \in Node : Kahn!List(def, n) = d[n]
    <2> SUFFICES ASSUME NEW n \in Node PROVE Kahn!Named(def, n) = n
      BY <1>1 DEF Kahn!List
    <2> QED
      BY <1>1 DEF Kahn!Named, Node
  <1>5. Kahn!Grounded(def, Node)
    BY <1>2, <1>3, SameVerdict, Kahn!AcceptedIsGrounded
  <1> HIDE DEF def
  <1>6. \A n \in Node : Kahn!Range(Kahn!List(def, n)) = Range(d[n])
    BY <1>4 DEF Range, Kahn!Range
  <1> QED
    <2> SUFFICES ASSUME NEW S \in SUBSET Node, S # {} PROVE \E n \in S : Range(d[n]) \intersect S = {}
      BY DEF Rooted
    <2>1. PICK n \in S : Kahn!Range(Kahn!List(def, n)) \intersect S = {}
      BY <1>5 DEF Kahn!Grounded
    <2> QED
      BY <1>6, <2>1

LEMMA RootedInvariance == Spec => [](DInv /\ SInv /\ Rooted(deps))
  <1>1. \A req \in Requests : Validate(Definition(req.deps)).err = "none" => Rooted(req.deps)
    BY RequestAssumption, AcceptedDependencies
  <1>2. Rooted(deps) /\ [Next]_vars => Rooted(deps)'
    BY <1>1, NextRooted
  <1> QED
    BY <1>2, InitRooted, Invariance, SerialInvariance, PTL DEF Spec

\* As long as hooks do not overlap and nothing fails, a node of a DAG of any
\* shape is submitted once (progress releases waiting nodes only, and every
\* release is recorded before the next hook looks).
THEOREM OneTaskPerNode == Spec => []SerialLaunchesOnce
  <1>1. DInv /\ SInv => SerialLaunchesOnce
    <2> SUFFICES ASSUME DInv, SInv, serial, policy # "retry", NEW n \in Node
                 PROVE  Cardinality(Submitted(n)) <= 1
      BY DEF SerialLaunchesOnce
    <2>1. \A t, u \in Submitted(n) : t = u
      BY DEF SInv, SBody, Once
    <2> QED
      BY <2>1, SameCardinality, Kahn!AtMostOne
  <1> QED
    BY <1>1, Invariance, SerialInvariance, PTL

\* As long as hooks do not overlap and nothing fails, a DAG of any shape that
\* Validate accepted and any failure policy has concluded when no goroutine is
\* left in orchestration and no task in the queues: OnTaskTerminal never leaves
\* behind a waiting node that no later hook would release.
THEOREM SerialRunsConclude == Spec => []SerialDagConcludes
  BY QuietHasConcluded, RootedInvariance, PTL
=============================================================================
