----------------------------- MODULE Algorithms -----------------------------
(***************************************************************************)
(* The pure parts of the backend, one per behaviour: retry times, the      *)
(* scheduler's choices, and the rounds in which validate.go layers a DAG.  *)
(***************************************************************************)
EXTENDS RetryPolicy, FairShare, DagValidate

CONSTANT Definitions   \* the DAG definitions validated

ASSUME DefinitionAssumption ==
    \A d \in Definitions :
        /\ d \in Seq(Range(d))
        /\ \A n \in Range(d) : n.dependencies \in Seq(Range(n.dependencies))

VARIABLES
    subject,   \* which part the behaviour is about
    def,       \* the definition being validated
    round      \* the locals of Validate's loop

vars == <<subject, retryVars, fairVars, def, round>>

Unused == [kind |-> "fixed", base |-> 0]

NoRetry == retry = Unused /\ now = 0 /\ failures = 0 /\ delay = 0
NoDispatch == highStreak = 0 /\ bypassed = 0
NoDefinition == def = <<>> /\ round = FirstRound(<<>>)

Init ==
    \/ subject = "retry" /\ RetryInit /\ NoDispatch /\ NoDefinition
    \/ subject = "fairness" /\ FairInit /\ NoRetry /\ NoDefinition
    \/ /\ subject = "dag" /\ NoRetry /\ NoDispatch
       /\ def \in {d \in Definitions : ~Malformed(d)}
       /\ round = FirstRound(def)

FailAgain == subject = "retry" /\ Fail /\ UNCHANGED <<subject, fairVars, def, round>>

Dispatch == subject = "fairness" /\ FairNext /\ UNCHANGED <<subject, retryVars, def, round>>

Layer ==
    /\ subject = "dag" /\ round.frontier # {}
    /\ round' = Round(def, round)
    /\ UNCHANGED <<subject, retryVars, fairVars, def>>

Next == FailAgain \/ Dispatch \/ Layer

Spec == Init /\ [][Next]_vars

-----------------------------------------------------------------------------
DependsOn(i) == Range(def[Named(def, i)].dependencies)

\* What chains of dependencies lead to from i: the members of every set that
\* holds the dependencies of i and, with a node, those of the node.
Above(i) ==
    {j \in Ids(def) : \A U \in SUBSET Ids(def) :
        DependsOn(i) \subseteq U /\ (\A k \in U : DependsOn(k) \subseteq U) => j \in U}

\* While it layers, Validate puts a node exactly one layer after the last of
\* its dependencies, repeated dependencies included: layers start no node
\* before or later than it could.
LayersAreTight ==
    \A k \in DOMAIN round.layers : \A i \in round.layers[k] :
        /\ DependsOn(i) \subseteq UNION {round.layers[j] : j \in 1..(k - 1)}
        /\ k > 1 => DependsOn(i) \intersect round.layers[k - 1] # {}

\* Validate reports a cycle exactly for definitions that have one, and names
\* the nodes on cycles and those that depend on them; otherwise every node has
\* a layer ("absence of cycles").
CycleIffCyclic ==
    subject = "dag" =>
        LET stuck == {i \in Ids(def) : i \in Above(i) \/ \E j \in Above(i) : j \in Above(j)}
            v == Validate(def)
        IN  /\ (v.err = "cycle") = (stuck # {})
            /\ v.cycle = stuck
            /\ stuck = {} => UNION Range(v.layers) = Ids(def)
=============================================================================
