----------------------------- MODULE DagValidate -----------------------------
(***************************************************************************)
(* internal/orchestration/validate.go: Kahn's algorithm in rounds.  A      *)
(* definition is a sequence of records [id, dependencies]; dependencies is *)
(* a sequence, in which a name may be repeated, unknown or the node's own. *)
(* Layers are sets: the code only sorts them.                              *)
(***************************************************************************)
EXTENDS Integers, Sequences, FiniteSets, Functions

CONSTANT NoId   \* the empty string

Ids(def) == {def[i].id : i \in DOMAIN def}

\* The cases of ValidationError.
Malformed(def) ==
    \/ def = <<>>
    \/ NoId \in Ids(def)
    \/ \E i, j \in DOMAIN def : i # j /\ def[i].id = def[j].id
    \/ \E i \in DOMAIN def : ~(Range(def[i].dependencies) \subseteq Ids(def))

Named(def, id) == CHOOSE i \in DOMAIN def : def[i].id = id

\* Mutant: a repeated dependency is counted once here, once per entry below.
DistinctDependencies(def) ==
    [id \in Ids(def) |-> Cardinality(Range(def[Named(def, id)].dependencies))]

\* indeg before the first round: one per entry, repetitions included.
InDegrees(def) == [id \in Ids(def) |-> Len(def[Named(def, id)].dependencies)]

\* How often id occurs in the children lists of the nodes of a layer.
Decrements(def, layer, id) ==
    Cardinality({k \in DOMAIN def[Named(def, id)].dependencies :
                   def[Named(def, id)].dependencies[k] \in layer})

\* Mutant: the next frontier is collected in the slice of the layer.
RoundInPlace(def, s) ==
    LET left == [id \in Ids(def) |-> s.indeg[id] - Decrements(def, s.frontier, id)]
        freed == {id \in Ids(def) : s.indeg[id] > 0 /\ left[id] = 0}
    IN  IF s.frontier = {} THEN s
        ELSE [indeg |-> left, frontier |-> freed,
              layers |-> Append(s.layers, s.frontier \union freed)]

\* One turn of the loop over frontiers; without a frontier the loop has ended.
Round(def, s) ==
    LET left == [id \in Ids(def) |-> s.indeg[id] - Decrements(def, s.frontier, id)]
    IN  IF s.frontier = {} THEN s
        ELSE [indeg |-> left,
              frontier |-> {id \in Ids(def) : s.indeg[id] > 0 /\ left[id] = 0},
              layers |-> Append(s.layers, s.frontier)]

FirstRound(def) ==
    [indeg |-> InDegrees(def),
     frontier |-> {id \in Ids(def) : InDegrees(def)[id] = 0},
     layers |-> <<>>]

\* Each turn consumes a node, so Len(def) turns reach the end of the loop.
LastRound(def) ==
    LET after[k \in 0..Len(def)] ==
            IF k = 0 THEN FirstRound(def) ELSE Round(def, after[k - 1])
    IN  after[Len(def)]

Residual(def) == {id \in Ids(def) : LastRound(def).indeg[id] > 0}

Verdict(err, layers, cycle) == [err |-> err, layers |-> layers, cycle |-> cycle]

Validate(def) ==
    IF Malformed(def) THEN Verdict("malformed", <<>>, {})
    ELSE IF Residual(def) # {} THEN Verdict("cycle", <<>>, Residual(def))
    ELSE Verdict("none", LastRound(def).layers, {})
=============================================================================
