------------------------ MODULE DagValidateProofs ------------------------
(* Kahn's algorithm in rounds, for every definition: what the rounds keep,   *)
(* and that a definition Validate accepts has no cycle.                      *)
EXTENDS DagValidate, FiniteSetTheorems, WellFoundedInduction, TLAPS

\* Zenon proves the leaves that cite no other prover.
USE ZenonT(30)

\* Every non-empty set of naturals has a least member; inductions use it to
\* look at the first turn that breaks a claim.
LEMMA LeastNat ==
    ASSUME NEW T, T \subseteq Nat, T # {}
    PROVE  \E x \in T : \A y \in T : x <= y
  <1>1. \E x \in T : \A y \in T : ~ (<<y, x>> \in OpToRel(<, Nat))
    BY NatLessThanWellFounded, WFMin
  <1>2. ASSUME NEW x \in Nat, NEW y \in Nat, ~(<<y, x>> \in OpToRel(<, Nat)) PROVE x <= y
    <2>1. ~(y < x)
      BY <1>2 DEF OpToRel
    <2> QED BY SMTT(30), <2>1
  <1> QED BY <1>1, <1>2

\* A set without two different members.
LEMMA AtMostOne ==
    ASSUME NEW S, \A x, y \in S : x = y
    PROVE  Cardinality(S) <= 1
  <1>1. CASE S = {}
    BY SMTT(30), <1>1, FS_EmptySet
  <1>2. ASSUME NEW x \in S PROVE Cardinality(S) <= 1
    <2>1. S = {x}
      BY <1>2
    <2> QED BY SMTT(30), <2>1, FS_Singleton
  <1> QED BY <1>1, <1>2

\* f holds the locals of the loop before each of the first n + 1 turns.
IsRounds(def, f, n) ==
    f = [k \in 0..n |-> IF k = 0 THEN FirstRound(def) ELSE Round(def, f[k - 1])]

\* The recursive definition in LastRound has a solution ...
LEMMA RoundsExist ==
    ASSUME NEW def, NEW n \in Nat
    PROVE  \E f : IsRounds(def, f, n)
  <1> DEFINE T == {m \in Nat : ~\E f : IsRounds(def, f, m)}
  <1> SUFFICES ASSUME T # {} PROVE FALSE
    OBVIOUS
  <1>1. PICK m \in T : \A k \in T : m <= k
    BY LeastNat
  <1>2. m # 0
    <2>1. IsRounds(def, [k \in 0..0 |-> FirstRound(def)], 0)
      BY SMTT(30) DEF IsRounds
    <2> QED BY <2>1, <1>1
  <1>3. m - 1 \in Nat /\ m - 1 \notin T
    BY SMTT(30), <1>1, <1>2
  <1>4. PICK f : IsRounds(def, f, m - 1)
    BY <1>3
  <1> DEFINE g == [k \in 0..m |-> IF k = m THEN Round(def, f[m - 1]) ELSE f[k]]
  <1>5. IsRounds(def, g, m)
    <2> SUFFICES ASSUME NEW k \in 0..m PROVE g[k] = IF k = 0 THEN FirstRound(def) ELSE Round(def, g[k - 1])
      BY DEF IsRounds
    <2>1. CASE k = m
      BY SMTT(30), <2>1, <1>2, <1>1
    <2>2. CASE k # m
      BY SMTT(30), <2>2, <1>1, <1>2, <1>4 DEF IsRounds
    <2> QED BY <2>1, <2>2
  <1> QED BY <1>5, <1>1

\* ... and LastRound is its last value.
LEMMA LastOfRounds ==
    ASSUME NEW def, Len(def) \in Nat
    PROVE  \E f : IsRounds(def, f, Len(def)) /\ LastRound(def) = f[Len(def)]
  <1> DEFINE f == CHOOSE f : IsRounds(def, f, Len(def))
  <1>1. IsRounds(def, f, Len(def))
    BY RoundsExist
  <1>2. LastRound(def) = f[Len(def)]
    BY DEF LastRound, IsRounds
  <1> QED BY <1>1, <1>2

-----------------------------------------------------------------------------
\* A definition is a list of nodes with lists of dependencies.
Listed(def) ==
    /\ Len(def) \in Nat /\ DOMAIN def = 1..Len(def)
    /\ \A i \in DOMAIN def :
          /\ Len(def[i].dependencies) \in Nat
          /\ DOMAIN def[i].dependencies = 1..Len(def[i].dependencies)

\* The dependencies of a node, the positions of those not yet layered, and the
\* layered nodes.
List(def, id) == def[Named(def, id)].dependencies
Open(def, id, done) == {k \in DOMAIN List(def, id) : List(def, id)[k] \notin done}
Done(s) == UNION Range(s.layers)

\* Every non-empty set of the nodes S has a member that depends on none of it.
Grounded(def, S) ==
    \A U \in SUBSET S : U # {} => \E id \in U : Range(List(def, id)) \intersect U = {}

\* Each node stands exactly one layer after the last of its dependencies.
TightLayers(def, s) ==
    \A k \in DOMAIN s.layers : \A id \in s.layers[k] :
        /\ Range(List(def, id)) \subseteq UNION {s.layers[j] : j \in 1..(k - 1)}
        /\ k > 1 => Range(List(def, id)) \intersect s.layers[k - 1] # {}

\* indeg counts the dependencies not yet layered; a node is layered or in the
\* frontier exactly when none is left.
RoundInv(def, s) ==
    /\ Len(s.layers) \in Nat /\ DOMAIN s.layers = 1..Len(s.layers)
    /\ \A id \in Ids(def) : s.indeg[id] = Cardinality(Open(def, id, Done(s)))
    /\ Done(s) \subseteq {id \in Ids(def) : s.indeg[id] = 0}
    /\ s.frontier = {id \in Ids(def) : s.indeg[id] = 0} \ Done(s)
    /\ Grounded(def, {id \in Ids(def) : s.indeg[id] = 0})
    /\ TightLayers(def, s)
    /\ s.layers # <<>> =>
         \A id \in s.frontier : Range(List(def, id)) \intersect s.layers[Len(s.layers)] # {}

\* Lists have a length and finitely many positions.
LEMMA ListFacts ==
    ASSUME NEW def, Listed(def), NEW id \in Ids(def)
    PROVE  /\ Named(def, id) \in DOMAIN def
           /\ Len(List(def, id)) \in Nat
           /\ DOMAIN List(def, id) = 1..Len(List(def, id))
           /\ IsFiniteSet(DOMAIN List(def, id))
           /\ Cardinality(DOMAIN List(def, id)) = Len(List(def, id))
  <1>1. Named(def, id) \in DOMAIN def
    BY DEF Ids, Named
  <1>2. Len(List(def, id)) \in Nat /\ DOMAIN List(def, id) = 1..Len(List(def, id))
    BY <1>1 DEF Listed, List
  <1>3. ASSUME NEW n \in Nat PROVE IsFiniteSet(1..n) /\ Cardinality(1..n) = n
    <2>1. IsFiniteSet(1..n) /\ Cardinality(1..n) = IF 1 > n THEN 0 ELSE n - 1 + 1
      BY SMTT(30), FS_Interval
    <2> QED BY SMTT(30), <2>1
  <1> QED BY <1>1, <1>2, <1>3

\* No position is open exactly when all dependencies are layered.
LEMMA OpenFacts ==
    ASSUME NEW def, Listed(def), NEW id \in Ids(def), NEW done
    PROVE  /\ IsFiniteSet(Open(def, id, done))
           /\ Cardinality(Open(def, id, done)) \in Nat
           /\ Cardinality(Open(def, id, done)) = 0 <=> Range(List(def, id)) \subseteq done
           /\ Open(def, id, {}) = DOMAIN List(def, id)
  <1>1. IsFiniteSet(Open(def, id, done))
    <2>1. Open(def, id, done) \subseteq DOMAIN List(def, id)
      BY DEF Open
    <2> QED BY <2>1, ListFacts, FS_Subset
  <1>2. /\ Cardinality(Open(def, id, done)) \in Nat
        /\ Cardinality(Open(def, id, done)) = 0 <=> Open(def, id, done) = {}
    BY <1>1, FS_CardinalityType, FS_EmptySet
  <1>3. Open(def, id, done) = {} <=> Range(List(def, id)) \subseteq done
    BY DEF Open, Range
  <1>4. Open(def, id, {}) = DOMAIN List(def, id)
    BY DEF Open
  <1> QED BY <1>1, <1>2, <1>3, <1>4

\* What a layer takes off the count of a node.
LEMMA OpenLess ==
    ASSUME NEW def, Listed(def), NEW id \in Ids(def), NEW done, NEW layer, layer \intersect done = {}
    PROVE  /\ Cardinality(Open(def, id, done)) - Decrements(def, layer, id)
                = Cardinality(Open(def, id, done \union layer))
           /\ Decrements(def, layer, id) \in Nat
           /\ Range(List(def, id)) \intersect layer = {} => Decrements(def, layer, id) = 0
  <1> DEFINE hit == {k \in DOMAIN List(def, id) : List(def, id)[k] \in layer}
  <1>1. Decrements(def, layer, id) = Cardinality(hit)
    BY DEF Decrements, List
  <1>2. hit \intersect Open(def, id, done) = hit
    BY DEF Open
  <1>3. Open(def, id, done) \ hit = Open(def, id, done \union layer)
    BY DEF Open
  <1>4. IsFiniteSet(Open(def, id, done)) /\ IsFiniteSet(hit)
    <2>1. hit \subseteq DOMAIN List(def, id)
      OBVIOUS
    <2> QED BY <2>1, ListFacts, OpenFacts, FS_Subset
  <1>5. Cardinality(Open(def, id, done) \ hit)
          = Cardinality(Open(def, id, done)) - Cardinality(Open(def, id, done) \intersect hit)
    BY <1>4, FS_Difference
  <1>6. Cardinality(hit) \in Nat
    BY <1>4, FS_CardinalityType
  <1>7. Range(List(def, id)) \intersect layer = {} => hit = {}
    BY DEF Range
  <1>8. Open(def, id, done) \intersect hit = hit
    BY <1>2
  <1> HIDE DEF hit
  <1> QED BY <1>1, <1>3, <1>5, <1>6, <1>7, <1>8, FS_EmptySet

\* Before the first turn nothing is layered.
LEMMA FirstRoundInv ==
    ASSUME NEW def, Listed(def)
    PROVE  RoundInv(def, FirstRound(def))
  <1> DEFINE s == FirstRound(def)
  <1>1. /\ s.layers = <<>> /\ s.indeg = InDegrees(def)
        /\ s.frontier = {id \in Ids(def) : s.indeg[id] = 0}
    BY DEF FirstRound
  <1>2. Done(s) = {}
    BY SMTT(30), <1>1 DEF Done, Range
  <1>3. \A id \in Ids(def) : s.indeg[id] = Cardinality(Open(def, id, Done(s)))
    BY SMTT(30), <1>1, <1>2, OpenFacts, ListFacts DEF InDegrees, List
  <1> HIDE DEF s
  <1>4. \A id \in Ids(def) : s.indeg[id] = 0 => Range(List(def, id)) = {}
    BY <1>2, <1>3, OpenFacts
  <1>5. Grounded(def, {id \in Ids(def) : s.indeg[id] = 0})
    BY <1>4 DEF Grounded
  <1>6. TightLayers(def, s)
    BY SMTT(30), <1>1 DEF TightLayers
  <1> QED BY SMTT(30), <1>1, <1>2, <1>3, <1>5, <1>6 DEF RoundInv, s

\* A set grounded in layers stays so when nodes that only depend on it are added.
LEMMA GroundedGrows ==
    ASSUME NEW def, NEW S, NEW R, Grounded(def, S),
           \A id \in S : Range(List(def, id)) \subseteq S,
           \A id \in R : Range(List(def, id)) \subseteq S
    PROVE  Grounded(def, S \union R)
  <1> SUFFICES ASSUME NEW U \in SUBSET (S \union R), U # {}
               PROVE  \E id \in U : Range(List(def, id)) \intersect U = {}
    BY DEF Grounded
  <1>1. CASE U \intersect S = {}
    BY <1>1
  <1>2. CASE U \intersect S # {}
    <2>1. PICK id \in U \intersect S : Range(List(def, id)) \intersect (U \intersect S) = {}
      BY <1>2 DEF Grounded
    <2> QED BY <2>1
  <1> QED BY <1>1, <1>2

\* A turn layers the frontier and frees the nodes it was the last to hold up.
LEMMA RoundKeepsInv ==
    ASSUME NEW def, Listed(def), NEW s, RoundInv(def, s)
    PROVE  RoundInv(def, Round(def, s))
  <1> SUFFICES ASSUME NEW t, t = Round(def, s) PROVE RoundInv(def, t)
    OBVIOUS
  <1> DEFINE zero == {id \in Ids(def) : s.indeg[id] = 0}
             zero2 == {id \in Ids(def) : t.indeg[id] = 0}
  <1>1. CASE s.frontier = {}
    BY <1>1 DEF Round
  <1>2. CASE s.frontier # {}
    <2>1. /\ t.layers = Append(s.layers, s.frontier)
          /\ \A id \in Ids(def) : t.indeg[id] = s.indeg[id] - Decrements(def, s.frontier, id)
          /\ t.frontier = {id \in Ids(def) : s.indeg[id] > 0 /\ t.indeg[id] = 0}
      BY <1>2 DEF Round
    <2>2. /\ Len(s.layers) \in Nat /\ DOMAIN s.layers = 1..Len(s.layers)
          /\ \A id \in Ids(def) : s.indeg[id] = Cardinality(Open(def, id, Done(s)))
          /\ Done(s) \subseteq zero
          /\ s.frontier = zero \ Done(s)
          /\ Grounded(def, zero) /\ TightLayers(def, s)
          /\ s.layers # <<>> =>
               \A id \in s.frontier : Range(List(def, id)) \intersect s.layers[Len(s.layers)] # {}
      BY DEF RoundInv
    <2>3. /\ Len(t.layers) = Len(s.layers) + 1 /\ DOMAIN t.layers = 1..Len(t.layers)
          /\ t.layers[Len(t.layers)] = s.frontier
          /\ \A k \in DOMAIN s.layers : t.layers[k] = s.layers[k]
      BY SMTT(30), <2>1, <2>2
    <2>4. Done(t) = Done(s) \union s.frontier
      <3>1. Range(t.layers) = Range(s.layers) \union {s.frontier}
        <4>1. DOMAIN t.layers = DOMAIN s.layers \union {Len(t.layers)}
          BY SMTT(30), <2>2, <2>3
        <4> QED BY SMTT(30), <2>3, <4>1 DEF Range
      <3> QED BY <3>1 DEF Done
    <2>5. Done(t) = zero
      BY <2>2, <2>4
    <2>6. \A id \in Ids(def) :
            /\ t.indeg[id] = Cardinality(Open(def, id, Done(t)))
            /\ Decrements(def, s.frontier, id) \in Nat
            /\ Range(List(def, id)) \intersect s.frontier = {} => Decrements(def, s.frontier, id) = 0
      <3> SUFFICES ASSUME NEW id \in Ids(def)
                   PROVE  /\ t.indeg[id] = Cardinality(Open(def, id, Done(t)))
                          /\ Decrements(def, s.frontier, id) \in Nat
                          /\ Range(List(def, id)) \intersect s.frontier = {}
                               => Decrements(def, s.frontier, id) = 0
        OBVIOUS
      <3>1. s.frontier \intersect Done(s) = {}
        BY <2>2
      <3>2. /\ Cardinality(Open(def, id, Done(s))) - Decrements(def, s.frontier, id)
                 = Cardinality(Open(def, id, Done(s) \union s.frontier))
            /\ Decrements(def, s.frontier, id) \in Nat
            /\ Range(List(def, id)) \intersect s.frontier = {} => Decrements(def, s.frontier, id) = 0
        BY <3>1, OpenLess
      <3>3. /\ s.indeg[id] = Cardinality(Open(def, id, Done(s)))
            /\ t.indeg[id] = s.indeg[id] - Decrements(def, s.frontier, id)
        BY <2>1, <2>2
      <3> QED BY <2>4, <3>2, <3>3
    <2>7. \A id \in Ids(def) :
            /\ s.indeg[id] \in Nat /\ t.indeg[id] \in Nat
            /\ s.indeg[id] = 0 <=> Range(List(def, id)) \subseteq Done(s)
            /\ t.indeg[id] = 0 <=> Range(List(def, id)) \subseteq zero
      <3> SUFFICES ASSUME NEW id \in Ids(def)
                   PROVE  /\ s.indeg[id] \in Nat /\ t.indeg[id] \in Nat
                          /\ s.indeg[id] = 0 <=> Range(List(def, id)) \subseteq Done(s)
                          /\ t.indeg[id] = 0 <=> Range(List(def, id)) \subseteq zero
        OBVIOUS
      <3>1. /\ s.indeg[id] = Cardinality(Open(def, id, Done(s)))
            /\ t.indeg[id] = Cardinality(Open(def, id, zero))
        BY <2>2, <2>5, <2>6
      <3> HIDE DEF zero
      <3>2. /\ Cardinality(Open(def, id, Done(s))) \in Nat
            /\ Cardinality(Open(def, id, Done(s))) = 0 <=> Range(List(def, id)) \subseteq Done(s)
        BY OpenFacts
      <3>3. /\ Cardinality(Open(def, id, zero)) \in Nat
            /\ Cardinality(Open(def, id, zero)) = 0 <=> Range(List(def, id)) \subseteq zero
        BY OpenFacts
      <3> QED BY <3>1, <3>2, <3>3
    <2>8. zero \subseteq zero2
      BY <2>5, <2>7, <2>2
    <2>9. t.frontier = zero2 \ Done(t)
      BY SMTT(30), <2>1, <2>5, <2>7
    <2>10. Grounded(def, zero2)
      <3>1. \A id \in zero : Range(List(def, id)) \subseteq zero
        BY <2>2, <2>7
      <3>2. \A id \in zero2 : Range(List(def, id)) \subseteq zero
        BY <2>7
      <3>3. Grounded(def, zero \union zero2)
        BY <2>2, <3>1, <3>2, GroundedGrows
      <3>4. zero \union zero2 = zero2
        BY <2>8
      <3> QED BY <3>3, <3>4
    <2>11. \A id \in t.frontier : Range(List(def, id)) \intersect s.frontier # {}
      <3> SUFFICES ASSUME NEW id \in t.frontier, Range(List(def, id)) \intersect s.frontier = {} PROVE FALSE
        OBVIOUS
      <3>1. id \in Ids(def) /\ s.indeg[id] > 0 /\ t.indeg[id] = 0
        BY <2>1
      <3>2. Decrements(def, s.frontier, id) = 0
        BY <2>6, <3>1
      <3> QED BY SMTT(30), <2>1, <2>7, <3>1, <3>2
    <2>12. TightLayers(def, t)
      <3> SUFFICES ASSUME NEW k \in DOMAIN t.layers, NEW id \in t.layers[k]
                   PROVE  /\ Range(List(def, id)) \subseteq UNION {t.layers[j] : j \in 1..(k - 1)}
                          /\ k > 1 => Range(List(def, id)) \intersect t.layers[k - 1] # {}
        BY DEF TightLayers
      <3>1. UNION {t.layers[j] : j \in 1..(k - 1)} = UNION {s.layers[j] : j \in 1..(k - 1)}
        <4>1. \A j \in 1..(k - 1) : t.layers[j] = s.layers[j]
          BY SMTT(30), <2>2, <2>3
        <4> QED BY <4>1
      <3>2. CASE k \in DOMAIN s.layers
        <4>1. k > 1 => k - 1 \in DOMAIN s.layers
          BY SMTT(30), <3>2, <2>2
        <4>2. id \in s.layers[k] /\ (k > 1 => t.layers[k - 1] = s.layers[k - 1])
          BY <3>2, <4>1, <2>3
        <4>3. /\ Range(List(def, id)) \subseteq UNION {s.layers[j] : j \in 1..(k - 1)}
              /\ k > 1 => Range(List(def, id)) \intersect s.layers[k - 1] # {}
          BY <3>2, <4>2, <2>2 DEF TightLayers
        <4> QED BY <3>1, <4>2, <4>3
      <3>3. CASE k \notin DOMAIN s.layers
        <4>1. k = Len(s.layers) + 1 /\ id \in s.frontier
          BY SMTT(30), <2>2, <2>3, <3>3
        <4>2. Range(List(def, id)) \subseteq Done(s) /\ Done(s) = UNION {s.layers[j] : j \in 1..(k - 1)}
          <5>1. Range(s.layers) = {s.layers[j] : j \in 1..(k - 1)}
            BY SMTT(30), <2>2, <4>1 DEF Range
          <5> QED BY <5>1, <4>1, <2>2, <2>7 DEF Done
        <4>3. k > 1 => t.layers[k - 1] = s.layers[Len(s.layers)] /\ s.layers # <<>>
          BY SMTT(30), <4>1, <2>2, <2>3
        <4> QED BY <4>1, <4>2, <4>3, <3>1, <2>2
      <3> QED BY <3>2, <3>3
    <2>13. Done(t) \subseteq zero2
      BY <2>5, <2>8
    <2>14. Len(t.layers) \in Nat /\ t.layers[Len(t.layers)] = s.frontier
      BY SMTT(30), <2>2, <2>3
    <2> QED
      BY <2>3, <2>6, <2>9, <2>10, <2>11, <2>12, <2>13, <2>14 DEF RoundInv
  <1> QED BY <1>1, <1>2

\* Every turn up to the last keeps the invariant.
LEMMA RoundsKeepInv ==
    ASSUME NEW def, Listed(def), NEW f, IsRounds(def, f, Len(def))
    PROVE  \A k \in 0..Len(def) : RoundInv(def, f[k])
  <1> DEFINE T == {k \in 0..Len(def) : ~RoundInv(def, f[k])}
  <1> SUFFICES ASSUME T # {} PROVE FALSE
    OBVIOUS
  <1>1. Len(def) \in Nat
    BY DEF Listed
  <1>2. PICK m \in T : \A k \in T : m <= k
    <2>1. T \subseteq Nat
      BY SMTT(30), <1>1
    <2> QED BY <2>1, LeastNat
  <1>3. f[m] = IF m = 0 THEN FirstRound(def) ELSE Round(def, f[m - 1])
    BY <1>2 DEF IsRounds
  <1>4. m # 0 => m - 1 \in 0..Len(def) /\ RoundInv(def, f[m - 1])
    BY SMTT(30), <1>1, <1>2
  <1>5. RoundInv(def, f[m])
    BY <1>3, <1>4, FirstRoundInv, RoundKeepsInv
  <1> QED BY <1>2, <1>5

\* So it holds when the loop has ended.
LEMMA LastRoundInv ==
    ASSUME NEW def, Listed(def)
    PROVE  RoundInv(def, LastRound(def))
  <1>1. Len(def) \in Nat
    BY DEF Listed
  <1>2. PICK f : IsRounds(def, f, Len(def)) /\ LastRound(def) = f[Len(def)]
    BY <1>1, LastOfRounds
  <1> QED BY SMTT(30), <1>1, <1>2, RoundsKeepInv

\* A definition Validate accepts has no cycle: every set of its nodes has a
\* member none of whose dependencies is in the set.
LEMMA AcceptedIsGrounded ==
    ASSUME NEW def, Listed(def), Validate(def).err = "none"
    PROVE  Grounded(def, Ids(def))
  <1>1. Residual(def) = {}
    BY DEF Validate, Verdict
  <1>2. RoundInv(def, LastRound(def))
    BY LastRoundInv
  <1>3. \A id \in Ids(def) : LastRound(def).indeg[id] = 0
    BY SMTT(30), <1>1, <1>2, OpenFacts DEF Residual, RoundInv
  <1>4. {id \in Ids(def) : LastRound(def).indeg[id] = 0} = Ids(def)
    BY <1>3
  <1> QED BY <1>2, <1>4 DEF RoundInv
=============================================================================
