-------------------------- MODULE AlgorithmsProofs --------------------------
(* The pure parts of the backend for every parameter: the fairness bound,    *)
(* the layers and cycles of a DAG, the search of a cron schedule on every    *)
(* calendar, exponential backoff.                                            *)
EXTENDS Algorithms, DagValidateProofs, TLAPS

\* Zenon proves the leaves that cite no other prover.
USE ZenonT(30)

-----------------------------------------------------------------------------
(* The fairness bound for every watermark.                                   *)

\* Min picks a member of every non-empty set of ranks.
LEMMA MinRank == ASSUME NEW S \in SUBSET Rank, S # {} PROVE Min(S) \in S
<1>1. PICK x \in S : \A y \in S : x <= y
  <2>1. S \subseteq {0, 1, 2, 3, 4}
    BY SMTT(30) DEF Rank
  <2>2. CASE 0 \in S
    BY SMTT(30), <2>1, <2>2
  <2>3. CASE 0 \notin S /\ 1 \in S
    BY SMTT(30), <2>1, <2>3
  <2>4. CASE 0 \notin S /\ 1 \notin S /\ 2 \in S
    BY SMTT(30), <2>1, <2>4
  <2>5. CASE 0 \notin S /\ 1 \notin S /\ 2 \notin S /\ 3 \in S
    BY SMTT(30), <2>1, <2>5
  <2>6. CASE 0 \notin S /\ 1 \notin S /\ 2 \notin S /\ 3 \notin S
    <3>1. 4 \in S /\ \A y \in S : y = 4
      BY <2>1, <2>6
    <3> QED BY SMTT(30), <3>1
  <2> QED BY <2>2, <2>3, <2>4, <2>5, <2>6
<1> QED BY <1>1 DEF Min

\* Runnable Low or Bulk work is chosen once the streak stands at the watermark,
\* and the streak is only reset when there is none.
LEMMA ChoiceWithLow ==
    ASSUME NEW avail \in SUBSET Rank, NEW q \in avail, q >= PriorityLow,
           NEW streak \in Nat, streak <= HighWatermark
    PROVE  /\ choosePriority(avail, streak) \in Rank
           /\ choosePriority(avail, streak) < PriorityLow => streak < HighWatermark
           /\ StreakAfterChoice(avail, streak) = streak
<1>1. q \in Rank
  OBVIOUS
<1>2. CASE streak >= HighWatermark
  <2>1. Forced(avail, streak) = {p \in avail : p >= PriorityLow}
    BY <1>2 DEF Forced
  <2>2. q \in Forced(avail, streak) /\ Forced(avail, streak) \in SUBSET Rank
    BY <2>1
  <2>3. choosePriority(avail, streak) \in Forced(avail, streak)
    BY <2>2, MinRank DEF choosePriority
  <2>4. choosePriority(avail, streak) \in Rank /\ choosePriority(avail, streak) >= PriorityLow
    BY <2>1, <2>3
  <2> QED BY SMTT(30), <2>2, <2>4 DEF StreakAfterChoice, Rank, PriorityLow
<1>3. CASE ~(streak >= HighWatermark)
  <2>1. Forced(avail, streak) = {}
    BY <1>3 DEF Forced
  <2>2. choosePriority(avail, streak) \in Rank
    BY <2>1, MinRank DEF choosePriority
  <2> QED BY SMTT(30), <1>3, <2>1, <2>2, WatermarkAssumption DEF StreakAfterChoice
<1> QED BY <1>2, <1>3

\* Without it the streak stays a natural number within the watermark.
LEMMA ChoiceWithoutLow ==
    ASSUME NEW avail \in SUBSET Rank, avail # {}, \A q \in avail : q < PriorityLow,
           NEW streak \in Nat, streak <= HighWatermark
    PROVE  /\ StreakAfterChoice(avail, streak) \in Nat
           /\ StreakAfterChoice(avail, streak) < HighWatermark
<1>1. ASSUME streak >= HighWatermark PROVE Forced(avail, streak) = {}
  <2>1. \A q \in avail : ~(q >= PriorityLow)
    BY SMTT(30) DEF Rank, PriorityLow
  <2> QED BY <2>1 DEF Forced
<1> QED BY SMTT(30), <1>1, WatermarkAssumption DEF StreakAfterChoice

\* Every delivery counted as a bypass was also counted by the streak, which
\* never passes the watermark.
FairInv == highStreak \in Nat /\ bypassed \in Nat /\ bypassed <= highStreak /\ highStreak <= HighWatermark

LEMMA FairStep == FairInv /\ [FairNext]_fairVars => FairInv'
<1> SUFFICES ASSUME FairInv, FairNext PROVE FairInv'
  BY DEF FairInv, fairVars
<1>1. PICK avail \in (SUBSET Rank) \ {{}}, delivered \in BOOLEAN : DispatchOne(avail, delivered)
  BY DEF FairNext
<1> DEFINE p == choosePriority(avail, highStreak)
           s == StreakAfterChoice(avail, highStreak)
<1>2. /\ highStreak' = IF delivered THEN notePop(p, s) ELSE s
      /\ bypassed' = IF \A q \in avail : q < PriorityLow THEN 0
                     ELSE IF ~delivered THEN bypassed
                     ELSE IF p < PriorityLow THEN bypassed + 1 ELSE 0
  BY <1>1 DEF DispatchOne
<1>3. CASE \A q \in avail : q < PriorityLow
  <2>1. s \in Nat /\ s < HighWatermark
    BY <1>3, ChoiceWithoutLow DEF FairInv
  <2> QED BY SMTT(30), <1>2, <1>3, <2>1, WatermarkAssumption DEF FairInv, notePop
<1>4. CASE \E q \in avail : ~(q < PriorityLow)
  <2>1. PICK q \in avail : q >= PriorityLow
    BY SMTT(30), <1>4 DEF Rank, PriorityLow
  <2>2. p \in Rank /\ (p < PriorityLow => highStreak < HighWatermark) /\ s = highStreak
    BY <2>1, ChoiceWithLow DEF FairInv
  <2> QED BY SMTT(30), <1>2, <1>4, <2>2, WatermarkAssumption DEF FairInv, notePop
<1> QED BY <1>3, <1>4

\* Whatever work comes and goes and whatever dispatches fail, Low or Bulk work
\* that can run is passed over by at most HighWatermark deliveries
\* (choosePriority and notePop of the scheduler).
THEOREM LowIsServed == FairSpec => []BoundedBypass
<1>1. FairInit => FairInv
  BY SMTT(30), WatermarkAssumption DEF FairInit, FairInv
<1>2. FairInv => BoundedBypass
  BY SMTT(30), WatermarkAssumption DEF FairInv, BoundedBypass
<1> QED BY <1>1, <1>2, FairStep, PTL DEF FairSpec

-----------------------------------------------------------------------------
(* The layers of a DAG.                                                      *)

\* What is validated is a list, and the rounds keep their invariant on it.
LayerInv == Listed(def) /\ RoundInv(def, round)

LEMMA DefinitionsAreLists == \A d \in Definitions \union {<<>>} : Listed(d)
  <1>1. ASSUME NEW d \in Definitions PROVE Listed(d)
    BY SMTT(30), DefinitionAssumption DEF Listed, Range
  <1>2. Listed(<<>>)
    BY SMTT(30) DEF Listed
  <1> QED
    BY <1>1, <1>2

LEMMA LayerInit == Init => LayerInv
  <1>1. Init => def \in Definitions \union {<<>>} /\ round = FirstRound(def)
    BY DEF Init, NoDefinition
  <1> QED
    BY <1>1, DefinitionsAreLists, FirstRoundInv DEF LayerInv

LEMMA LayerStep == LayerInv /\ [Next]_vars => LayerInv'
  <1> SUFFICES ASSUME LayerInv, [Next]_vars PROVE LayerInv'
    OBVIOUS
  <1>1. def' = def /\ (round' = round \/ round' = Round(def, round))
    BY DEF Next, FailAgain, Dispatch, Layer, vars
  <1> QED
    BY <1>1, RoundKeepsInv DEF LayerInv

\* Whatever the definition, a node is layered exactly one layer after the last
\* of its dependencies, repeated ones included (the loop over frontiers in
\* Validate).
THEOREM LayersTight == Spec => []LayersAreTight
  <1>1. LayerInv => LayersAreTight
    BY DEF LayerInv, RoundInv, TightLayers, LayersAreTight, DependsOn, List
  <1> QED
    BY <1>1, LayerInit, LayerStep, PTL DEF Spec

-----------------------------------------------------------------------------
(* Cycles.                                                                   *)

\* A proper part has fewer members.
LEMMA FewerInPart ==
    ASSUME NEW S, IsFiniteSet(S), NEW T, T \subseteq S, T # S
    PROVE  Cardinality(T) < Cardinality(S)
  <1>1. T \in SUBSET S
    OBVIOUS
  <1>2. IsFiniteSet(T) /\ Cardinality(T) <= Cardinality(S) /\ Cardinality(S) # Cardinality(T)
    BY <1>1, FS_Subset
  <1>3. Cardinality(T) \in Nat /\ Cardinality(S) \in Nat
    BY <1>2, FS_CardinalityType
  <1> QED BY SMTT(30), <1>2, <1>3

\* A turn layers at least one more node.
LEMMA RoundAdvances ==
    ASSUME NEW d, Listed(d), IsFiniteSet(Ids(d)), NEW s, RoundInv(d, s), s.frontier # {}
    PROVE  /\ Done(s) \union s.frontier \subseteq Ids(d)
           /\ Done(Round(d, s)) = Done(s) \union s.frontier
           /\ IsFiniteSet(Done(s)) /\ IsFiniteSet(Done(s) \union s.frontier)
           /\ Cardinality(Done(s)) \in Nat /\ Cardinality(Done(s) \union s.frontier) \in Nat
           /\ Cardinality(Done(s)) < Cardinality(Done(s) \union s.frontier)
  <1>1. /\ Len(s.layers) \in Nat /\ DOMAIN s.layers = 1..Len(s.layers)
        /\ Done(s) \union s.frontier \subseteq Ids(d) /\ s.frontier \intersect Done(s) = {}
    BY DEF RoundInv
  <1>2. Done(Round(d, s)) = Done(s) \union s.frontier
    <2> DEFINE t == Append(s.layers, s.frontier)
    <2>1. Round(d, s).layers = t
      BY DEF Round
    <2>2. /\ Len(t) = Len(s.layers) + 1 /\ DOMAIN t = DOMAIN s.layers \union {Len(s.layers) + 1}
          /\ t[Len(s.layers) + 1] = s.frontier
          /\ \A k \in DOMAIN s.layers : t[k] = s.layers[k]
      BY SMTT(30), <1>1
    <2>3. Range(t) = Range(s.layers) \union {s.frontier}
      BY <2>2 DEF Range
    <2> QED BY <2>1, <2>3 DEF Done
  <1>3. IsFiniteSet(Done(s) \union s.frontier) /\ IsFiniteSet(Done(s))
    <2>1. Done(s) \subseteq Ids(d)
      BY <1>1
    <2> QED BY <1>1, <2>1, FS_Subset
  <1>4. Cardinality(Done(s)) \in Nat /\ Cardinality(Done(s) \union s.frontier) \in Nat
    BY <1>3, FS_CardinalityType
  <1>5. Cardinality(Done(s)) < Cardinality(Done(s) \union s.frontier)
    <2>1. Done(s) \subseteq Done(s) \union s.frontier /\ Done(s) # Done(s) \union s.frontier
      BY <1>1
    <2> QED BY <1>3, <2>1, FewerInPart
  <1> QED BY <1>1, <1>2, <1>3, <1>4, <1>5

\* A definition names at most as many nodes as it has entries.
LEMMA FinitelyMany ==
    ASSUME NEW d, Listed(d)
    PROVE  IsFiniteSet(Ids(d)) /\ Cardinality(Ids(d)) \in Nat /\ Cardinality(Ids(d)) <= Len(d)
  <1> DEFINE g == [i \in 1..Len(d) |-> d[i].id]
  <1>1. Len(d) \in Nat /\ DOMAIN d = 1..Len(d)
    BY DEF Listed
  <1>2. IsFiniteSet(1..Len(d)) /\ Cardinality(1..Len(d)) = Len(d)
    <2>1. IsFiniteSet(1..Len(d)) /\ Cardinality(1..Len(d)) = IF 1 > Len(d) THEN 0 ELSE Len(d) - 1 + 1
      BY SMTT(30), <1>1, FS_Interval
    <2> QED BY SMTT(30), <1>1, <2>1
  <1>3. g \in Surjection(1..Len(d), Ids(d))
    BY <1>1 DEF Ids, Surjection
  <1> HIDE DEF g
  <1>4. IsFiniteSet(Ids(d)) /\ Cardinality(Ids(d)) <= Cardinality(1..Len(d))
    BY <1>2, <1>3, FS_Surjection
  <1> QED BY <1>2, <1>4, FS_CardinalityType

\* After Len(d) turns no frontier is left.
LEMMA LoopEnds ==
    ASSUME NEW d, Listed(d)
    PROVE  LastRound(d).frontier = {}
  <1>1. Len(d) \in Nat
    BY DEF Listed
  <1>2. PICK f : IsRounds(d, f, Len(d)) /\ LastRound(d) = f[Len(d)]
    BY <1>1, LastOfRounds
  <1>3. \A k \in 0..Len(d) : RoundInv(d, f[k])
    BY <1>2, RoundsKeepInv
  <1>4. IsFiniteSet(Ids(d)) /\ Cardinality(Ids(d)) \in Nat /\ Cardinality(Ids(d)) <= Len(d)
    BY FinitelyMany
  <1> DEFINE T == {k \in 0..Len(d) : f[k].frontier # {} /\ ~(Cardinality(Done(f[k])) >= k)}
  <1>5. T = {}
    <2> SUFFICES ASSUME T # {} PROVE FALSE
      OBVIOUS
    <2>1. PICK m \in T : \A k \in T : m <= k
      <3>1. T \subseteq Nat
        BY SMTT(30), <1>1
      <3> QED BY <3>1, LeastNat
    <2>2. m \in Nat /\ m \in 0..Len(d) /\ f[m].frontier # {} /\ ~(Cardinality(Done(f[m])) >= m)
      BY SMTT(30), <1>1, <2>1
    <2>3. Cardinality(Done(f[m])) \in Nat
      BY <1>3, <1>4, <2>2, RoundAdvances
    <2>4. m # 0
      BY SMTT(30), <2>2, <2>3
    <2> DEFINE n == m - 1
    <2>a. n \in Nat /\ n \in 0..Len(d) /\ n + 1 = m /\ ~(m <= n)
      BY SMTT(30), <1>1, <2>2, <2>4
    <2>b. f[m] = Round(d, f[n])
      BY <1>2, <2>2, <2>4 DEF IsRounds
    <2> HIDE DEF n
    <2>c. n \notin T
      BY <2>1, <2>a
    <2>5. n \in Nat /\ n \in 0..Len(d) /\ n + 1 = m /\ n \notin T /\ f[m] = Round(d, f[n])
      BY <2>a, <2>b, <2>c
    <2>6. f[n].frontier # {}
      BY <2>2, <2>5 DEF Round
    <2>7. Cardinality(Done(f[n])) >= n
      BY <2>5, <2>6
    <2>8. /\ Cardinality(Done(f[n])) \in Nat
          /\ Done(f[m]) = Done(f[n]) \union f[n].frontier
          /\ Cardinality(Done(f[n])) < Cardinality(Done(f[n]) \union f[n].frontier)
      BY <1>3, <1>4, <2>5, <2>6, RoundAdvances
    <2> QED BY SMTT(30), <2>2, <2>3, <2>5, <2>7, <2>8
  <1>6. ASSUME f[Len(d)].frontier # {} PROVE FALSE
    <2> DEFINE s == f[Len(d)]
    <2>1. Cardinality(Done(s)) >= Len(d)
      BY SMTT(30), <1>1, <1>5, <1>6
    <2>2. /\ Done(s) \union s.frontier \subseteq Ids(d)
          /\ Cardinality(Done(s)) \in Nat /\ Cardinality(Done(s) \union s.frontier) \in Nat
          /\ Cardinality(Done(s)) < Cardinality(Done(s) \union s.frontier)
      <3>1. Len(d) \in 0..Len(d)
        BY SMTT(30), <1>1
      <3> QED BY <1>3, <1>4, <1>6, <3>1, RoundAdvances
    <2>3. Cardinality(Done(s) \union s.frontier) <= Cardinality(Ids(d))
      BY <1>4, <2>2, FS_Subset
    <2> QED BY SMTT(30), <1>1, <1>4, <2>1, <2>2, <2>3
  <1> QED BY <1>2, <1>6

\* What is left has a dependency that is left.
LEMMA ResidualFacts ==
    ASSUME NEW d, Listed(d), ~Malformed(d)
    PROVE  /\ Residual(d) = Ids(d) \ Done(LastRound(d))
           /\ Done(LastRound(d)) \subseteq Ids(d)
           /\ \A id \in Residual(d) : Range(List(d, id)) \intersect Residual(d) # {}
           /\ \A id \in Ids(d) : Range(List(d, id)) \subseteq Ids(d)
  <1> DEFINE s == LastRound(d)
  <1>1. RoundInv(d, s) /\ s.frontier = {}
    BY LastRoundInv, LoopEnds
  <1> HIDE DEF s
  <1>2. Done(s) = {id \in Ids(d) : s.indeg[id] = 0}
    BY <1>1 DEF RoundInv
  <1>3. ASSUME NEW id \in Ids(d)
        PROVE  s.indeg[id] \in Nat /\ (s.indeg[id] = 0 <=> Range(List(d, id)) \subseteq Done(s))
    BY SMTT(30), <1>1, OpenFacts DEF RoundInv
  <1>4. ASSUME NEW id \in Ids(d) PROVE Range(List(d, id)) \subseteq Ids(d)
    <2>1. Named(d, id) \in DOMAIN d
      BY ListFacts
    <2> QED BY <2>1 DEF Malformed, List
  <1>5. Residual(d) = {id \in Ids(d) : s.indeg[id] > 0}
    BY DEF Residual, s
  <1>6. Residual(d) = Ids(d) \ Done(s)
    BY SMTT(30), <1>2, <1>3, <1>5
  <1>7. \A id \in Residual(d) : Range(List(d, id)) \intersect Residual(d) # {}
    BY <1>2, <1>3, <1>4, <1>6
  <1> QED BY <1>2, <1>4, <1>6, <1>7 DEF s

\* What the chains of dependencies of id reach, and what is on a cycle or
\* depends on one.
Reach(d, id) ==
    {j \in Ids(d) : \A U \in SUBSET Ids(d) :
        Range(List(d, id)) \subseteq U /\ (\A k \in U : Range(List(d, k)) \subseteq U) => j \in U}
Stuck(d) == {i \in Ids(d) : i \in Reach(d, i) \/ \E j \in Reach(d, i) : j \in Reach(d, j)}

\* They reach the dependencies, and what those reach.
LEMMA ReachFacts ==
    ASSUME NEW d, \A k \in Ids(d) : Range(List(d, k)) \subseteq Ids(d), NEW id \in Ids(d)
    PROVE  /\ Reach(d, id) \subseteq Ids(d)
           /\ Range(List(d, id)) \subseteq Reach(d, id)
           /\ \A j \in Reach(d, id) : Range(List(d, j)) \subseteq Reach(d, id)
           /\ \A j \in Reach(d, id) : Reach(d, j) \subseteq Reach(d, id)
  <1>1. Reach(d, id) \subseteq Ids(d)
    BY DEF Reach
  <1>2. Range(List(d, id)) \subseteq Reach(d, id)
    BY DEF Reach
  <1>3. ASSUME NEW j \in Reach(d, id) PROVE Range(List(d, j)) \subseteq Reach(d, id)
    <2> SUFFICES ASSUME NEW x \in Range(List(d, j)) PROVE x \in Reach(d, id)
      OBVIOUS
    <2>1. x \in Ids(d)
      BY <1>1
    <2> QED BY <2>1 DEF Reach
  <1>4. ASSUME NEW j \in Reach(d, id) PROVE Reach(d, j) \subseteq Reach(d, id)
    <2>1. Range(List(d, j)) \subseteq Reach(d, id) /\ \A k \in Reach(d, id) : Range(List(d, k)) \subseteq Reach(d, id)
      BY <1>3
    <2>2. Reach(d, id) \in SUBSET Ids(d)
      BY <1>1
    <2>3. ASSUME NEW x \in Reach(d, j) PROVE x \in Reach(d, id)
      BY <2>1, <2>2 DEF Reach
    <2> QED BY <2>3
  <1> QED BY <1>1, <1>2, <1>3, <1>4

\* A layered node reaches earlier layers only.
LEMMA LayeredIsFree ==
    ASSUME NEW d, Listed(d), ~Malformed(d)
    PROVE  Done(LastRound(d)) \intersect Stuck(d) = {}
  <1> DEFINE s == LastRound(d)
             Below(k) == UNION {s.layers[j] : j \in 1..(k - 1)}
  <1>1. /\ Len(s.layers) \in Nat /\ DOMAIN s.layers = 1..Len(s.layers)
        /\ TightLayers(d, s)
    BY LastRoundInv DEF RoundInv
  <1>2. Done(s) \subseteq Ids(d)
    BY ResidualFacts
  <1> HIDE DEF s
  <1>3. ASSUME NEW k \in DOMAIN s.layers, NEW i \in s.layers[k] PROVE Reach(d, i) \subseteq Below(k)
    <2>1. Below(k) \subseteq Ids(d)
      <3>1. \A j \in 1..(k - 1) : j \in DOMAIN s.layers
        BY SMTT(30), <1>1
      <3> QED BY <1>2, <3>1 DEF Done, Range
    <2>2. Range(List(d, i)) \subseteq Below(k)
      BY <1>1 DEF TightLayers
    <2>3. ASSUME NEW x \in Below(k) PROVE Range(List(d, x)) \subseteq Below(k)
      <3>1. PICK j \in 1..(k - 1) : x \in s.layers[j]
        OBVIOUS
      <3>2. j \in DOMAIN s.layers /\ 1..(j - 1) \subseteq 1..(k - 1)
        BY SMTT(30), <1>1
      <3>3. Range(List(d, x)) \subseteq UNION {s.layers[n] : n \in 1..(j - 1)}
        BY <1>1, <3>1, <3>2 DEF TightLayers
      <3> QED BY <3>2, <3>3
    <2> HIDE DEF Below
    <2> QED BY <2>1, <2>2, <2>3 DEF Reach
  <1>4. ASSUME NEW i \in Done(s) PROVE i \notin Reach(d, i) /\ Reach(d, i) \subseteq Done(s)
    <2> DEFINE T == {k \in DOMAIN s.layers : i \in s.layers[k]}
    <2>1. T # {} /\ T \subseteq Nat
      BY SMTT(30), <1>1 DEF Done, Range
    <2>2. PICK k \in T : \A j \in T : k <= j
      BY <2>1, LeastNat
    <2>3. Reach(d, i) \subseteq Below(k)
      BY <1>3
    <2>4. \A j \in 1..(k - 1) : j \in DOMAIN s.layers /\ j \notin T
      BY SMTT(30), <1>1, <2>2
    <2>5. i \notin Below(k)
      BY <2>4
    <2>6. Below(k) \subseteq Done(s)
      BY <2>4 DEF Done, Range
    <2> QED BY <2>3, <2>5, <2>6
  <1> QED BY <1>4 DEF Stuck, s

\* Among nodes that each depend on another one of them, one is on a cycle.
LEMMA NoEscape ==
    ASSUME NEW d, Listed(d), \A k \in Ids(d) : Range(List(d, k)) \subseteq Ids(d),
           NEW C \in SUBSET Ids(d), C # {}, \A k \in C : Range(List(d, k)) \intersect C # {}
    PROVE  \E j \in C : j \in Reach(d, j)
  <1> SUFFICES ASSUME \A j \in C : j \notin Reach(d, j) PROVE FALSE
    OBVIOUS
  <1>1. ASSUME NEW k \in C PROVE IsFiniteSet(Reach(d, k)) /\ Cardinality(Reach(d, k)) \in Nat
    <2>1. Reach(d, k) \subseteq Ids(d)
      BY DEF Reach
    <2> QED BY <2>1, FinitelyMany, FS_Subset, FS_CardinalityType
  <1> DEFINE T == {Cardinality(Reach(d, k)) : k \in C}
  <1>2. PICK m \in C : \A k \in C : Cardinality(Reach(d, m)) <= Cardinality(Reach(d, k))
    <2>1. T \subseteq Nat /\ T # {}
      BY <1>1
    <2>2. PICK x \in T : \A y \in T : x <= y
      BY <2>1, LeastNat
    <2> QED BY <2>2
  <1>3. PICK n \in C : n \in Range(List(d, m))
    BY <1>2
  <1>4. n \in Reach(d, m) /\ Reach(d, n) \subseteq Reach(d, m)
    BY <1>3, ReachFacts
  <1>5. Reach(d, n) # Reach(d, m)
    BY <1>4
  <1>6. Cardinality(Reach(d, n)) < Cardinality(Reach(d, m))
    BY <1>1, <1>4, <1>5, FewerInPart
  <1> QED BY SMTT(30), <1>1, <1>2, <1>6

\* What is left is on a cycle or depends on one.
LEMMA ResidualIsStuck ==
    ASSUME NEW d, Listed(d), ~Malformed(d)
    PROVE  Residual(d) = Stuck(d)
  <1>1. /\ Residual(d) = Ids(d) \ Done(LastRound(d))
        /\ \A id \in Residual(d) : Range(List(d, id)) \intersect Residual(d) # {}
        /\ \A id \in Ids(d) : Range(List(d, id)) \subseteq Ids(d)
    BY ResidualFacts
  <1>2. Stuck(d) \subseteq Residual(d)
    BY <1>1, LayeredIsFree DEF Stuck
  <1>3. ASSUME NEW i \in Residual(d) PROVE i \in Stuck(d)
    <2> DEFINE C == Residual(d) \intersect ({i} \union Reach(d, i))
    <2>1. i \in Ids(d)
      BY <1>1
    <2>2. /\ Range(List(d, i)) \subseteq Reach(d, i)
          /\ \A j \in Reach(d, i) : Range(List(d, j)) \subseteq Reach(d, i)
      BY <1>1, <2>1, ReachFacts
    <2>3. \A k \in C : Range(List(d, k)) \intersect C # {}
      BY <1>1, <2>2
    <2>4. C \in SUBSET Ids(d) /\ C # {}
      BY <1>1
    <2> HIDE DEF C
    <2>5. PICK j \in C : j \in Reach(d, j)
      BY <1>1, <2>3, <2>4, NoEscape
    <2> QED BY <2>1, <2>5 DEF C, Stuck
  <1> QED BY <1>2, <1>3

\* The definition of a behaviour stays the same, and is one Validate layers.
CycleInv == Listed(def) /\ (subject = "dag" => ~Malformed(def))

LEMMA CycleInit == Init => CycleInv
  <1>1. Init => def \in Definitions \union {<<>>} /\ (subject = "dag" => ~Malformed(def))
    <2>1. "retry" # "dag" /\ "fairness" # "dag"
      OBVIOUS
    <2> QED
      BY <2>1 DEF Init, NoDefinition
  <1> QED
    BY <1>1, DefinitionsAreLists DEF CycleInv

LEMMA CycleStep == CycleInv /\ [Next]_vars => CycleInv'
  <1> SUFFICES ASSUME CycleInv, [Next]_vars PROVE CycleInv'
    OBVIOUS
  <1>1. def' = def /\ subject' = subject
    BY DEF Next, FailAgain, Dispatch, Layer, vars
  <1> QED
    BY <1>1 DEF CycleInv

\* For every definition, Validate reports a cycle exactly when there is one and
\* names the nodes on cycles and above them; without one it layers every node
\* (the count of validated nodes and the residual in-degrees in Validate).
THEOREM CyclesFound == Spec => []CycleIffCyclic
  <1>1. ASSUME CycleInv, subject = "dag" PROVE CycleIffCyclic
    <2> DEFINE v == Validate(def)
               stuck == {i \in Ids(def) : i \in Above(i) \/ \E j \in Above(i) : j \in Above(j)}
    <2>1. Listed(def) /\ ~Malformed(def)
      BY <1>1 DEF CycleInv
    <2>2. stuck = Stuck(def)
      BY DEF Stuck, Reach, List, Above, DependsOn
    <2>3. Residual(def) = stuck
      BY <2>1, <2>2, ResidualIsStuck
    <2>4. stuck = {} => Done(LastRound(def)) = Ids(def)
      BY <2>1, <2>3, ResidualFacts
    <2>5. CASE stuck # {}
      <3>1. v = Verdict("cycle", <<>>, stuck)
        BY <2>1, <2>3, <2>5 DEF Validate
      <3> HIDE DEF v, stuck
      <3>2. v.err = "cycle" /\ v.cycle = stuck
        BY <3>1 DEF Verdict
      <3> QED BY <2>5, <3>2 DEF CycleIffCyclic, v, stuck
    <2>6. CASE stuck = {}
      <3>1. v = Verdict("none", LastRound(def).layers, {})
        BY <2>1, <2>3, <2>6 DEF Validate
      <3> HIDE DEF v, stuck
      <3>2. v.err # "cycle" /\ v.cycle = {} /\ v.layers = LastRound(def).layers
        BY <3>1 DEF Verdict
      <3>3. UNION Range(v.layers) = Ids(def)
        BY <2>4, <2>6, <3>2 DEF Done
      <3> QED BY <2>6, <3>2, <3>3 DEF CycleIffCyclic, v, stuck
    <2> QED BY <2>5, <2>6
  <1>2. CycleInv => CycleIffCyclic
    BY <1>1 DEF CycleIffCyclic
  <1> QED
    BY <1>2, CycleInit, CycleStep, PTL DEF Spec

-----------------------------------------------------------------------------
(* The calendar.                                                             *)

LEMMA UnitFacts ==
    /\ TicksPerSecond \in Nat \ {0} /\ MinutesPerHour \in Nat \ {0} /\ WeekDays \in Nat \ {0}
    /\ TicksPerMinute \in Nat \ {0} /\ MinutesPerDay \in Nat \ {0} /\ TicksPerDay \in Nat \ {0}
    /\ Len(MonthDays) \in Nat \ {0} /\ \A m \in 1..Len(MonthDays) : MonthDays[m] \in Nat \ {0}
    /\ DOMAIN MonthDays = 1..Len(MonthDays)
  <1>1. ASSUME NEW a \in Nat \ {0}, NEW b \in Nat \ {0} PROVE a * b \in Nat \ {0}
    BY SMTT(30)
  <1>2. /\ TicksPerSecond \in Nat \ {0} /\ SecondsPerMinute \in Nat \ {0} /\ MinutesPerHour \in Nat \ {0}
        /\ HoursPerDay \in Nat \ {0} /\ WeekDays \in Nat \ {0}
    BY CalendarAssumption
  <1>3. TicksPerMinute \in Nat \ {0} /\ MinutesPerDay \in Nat \ {0}
    BY <1>1, <1>2 DEF TicksPerMinute, MinutesPerDay
  <1>4. TicksPerDay \in Nat \ {0}
    BY <1>1, <1>3 DEF TicksPerDay
  <1>5. /\ Len(MonthDays) \in Nat \ {0} /\ \A m \in 1..Len(MonthDays) : MonthDays[m] \in Nat \ {0}
        /\ DOMAIN MonthDays = 1..Len(MonthDays)
    BY SMTT(30), CalendarAssumption
  <1> QED BY <1>2, <1>3, <1>4, <1>5

\* Division rounds down.
LEMMA Division ==
    ASSUME NEW a \in Nat \ {0}, NEW x \in Nat
    PROVE  /\ x \div a \in Nat /\ x % a \in Nat /\ x % a < a
           /\ (x \div a) * a <= x /\ x < (x \div a + 1) * a
           /\ x % a = x - (x \div a) * a
  <1>1. x \div a \in Nat /\ x % a \in Nat /\ x % a < a
    BY SMTT(30)
  <1>2. a * (x \div a) <= x /\ x < a * (x \div a) + a
    BY SMTT(30)
  <1>3. x % a = x - a * (x \div a)
    BY SMTT(30)
  <1>4. \A q \in Nat : a * q = q * a /\ a * q + a = (q + 1) * a
    BY SMTT(30)
  <1>5. a * (x \div a) = (x \div a) * a /\ a * (x \div a) + a = (x \div a + 1) * a
    BY <1>1, <1>4
  <1> QED BY <1>1, <1>2, <1>3, <1>5

LEMMA DivisionIs ==
    ASSUME NEW a \in Nat \ {0}, NEW x \in Nat, NEW q \in Nat, q * a <= x, x < (q + 1) * a
    PROVE  x \div a = q /\ x % a = x - q * a
  <1>1. a * q = q * a /\ a * q + a = (q + 1) * a
    BY SMTT(30)
  <1>2. x \div a = q
    BY SMTT(30), <1>1
  <1> QED BY <1>2, Division

LEMMA DivisionGrows ==
    ASSUME NEW a \in Nat \ {0}, NEW x \in Nat, NEW y \in Nat, x <= y
    PROVE  x \div a <= y \div a
  BY SMTT(30)

LEMMA DivisionBelow ==
    ASSUME NEW a \in Nat \ {0}, NEW x \in Nat, NEW q \in Nat
    PROVE  /\ x < q * a => x \div a < q
           /\ x \div a < q => x < q * a
  BY SMTT(30)

\* The first days of the first n months.
IsFirstDay(f, n) == f = [m \in 1..n |-> IF m = 1 THEN 0 ELSE f[m - 1] + MonthDays[m - 1]]

LEMMA FirstDaysExist ==
    ASSUME NEW n \in Nat
    PROVE  \E f : IsFirstDay(f, n)
  <1> DEFINE T == {m \in Nat : ~\E f : IsFirstDay(f, m)}
  <1> SUFFICES ASSUME T # {} PROVE FALSE
    OBVIOUS
  <1>1. PICK m \in T : \A k \in T : m <= k
    BY LeastNat
  <1>2. m # 0
    <2>1. IsFirstDay([k \in 1..0 |-> 0], 0)
      BY SMTT(30) DEF IsFirstDay
    <2> QED BY <2>1, <1>1
  <1>3. m \in Nat /\ m - 1 \in Nat /\ m - 1 \notin T
    BY SMTT(30), <1>1, <1>2
  <1>4. PICK f : IsFirstDay(f, m - 1)
    BY <1>3
  <1> DEFINE g == [k \in 1..m |-> IF k = m THEN (IF m = 1 THEN 0 ELSE f[m - 1] + MonthDays[m - 1]) ELSE f[k]]
  <1>5. IsFirstDay(g, m)
    <2> SUFFICES ASSUME NEW k \in 1..m PROVE g[k] = IF k = 1 THEN 0 ELSE g[k - 1] + MonthDays[k - 1]
      BY DEF IsFirstDay
    <2>1. CASE k = m
      BY SMTT(30), <2>1, <1>3
    <2>2. CASE k # m
      BY SMTT(30), <2>2, <1>3, <1>4 DEF IsFirstDay
    <2> QED BY <2>1, <2>2
  <1> QED BY <1>5, <1>1

\* Months follow each other and are not empty.
LEMMA FirstDayFacts ==
    /\ FirstDay[1] = 0
    /\ \A m \in 1..(Len(MonthDays) + 1) : FirstDay[m] \in Nat
    /\ \A m \in 1..Len(MonthDays) : FirstDay[m] < FirstDay[m + 1]
  <1> DEFINE n == Len(MonthDays) + 1
  <1>1. n \in Nat /\ n > 1 /\ \A m \in 1..n : m # 1 => m - 1 \in 1..Len(MonthDays) /\ m - 1 \in 1..n
    BY SMTT(30), UnitFacts
  <1>2. IsFirstDay(FirstDay, n)
    <2>1. \E f : IsFirstDay(f, n)
      BY <1>1, FirstDaysExist
    <2> QED BY <2>1 DEF FirstDay, IsFirstDay
  <1>3. \A m \in 1..n : FirstDay[m] = IF m = 1 THEN 0 ELSE FirstDay[m - 1] + MonthDays[m - 1]
    BY <1>2 DEF IsFirstDay
  <1>4. \A m \in 1..n : FirstDay[m] \in Nat
    <2> DEFINE T == {m \in 1..n : FirstDay[m] \notin Nat}
    <2> SUFFICES ASSUME T # {} PROVE FALSE
      OBVIOUS
    <2>1. T \subseteq Nat
      BY SMTT(30), <1>1
    <2>2. PICK m \in T : \A k \in T : m <= k
      BY <2>1, LeastNat
    <2>3. m # 1 => m - 1 \in 1..n /\ m - 1 \notin T /\ MonthDays[m - 1] \in Nat
      BY SMTT(30), <1>1, <2>1, <2>2, UnitFacts
    <2> QED BY SMTT(30), <1>3, <2>2, <2>3
  <1>5. ASSUME NEW m \in 1..Len(MonthDays) PROVE FirstDay[m] < FirstDay[m + 1]
    <2>1. m \in 1..n /\ m + 1 \in 1..n /\ m + 1 # 1 /\ (m + 1) - 1 = m
      BY SMTT(30), UnitFacts
    <2>2. FirstDay[m + 1] = FirstDay[m] + MonthDays[m]
      BY <1>3, <2>1
    <2> QED BY SMTT(30), <1>4, <2>1, <2>2, UnitFacts
  <1>6. FirstDay[1] = 0
    BY SMTT(30), <1>1, <1>3
  <1> QED BY <1>4, <1>5, <1>6

LEMMA FirstDayGrows ==
    ASSUME NEW a \in 1..(Len(MonthDays) + 1), NEW b \in 1..(Len(MonthDays) + 1), a <= b
    PROVE  FirstDay[a] <= FirstDay[b]
  <1> DEFINE T == {k \in Nat : a <= k /\ k <= Len(MonthDays) + 1 /\ ~(FirstDay[a] <= FirstDay[k])}
  <1>0. Len(MonthDays) \in Nat
    BY UnitFacts
  <1>1. T = {}
    <2> SUFFICES ASSUME T # {} PROVE FALSE
      OBVIOUS
    <2>1. PICK k \in T : \A j \in T : k <= j
      BY LeastNat
    <2>2. k # a
      BY SMTT(30), <2>1, FirstDayFacts
    <2> DEFINE j == k - 1
    <2>3. j \in Nat /\ a <= j /\ j \in 1..Len(MonthDays) /\ j + 1 = k /\ j \notin T /\ j <= Len(MonthDays) + 1
      BY SMTT(30), <1>0, <2>1, <2>2
    <2> HIDE DEF j
    <2>4. FirstDay[a] <= FirstDay[j] /\ FirstDay[j] < FirstDay[j + 1]
      BY <2>3, FirstDayFacts
    <2>5. FirstDay[a] \in Nat /\ FirstDay[j] \in Nat /\ FirstDay[k] \in Nat
      <3>1. j \in 1..(Len(MonthDays) + 1) /\ k \in 1..(Len(MonthDays) + 1)
        BY SMTT(30), <1>0, <2>3
      <3> QED BY <3>1, FirstDayFacts
    <2> QED BY SMTT(30), <2>1, <2>3, <2>4, <2>5
  <1> QED BY SMTT(30), <1>0, <1>1

InMonth(m, y) == FirstDay[m] <= y /\ y < FirstDay[m + 1]

\* Every day of a year is in one month.
LEMMA MonthExists ==
    ASSUME NEW y \in Nat, y < YearDays
    PROVE  \E m \in DOMAIN MonthDays : InMonth(m, y)
  <1> DEFINE n == Len(MonthDays) + 1
             T == {m \in 1..n : y < FirstDay[m]}
  <1>0. Len(MonthDays) \in Nat
    BY UnitFacts
  <1>1. T \subseteq Nat /\ T # {}
    BY SMTT(30), <1>0 DEF YearDays
  <1>2. PICK k \in T : \A j \in T : k <= j
    BY <1>1, LeastNat
  <1>3. k # 1
    BY SMTT(30), <1>2, FirstDayFacts
  <1>4. k - 1 \in 1..Len(MonthDays) /\ k - 1 \in 1..n /\ k - 1 \notin T /\ (k - 1) + 1 = k
    BY SMTT(30), <1>0, <1>2, <1>3
  <1>5. FirstDay[k - 1] \in Nat
    BY <1>4, FirstDayFacts
  <1>6. InMonth(k - 1, y)
    BY SMTT(30), <1>2, <1>4, <1>5 DEF InMonth
  <1> QED BY <1>4, <1>6, UnitFacts

LEMMA MonthIsOne ==
    ASSUME NEW y \in Nat, NEW a \in DOMAIN MonthDays, NEW b \in DOMAIN MonthDays, InMonth(a, y), InMonth(b, y)
    PROVE  a = b
  <1>0. /\ Len(MonthDays) \in Nat /\ a \in 1..Len(MonthDays) /\ b \in 1..Len(MonthDays)
        /\ a \in 1..(Len(MonthDays) + 1) /\ b \in 1..(Len(MonthDays) + 1)
        /\ a + 1 \in 1..(Len(MonthDays) + 1) /\ b + 1 \in 1..(Len(MonthDays) + 1)
    BY SMTT(30), UnitFacts
  <1>1. /\ FirstDay[a] \in Nat /\ FirstDay[b] \in Nat
        /\ FirstDay[a + 1] \in Nat /\ FirstDay[b + 1] \in Nat
    BY <1>0, FirstDayFacts
  <1>2. CASE a < b
    <2>1. a + 1 <= b
      BY SMTT(30), <1>0, <1>2
    <2>2. FirstDay[a + 1] <= FirstDay[b]
      BY <1>0, <2>1, FirstDayGrows
    <2> QED BY SMTT(30), <1>1, <2>2 DEF InMonth
  <1>3. CASE b < a
    <2>1. b + 1 <= a
      BY SMTT(30), <1>0, <1>3
    <2>2. FirstDay[b + 1] <= FirstDay[a]
      BY <1>0, <2>1, FirstDayGrows
    <2> QED BY SMTT(30), <1>1, <2>2 DEF InMonth
  <1> QED BY SMTT(30), <1>0, <1>2, <1>3

LEMMA CalendarFacts ==
    ASSUME NEW c \in Nat
    PROVE  /\ Day(c) \in Nat /\ YearDays \in Nat \ {0} /\ YearDay(c) \in Nat /\ YearDay(c) < YearDays
           /\ Month(c) \in DOMAIN MonthDays /\ InMonth(Month(c), YearDay(c))
  <1>1. YearDays \in Nat \ {0}
    <2>1. /\ Len(MonthDays) \in Nat \ {0} /\ 1 \in 1..(Len(MonthDays) + 1) /\ 2 \in 1..(Len(MonthDays) + 1)
          /\ Len(MonthDays) + 1 \in 1..(Len(MonthDays) + 1) /\ 1 \in 1..Len(MonthDays) /\ 2 <= Len(MonthDays) + 1
      BY SMTT(30), UnitFacts
    <2>2. FirstDay[2] <= FirstDay[Len(MonthDays) + 1]
      BY <2>1, FirstDayGrows
    <2>3. FirstDay[1] < FirstDay[1 + 1] /\ FirstDay[1] = 0 /\ FirstDay[2] \in Nat /\ YearDays \in Nat
      BY <2>1, FirstDayFacts DEF YearDays
    <2> QED BY SMTT(30), <2>2, <2>3 DEF YearDays
  <1>2. Day(c) \in Nat
    BY UnitFacts, Division DEF Day
  <1>3. YearDay(c) \in Nat /\ YearDay(c) < YearDays
    BY <1>1, <1>2, Division DEF YearDay
  <1>4. Month(c) \in DOMAIN MonthDays /\ InMonth(Month(c), YearDay(c))
    BY <1>3, MonthExists DEF Month, InMonth
  <1> QED BY <1>1, <1>2, <1>3, <1>4

\* Later minutes are on later days.
LEMMA DayGrows ==
    ASSUME NEW c \in Nat, NEW e \in Nat, c <= e
    PROVE  Day(c) <= Day(e)
  BY UnitFacts, DivisionGrows DEF Day

\* The minutes before the first one of a day are on earlier days.
LEMMA DayBelow ==
    ASSUME NEW e \in Nat, NEW k \in Nat
    PROVE  (e < k * MinutesPerDay) <=> Day(e) < k
  <1>1. (e < k * MinutesPerDay => Day(e) < k) /\ (Day(e) < k => e < k * MinutesPerDay)
    BY UnitFacts, DivisionBelow DEF Day
  <1> QED BY <1>1

\* All minutes from c to the end of its month are in its month.
LEMMA RestOfMonth ==
    ASSUME NEW c \in Nat, NEW e \in Nat, c <= e,
           Day(e) < Day(c) - YearDay(c) + FirstDay[Month(c) + 1]
    PROVE  Month(e) = Month(c)
  <1> DEFINE m == Month(c)
             q == Day(c) \div YearDays
             y == YearDay(c)
  <1>1. /\ Day(c) \in Nat /\ YearDays \in Nat \ {0} /\ y \in Nat /\ y < YearDays
        /\ m \in DOMAIN MonthDays /\ FirstDay[m] <= y /\ y < FirstDay[m + 1]
    BY CalendarFacts DEF InMonth
  <1>2. Day(e) \in Nat /\ YearDay(e) \in Nat /\ Month(e) \in DOMAIN MonthDays /\ InMonth(Month(e), YearDay(e))
    BY CalendarFacts
  <1>3. q \in Nat /\ y = Day(c) - q * YearDays /\ q * YearDays \in Nat
    <2>1. q \in Nat /\ y = Day(c) - q * YearDays
      BY <1>1, Division DEF YearDay
    <2> HIDE DEF q
    <2>2. q * YearDays \in Nat
      BY SMTT(30), <1>1, <2>1
    <2> QED BY <2>1, <2>2
  <1>4. FirstDay[m] \in Nat /\ FirstDay[m + 1] \in Nat /\ FirstDay[m + 1] <= YearDays
    <2>1. /\ m \in 1..(Len(MonthDays) + 1) /\ m + 1 \in 1..(Len(MonthDays) + 1)
          /\ Len(MonthDays) + 1 \in 1..(Len(MonthDays) + 1) /\ m + 1 <= Len(MonthDays) + 1
      BY SMTT(30), <1>1, UnitFacts
    <2> HIDE DEF m
    <2> QED BY <2>1, FirstDayFacts, FirstDayGrows DEF YearDays
  <1>5. Day(c) <= Day(e)
    BY DayGrows
  <1>6. (q + 1) * YearDays = q * YearDays + YearDays
    BY SMTT(30), <1>1, <1>3
  <1>7. q * YearDays <= Day(e) /\ Day(e) < (q + 1) * YearDays
    <2> DEFINE a == q * YearDays
    <2>1. a \in Nat /\ y = Day(c) - a /\ (q + 1) * YearDays = a + YearDays
      BY <1>3, <1>6
    <2> HIDE DEF a, q, y
    <2>2. Day(e) < Day(c) - y + FirstDay[m + 1]
      BY DEF y
    <2> HIDE DEF m
    <2>3. a <= Day(e) /\ Day(e) < a + YearDays
      BY SMTT(30), <1>1, <1>2, <1>4, <1>5, <2>1, <2>2
    <2> QED BY <2>1, <2>3 DEF a
  <1>8. YearDay(e) = Day(e) - q * YearDays
    <2> HIDE DEF q
    <2> QED BY <1>1, <1>2, <1>3, <1>7, DivisionIs DEF YearDay
  <1>9. InMonth(m, YearDay(e))
    <2> DEFINE a == q * YearDays
    <2>1. a \in Nat /\ y = Day(c) - a /\ YearDay(e) = Day(e) - a
      BY <1>3, <1>8
    <2> HIDE DEF a, q, y
    <2>2. Day(e) < Day(c) - y + FirstDay[m + 1]
      BY DEF y
    <2> HIDE DEF m
    <2> QED BY SMTT(30), <1>1, <1>2, <1>4, <1>5, <2>1, <2>2 DEF InMonth
  <1> HIDE DEF m
  <1>10. Month(e) = m
    BY <1>1, <1>2, <1>9, MonthIsOne
  <1> QED BY <1>10 DEF m

\* All minutes from c to the end of its hour are in its hour of its day.
LEMMA RestOfHour ==
    ASSUME NEW c \in Nat, NEW e \in Nat, c <= e, e < (c \div MinutesPerHour + 1) * MinutesPerHour
    PROVE  Hour(e) = Hour(c)
  <1> DEFINE M == MinutesPerHour
             H == HoursPerDay
             q == c \div M
             k == c \div MinutesPerDay
  <1>1. M \in Nat \ {0} /\ H \in Nat \ {0} /\ MinutesPerDay = M * H /\ MinutesPerDay \in Nat \ {0}
    BY UnitFacts, CalendarAssumption DEF MinutesPerDay
  <1>2. q \in Nat /\ q * M <= c /\ c < (q + 1) * M /\ k \in Nat /\ k * (M * H) <= c /\ c < (k + 1) * (M * H)
    <2>1. k * MinutesPerDay <= c /\ c < (k + 1) * MinutesPerDay
      BY <1>1, Division
    <2> QED BY <1>1, <2>1, Division
  <1>3. e < (q + 1) * M
    OBVIOUS
  <1>4. /\ c % MinutesPerDay = c - k * (M * H) /\ e % MinutesPerDay = e - k * (M * H)
        /\ \E h \in Nat : q = k * H + h /\ h < H
    <2> HIDE DEF M, H, q, k
    <2>1. \E h \in Nat : q = k * H + h /\ h < H
      <3>1. ASSUME q < k * H PROVE FALSE
        <4>1. k * H \in Nat /\ q + 1 <= k * H
          BY SMTT(30), <1>1, <1>2, <3>1
        <4>2. (q + 1) * M <= (k * H) * M
          BY SMTT(30), <1>1, <1>2, <4>1
        <4> QED BY SMTT(30), <1>1, <1>2, <4>2
      <3>2. ASSUME q >= k * H + H PROVE FALSE
        <4>1. k * H \in Nat /\ k * H + H <= q
          BY SMTT(30), <1>1, <1>2, <3>2
        <4>2. (k * H + H) * M <= q * M
          BY SMTT(30), <1>1, <1>2, <4>1
        <4> QED BY SMTT(30), <1>1, <1>2, <4>2
      <3>3. q - k * H \in Nat /\ q = k * H + (q - k * H) /\ q - k * H < H
        BY SMTT(30), <1>1, <1>2, <3>1, <3>2
      <3> QED BY <3>3
    <2>2. PICK h \in Nat : q = k * H + h /\ h < H
      BY <2>1
    <2>3. e < (k + 1) * (M * H)
      <3>1. q + 1 <= (k + 1) * H /\ (k + 1) * H \in Nat
        BY SMTT(30), <1>1, <1>2, <2>2
      <3>2. (q + 1) * M <= ((k + 1) * H) * M
        BY SMTT(30), <1>1, <1>2, <3>1
      <3> QED BY SMTT(30), <1>1, <1>2, <1>3, <3>2
    <2>4. k * MinutesPerDay <= c /\ c < (k + 1) * MinutesPerDay /\ k * MinutesPerDay <= e /\ e < (k + 1) * MinutesPerDay
      BY SMTT(30), <1>1, <1>2, <2>3
    <2>5. c % MinutesPerDay = c - k * MinutesPerDay /\ e % MinutesPerDay = e - k * MinutesPerDay
      BY <1>1, <1>2, <2>4, DivisionIs
    <2> QED BY <1>1, <2>1, <2>5
  <1>5. PICK h \in Nat : q = k * H + h /\ h < H
    BY <1>4
  <1> HIDE DEF M, H, q, k
  <1>6. ASSUME NEW x \in Nat, q * M <= x, x < (q + 1) * M, x % MinutesPerDay = x - k * (M * H)
        PROVE  (x % MinutesPerDay) \div M = h
    <2> DEFINE r == x - k * (M * H)
    <2>1. q * M = k * (M * H) + h * M /\ (q + 1) * M = k * (M * H) + (h + 1) * M
      BY SMTT(30), <1>1, <1>2, <1>5
    <2>2. k * (M * H) \in Nat /\ h * M \in Nat /\ (h + 1) * M \in Nat
      BY SMTT(30), <1>1, <1>2
    <2>3. r \in Nat /\ h * M <= r /\ r < (h + 1) * M
      <3> DEFINE a == k * (M * H)
                 b == h * M
                 d == (h + 1) * M
      <3>1. a \in Nat /\ b \in Nat /\ d \in Nat /\ q * M = a + b /\ (q + 1) * M = a + d
        BY <2>1, <2>2
      <3>2. a + b <= x /\ x < a + d
        BY <1>6, <3>1
      <3>3. r = x - a
        OBVIOUS
      <3> HIDE DEF a, b, d, r
      <3>4. r \in Nat /\ b <= r /\ r < d
        BY SMTT(30), <3>1, <3>2, <3>3
      <3> QED BY <3>4 DEF b, d
    <2> HIDE DEF r
    <2>4. r \div M = h
      BY <1>1, <2>3, DivisionIs
    <2> QED BY <1>6, <2>4 DEF r
  <1>7. q * M <= e
    <2>1. q * M \in Nat
      BY SMTT(30), <1>1, <1>2
    <2> QED BY SMTT(30), <1>2, <2>1
  <1>8. (c % MinutesPerDay) \div M = h /\ (e % MinutesPerDay) \div M = h
    BY <1>2, <1>3, <1>4, <1>6, <1>7
  <1> QED BY <1>8 DEF Hour, M

\* Nothing that matches is skipped.
LEMMA SkipMissesNothing ==
    ASSUME NEW s, NEW c \in Nat, ~Matches(s, c)
    PROVE  /\ Skip(s, c) \in Nat /\ c < Skip(s, c)
           /\ \A e \in Nat : c <= e /\ e < Skip(s, c) => ~Matches(s, e)
  <1>0. /\ MinutesPerDay \in Nat \ {0} /\ MinutesPerHour \in Nat \ {0} /\ Day(c) \in Nat
        /\ YearDay(c) \in Nat /\ Month(c) \in DOMAIN MonthDays /\ InMonth(Month(c), YearDay(c))
    BY UnitFacts, CalendarFacts
  <1>1. CASE Month(c) \notin s.months
    <2> DEFINE k == Day(c) - YearDay(c) + FirstDay[Month(c) + 1]
    <2>1. k \in Nat /\ Day(c) < k
      <3>1. Month(c) + 1 \in 1..(Len(MonthDays) + 1)
        BY SMTT(30), <1>0, UnitFacts
      <3>2. FirstDay[Month(c) + 1] \in Nat
        BY <3>1, FirstDayFacts
      <3>3. YearDay(c) < FirstDay[Month(c) + 1] /\ YearDay(c) <= Day(c)
        <4>1. YearDays \in Nat \ {0}
          BY CalendarFacts
        <4>2. \A a \in Nat \ {0}, x \in Nat : x % a <= x
          BY SMTT(30)
        <4> QED BY <1>0, <4>1, <4>2 DEF InMonth, YearDay
      <3> QED BY SMTT(30), <1>0, <3>2, <3>3
    <2>2. Skip(s, c) = k * MinutesPerDay
      BY <1>1 DEF Skip
    <2>3. ASSUME NEW e \in Nat, c <= e, Day(e) < k PROVE ~Matches(s, e)
      <3>1. Month(e) = Month(c)
        BY <2>3, RestOfMonth
      <3> QED BY <1>1, <3>1 DEF Matches
    <2> HIDE DEF k
    <2>4. k * MinutesPerDay \in Nat
      BY SMTT(30), <1>0, <2>1
    <2> QED BY <2>1, <2>2, <2>3, <2>4, DayBelow
  <1>2. CASE Month(c) \in s.months /\ (DayOfMonth(c) \notin s.daysOfMonth \/ Weekday(c) \notin s.daysOfWeek)
    <2> DEFINE k == Day(c) + 1
    <2>1. k \in Nat /\ Day(c) < k
      BY SMTT(30), <1>0
    <2>2. Skip(s, c) = k * MinutesPerDay
      BY <1>2 DEF Skip
    <2>3. ASSUME NEW e \in Nat, c <= e, Day(e) < k PROVE ~Matches(s, e)
      <3>1. Day(e) = Day(c)
        <4>1. Day(e) \in Nat
          BY CalendarFacts
        <4>2. Day(c) <= Day(e)
          BY <2>3, DayGrows
        <4> QED BY SMTT(30), <1>0, <2>3, <4>1, <4>2
      <3> QED BY <1>2, <3>1 DEF Matches, DayOfMonth, Weekday, Month, YearDay
    <2> HIDE DEF k
    <2>4. k * MinutesPerDay \in Nat
      BY SMTT(30), <1>0, <2>1
    <2> QED BY <2>1, <2>2, <2>3, <2>4, DayBelow
  <1>3. CASE /\ Month(c) \in s.months /\ DayOfMonth(c) \in s.daysOfMonth /\ Weekday(c) \in s.daysOfWeek
             /\ Hour(c) \notin s.hours
    <2>1. Skip(s, c) = (c \div MinutesPerHour + 1) * MinutesPerHour
      BY <1>3 DEF Skip
    <2>2. ASSUME NEW e \in Nat, c <= e, e < Skip(s, c) PROVE ~Matches(s, e)
      <3>1. Hour(e) = Hour(c)
        BY <2>1, <2>2, RestOfHour
      <3> QED BY <1>3, <3>1 DEF Matches
    <2>3. c \div MinutesPerHour \in Nat /\ c < (c \div MinutesPerHour + 1) * MinutesPerHour
      BY <1>0, Division
    <2>4. \A q \in Nat : (q + 1) * MinutesPerHour \in Nat
      BY SMTT(30), <1>0
    <2> QED BY <2>1, <2>2, <2>3, <2>4
  <1>4. CASE /\ Month(c) \in s.months /\ DayOfMonth(c) \in s.daysOfMonth /\ Weekday(c) \in s.daysOfWeek
             /\ Hour(c) \in s.hours
    <2>1. Skip(s, c) = c + 1
      BY <1>4 DEF Skip
    <2>2. \A e \in Nat : c <= e /\ e < c + 1 => e = c
      BY SMTT(30)
    <2>3. c + 1 \in Nat /\ c < c + 1
      BY SMTT(30)
    <2> QED BY <2>1, <2>2, <2>3
  <1> QED BY <1>1, <1>2, <1>3, <1>4

-----------------------------------------------------------------------------
(* The search of Next.                                                       *)

\* The matching minutes from c on that are before the limit.
Candidates(s, t, c) == {e \in Nat : c <= e /\ e * TicksPerMinute < Limit(t) /\ Matches(s, e)}
Least(S) == CHOOSE x \in S : \A y \in S : x <= y
Found(s, t, c) == IF Candidates(s, t, c) = {} THEN t + TicksPerDay ELSE Least(Candidates(s, t, c)) * TicksPerMinute

LEMMA LeastFacts ==
    ASSUME NEW S \in SUBSET Nat, S # {}
    PROVE  Least(S) \in S /\ \A y \in S : Least(S) <= y
  BY LeastNat DEF Least

\* One turn of the search.
Turn(s, t, f, c) ==
    IF c * TicksPerMinute >= Limit(t) THEN t + TicksPerDay
    ELSE IF Matches(s, c) THEN c * TicksPerMinute ELSE f[Skip(s, c)]

LEMMA LimitFacts ==
    ASSUME NEW t \in Nat
    PROVE  Limit(t) \in Nat /\ t <= Limit(t)
  <1>1. TicksPerDay \in Nat /\ LimitDays \in Nat
    BY UnitFacts, CalendarAssumption
  <1>2. LimitDays * TicksPerDay \in Nat
    BY SMTT(30), <1>1
  <1> QED BY SMTT(30), <1>2 DEF Limit

\* A turn finds the earliest candidate, or leaves the candidates as they are.
LEMMA FoundTurn ==
    ASSUME NEW s, NEW t \in Nat, NEW c \in Nat, NEW f, Matches(s, c) \/ f[Skip(s, c)] = Found(s, t, Skip(s, c))
    PROVE  Found(s, t, c) = Turn(s, t, f, c)
  <1>0. TicksPerMinute \in Nat \ {0} /\ Limit(t) \in Nat
    BY UnitFacts, LimitFacts
  <1>1. CASE c * TicksPerMinute >= Limit(t)
    <2>1. ASSUME NEW e \in Nat, c <= e PROVE ~(e * TicksPerMinute < Limit(t))
      <3>1. c * TicksPerMinute <= e * TicksPerMinute /\ c * TicksPerMinute \in Nat /\ e * TicksPerMinute \in Nat
        BY SMTT(30), <1>0, <2>1
      <3> QED BY SMTT(30), <1>0, <1>1, <3>1
    <2>2. Candidates(s, t, c) = {}
      BY <2>1 DEF Candidates
    <2> QED BY <1>1, <2>2 DEF Found, Turn
  <1>2. CASE ~(c * TicksPerMinute >= Limit(t)) /\ Matches(s, c)
    <2>1. c * TicksPerMinute < Limit(t) /\ c <= c
      <3>1. c * TicksPerMinute \in Nat
        BY SMTT(30), <1>0
      <3> QED BY SMTT(30), <1>0, <1>2, <3>1
    <2> DEFINE S == Candidates(s, t, c)
    <2>2. c \in S /\ S \in SUBSET Nat /\ \A y \in S : c <= y
      BY <1>2, <2>1 DEF Candidates
    <2>3. Least(S) \in S /\ \A y \in S : Least(S) <= y
      BY <2>2, LeastFacts
    <2> HIDE DEF S
    <2>4. Least(S) = c
      <3>1. Least(S) \in Nat /\ Least(S) <= c /\ c <= Least(S)
        BY <2>2, <2>3
      <3> QED BY SMTT(30), <3>1
    <2> QED BY <1>2, <2>2, <2>4 DEF Found, Turn, S
  <1>3. CASE ~(c * TicksPerMinute >= Limit(t)) /\ ~Matches(s, c)
    <2>1. /\ Skip(s, c) \in Nat /\ c < Skip(s, c)
          /\ \A e \in Nat : c <= e /\ e < Skip(s, c) => ~Matches(s, e)
      BY <1>3, SkipMissesNothing
    <2>2. Candidates(s, t, c) = Candidates(s, t, Skip(s, c))
      <3> DEFINE n == Skip(s, c)
      <3>1. \A e \in Nat : (n <= e => c <= e) /\ (e < n \/ n <= e)
        BY SMTT(30), <2>1
      <3> HIDE DEF n
      <3>2. \A e \in Nat : Matches(s, e) => (c <= e <=> n <= e)
        BY <2>1, <3>1 DEF n
      <3> QED BY <3>2 DEF Candidates, n
    <2>3. Found(s, t, c) = Found(s, t, Skip(s, c))
      BY <2>2 DEF Found
    <2> QED BY <1>3, <2>3 DEF Turn
  <1> QED BY <1>1, <1>2, <1>3

\* Next returns the earliest candidate.
LEMMA NextIsFound ==
    ASSUME NEW s, NEW t \in Nat
    PROVE  NextInstant(s, t) = Found(s, t, FirstCandidate(t))
  <1> DEFINE IsFrom(f) == f = [c \in Nat |-> Turn(s, t, f, c)]
             from == CHOOSE f : IsFrom(f)
             h == [c \in Nat |-> Found(s, t, c)]
  <1>1. IsFrom(h)
    <2>1. ASSUME NEW c \in Nat PROVE Found(s, t, c) = Turn(s, t, h, c)
      <3>1. Matches(s, c) \/ h[Skip(s, c)] = Found(s, t, Skip(s, c))
        BY SkipMissesNothing
      <3> HIDE DEF h
      <3> QED BY <3>1, FoundTurn
    <2>2. h = [c \in Nat |-> Turn(s, t, h, c)]
      BY <2>1
    <2> QED BY <2>2
  <1>2. IsFrom(from)
    BY <1>1
  <1>3. \A c \in Nat : from[c] = Turn(s, t, from, c)
    <2> HIDE DEF from
    <2> QED BY <1>2
  <1>4. NextInstant(s, t) = from[FirstCandidate(t)]
    BY DEF NextInstant, Turn
  <1> HIDE DEF from, IsFrom
  <1> DEFINE T == {c \in Nat : from[c] # Found(s, t, c)}
             U == {Limit(t) - c : c \in T}
  <1>5. T = {}
    <2> SUFFICES ASSUME T # {} PROVE FALSE
      OBVIOUS
    <2>1. TicksPerMinute \in Nat \ {0} /\ Limit(t) \in Nat
      BY UnitFacts, LimitFacts
    <2>2. ASSUME NEW c \in T PROVE c \in Nat /\ c < Limit(t) /\ ~Matches(s, c) /\ Skip(s, c) \in T
      <3>1. c \in Nat /\ from[c] # Found(s, t, c) /\ from[c] = Turn(s, t, from, c)
        BY <1>3
      <3>2. ~Matches(s, c) /\ from[Skip(s, c)] # Found(s, t, Skip(s, c))
        BY <3>1, FoundTurn
      <3>3. Skip(s, c) \in T
        BY <3>1, <3>2, SkipMissesNothing
      <3>4. ASSUME ~(c < Limit(t)) PROVE FALSE
        <4>1. c * TicksPerMinute \in Nat /\ c <= c * TicksPerMinute
          BY SMTT(30), <2>1, <3>1
        <4>2. c * TicksPerMinute >= Limit(t)
          BY SMTT(30), <2>1, <3>1, <3>4, <4>1
        <4>3. ASSUME NEW f, NEW g PROVE Turn(s, t, f, c) = Turn(s, t, g, c)
          BY <4>2 DEF Turn
        <4>4. Found(s, t, c) = Turn(s, t, h, c)
          <5>1. h[Skip(s, c)] = Found(s, t, Skip(s, c))
            BY <3>1, <3>2, SkipMissesNothing
          <5> HIDE DEF h
          <5> QED BY <3>1, <5>1, FoundTurn
        <4> QED BY <3>1, <4>3, <4>4
      <3> QED BY <3>1, <3>2, <3>3, <3>4
    <2> HIDE DEF T
    <2>3. U \in SUBSET Nat /\ U # {}
      <3>1. \A c \in Nat : c < Limit(t) => Limit(t) - c \in Nat
        BY SMTT(30), <2>1
      <3> QED BY <2>2, <3>1
    <2>4. PICK x \in U : \A y \in U : x <= y
      BY <2>3, LeastNat
    <2>5. PICK c \in T : x = Limit(t) - c
      BY <2>4
    <2>6. Limit(t) - c <= Limit(t) - Skip(s, c)
      BY <2>2, <2>4, <2>5
    <2>7. c \in Nat /\ Skip(s, c) \in Nat /\ c < Skip(s, c)
      BY <2>2, SkipMissesNothing
    <2> QED BY SMTT(30), <2>1, <2>6, <2>7
  <1>6. FirstCandidate(t) \in Nat
    <2>1. t \div TicksPerMinute \in Nat
      BY UnitFacts, Division
    <2> QED BY SMTT(30), <2>1 DEF FirstCandidate
  <1> QED BY <1>4, <1>5, <1>6

\* The minutes Next may return for t.
AheadOf(s, t) == {c \in FirstCandidate(t)..(Limit(t) \div TicksPerMinute) :
                     c * TicksPerMinute < Limit(t) /\ Matches(s, c)}

LEMMA AheadIsCandidates ==
    ASSUME NEW s, NEW t \in Nat
    PROVE  AheadOf(s, t) = Candidates(s, t, FirstCandidate(t)) /\ FirstCandidate(t) \in Nat
  <1>1. TicksPerMinute \in Nat \ {0} /\ Limit(t) \in Nat
    BY UnitFacts, LimitFacts
  <1>2. t \div TicksPerMinute \in Nat /\ Limit(t) \div TicksPerMinute \in Nat
    BY <1>1, Division
  <1>3. FirstCandidate(t) \in Nat
    BY SMTT(30), <1>2 DEF FirstCandidate
  <1>4. ASSUME NEW c \in Nat, c * TicksPerMinute < Limit(t) PROVE c <= Limit(t) \div TicksPerMinute
    <2> DEFINE q == Limit(t) \div TicksPerMinute
    <2>1. q \in Nat /\ Limit(t) < (q + 1) * TicksPerMinute
      BY <1>1, Division
    <2> HIDE DEF q
    <2>2. ASSUME q + 1 <= c PROVE FALSE
      <3>1. (q + 1) * TicksPerMinute <= c * TicksPerMinute
        BY SMTT(30), <1>1, <2>1, <2>2
      <3>2. (q + 1) * TicksPerMinute \in Nat /\ c * TicksPerMinute \in Nat
        BY SMTT(30), <1>1, <2>1
      <3> QED BY SMTT(30), <1>1, <1>4, <2>1, <3>1, <3>2
    <2> QED BY SMTT(30), <2>1, <2>2 DEF q
  <1>5. \A c : c \in FirstCandidate(t)..(Limit(t) \div TicksPerMinute)
               <=> c \in Nat /\ FirstCandidate(t) <= c /\ c <= Limit(t) \div TicksPerMinute
    BY SMTT(30), <1>2, <1>3
  <1> QED BY <1>3, <1>4, <1>5 DEF AheadOf, Candidates

\* Next returns the first of them, and a day later if there is none.
LEMMA NextIsEarliest ==
    ASSUME NEW s, NEW t \in Nat
    PROVE  LET next == NextInstant(s, t)
           IN  /\ next \in Nat /\ t < next
               /\ AheadOf(s, t) = {} => next = t + TicksPerDay
               /\ AheadOf(s, t) # {} => /\ next % TicksPerMinute = 0
                                        /\ next \div TicksPerMinute \in AheadOf(s, t)
                                        /\ next = (next \div TicksPerMinute) * TicksPerMinute
                                        /\ \A c \in AheadOf(s, t) : next <= c * TicksPerMinute
  <1> DEFINE next == NextInstant(s, t)
             S == AheadOf(s, t)
  <1>1. TicksPerMinute \in Nat \ {0} /\ TicksPerDay \in Nat \ {0}
    BY UnitFacts
  <1>2. S = Candidates(s, t, FirstCandidate(t)) /\ FirstCandidate(t) \in Nat
    BY AheadIsCandidates
  <1>3. next = IF S = {} THEN t + TicksPerDay ELSE Least(S) * TicksPerMinute
    BY <1>2, NextIsFound DEF Found
  <1>4. S \in SUBSET Nat /\ \A c \in S : FirstCandidate(t) <= c
    BY <1>2 DEF Candidates
  <1>5. CASE S = {}
    BY SMTT(30), <1>1, <1>3, <1>5
  <1>6. CASE S # {}
    <2> DEFINE x == Least(S)
    <2>1. x \in S /\ \A y \in S : x <= y
      BY <1>4, <1>6, LeastFacts
    <2>2. x \in Nat /\ FirstCandidate(t) <= x /\ next = x * TicksPerMinute
      BY <1>3, <1>4, <1>6, <2>1
    <2> HIDE DEF x, next, S
    <2>3. next \in Nat /\ x * TicksPerMinute <= next /\ next < (x + 1) * TicksPerMinute
      BY SMTT(30), <1>1, <2>2
    <2>4. next \div TicksPerMinute = x /\ next % TicksPerMinute = 0
      <3>1. next \div TicksPerMinute = x /\ next % TicksPerMinute = next - x * TicksPerMinute
        BY <1>1, <2>2, <2>3, DivisionIs
      <3> QED BY SMTT(30), <2>2, <2>3, <3>1
    <2>5. \A c \in Nat : x <= c => x * TicksPerMinute <= c * TicksPerMinute
      BY SMTT(30), <1>1, <2>2
    <2>6. t < next
      <3> DEFINE q == t \div TicksPerMinute
      <3>1. q \in Nat /\ t < (q + 1) * TicksPerMinute /\ q + 1 <= x
        BY <1>1, <2>2, Division DEF FirstCandidate
      <3> HIDE DEF q
      <3>2. (q + 1) * TicksPerMinute <= x * TicksPerMinute /\ (q + 1) * TicksPerMinute \in Nat
        BY SMTT(30), <1>1, <2>2, <3>1
      <3> QED BY SMTT(30), <2>2, <2>3, <3>1, <3>2
    <2>7. \A c \in S : next <= c * TicksPerMinute
      BY <1>4, <2>1, <2>2, <2>5
    <2> QED BY <1>6, <2>1, <2>2, <2>3, <2>4, <2>6, <2>7 DEF next, S
  <1> QED BY <1>5, <1>6

\* Rounding the seconds up ends in the second after the instant.
LEMMA SecondsFacts ==
    ASSUME NEW s, NEW t \in Nat
    PROVE  /\ SecondsUntil(s, t) \in Nat
           /\ NextInstant(s, t) < t + SecondsUntil(s, t) * TicksPerSecond
           /\ t + SecondsUntil(s, t) * TicksPerSecond <= NextInstant(s, t) + TicksPerSecond
  <1> DEFINE next == NextInstant(s, t)
             q == (next - t) \div TicksPerSecond
  <1>1. next \in Nat /\ t < next /\ TicksPerSecond \in Nat \ {0}
    BY UnitFacts, NextIsEarliest
  <1>2. SecondsUntil(s, t) = q + 1
    BY DEF SecondsUntil
  <1> HIDE DEF next
  <1>3. next - t \in Nat
    BY SMTT(30), <1>1
  <1>4. q \in Nat /\ q * TicksPerSecond <= next - t /\ next - t < (q + 1) * TicksPerSecond
    BY <1>1, <1>3, Division
  <1> HIDE DEF q
  <1>5. (q + 1) * TicksPerSecond = q * TicksPerSecond + TicksPerSecond /\ q * TicksPerSecond \in Nat
    BY SMTT(30), <1>1, <1>4
  <1>6. next < t + (q + 1) * TicksPerSecond /\ t + (q + 1) * TicksPerSecond <= next + TicksPerSecond
    BY SMTT(30), <1>1, <1>3, <1>4, <1>5
  <1>7. q + 1 \in Nat
    BY SMTT(30), <1>4
  <1> QED BY <1>2, <1>6, <1>7 DEF next

-----------------------------------------------------------------------------
(* The backoff.                                                              *)

\* A set has twice as many subsets with one more member.
LEMMA PowerOfTwo ==
    ASSUME NEW n \in Nat
    PROVE  2^n \in Nat /\ 2^(n + 1) = 2 * 2^n
  <1> DEFINE A == 1..n
             B == 1..(n + 1)
             P == SUBSET A
             Q == {U \union {n + 1} : U \in P}
             f == [U \in P |-> U \union {n + 1}]
  <1>1. IsFiniteSet(A) /\ Cardinality(A) = n /\ IsFiniteSet(B) /\ Cardinality(B) = n + 1
    <2>1. /\ IsFiniteSet(1..n) /\ Cardinality(1..n) = IF 1 > n THEN 0 ELSE n - 1 + 1
          /\ IsFiniteSet(1..(n + 1)) /\ Cardinality(1..(n + 1)) = IF 1 > n + 1 THEN 0 ELSE (n + 1) - 1 + 1
      BY SMTT(30), FS_Interval
    <2> QED BY SMTT(30), <2>1
  <1>2. IsFiniteSet(P) /\ Cardinality(P) = 2^n /\ IsFiniteSet(SUBSET B) /\ Cardinality(SUBSET B) = 2^(n + 1)
    BY <1>1, FS_SUBSET
  <1>3. n + 1 \notin A /\ B = A \union {n + 1}
    BY SMTT(30)
  <1> HIDE DEF A, B
  <1>4. SUBSET B = P \union Q
    <2>1. ASSUME NEW U \in SUBSET B PROVE U \in P \union Q
      <3>1. CASE n + 1 \notin U
        BY <1>3, <3>1
      <3>2. CASE n + 1 \in U
        <4>1. U \ {n + 1} \in P /\ U = (U \ {n + 1}) \union {n + 1}
          BY <1>3, <3>2
        <4> QED BY <4>1
      <3> QED BY <3>1, <3>2
    <2>2. ASSUME NEW U \in P \union Q PROVE U \in SUBSET B
      BY <1>3
    <2> QED BY <2>1, <2>2
  <1>5. P \intersect Q = {}
    BY <1>3
  <1>6. f \in Bijection(P, Q)
    <2>1. ASSUME NEW U \in P, NEW V \in P, f[U] = f[V] PROVE U = V
      <3>1. U \union {n + 1} = V \union {n + 1} /\ n + 1 \notin U /\ n + 1 \notin V
        BY <1>3, <2>1
      <3> QED BY SMTT(30), <3>1
    <2>2. f \in [P -> Q] /\ \A V \in Q : \E U \in P : f[U] = V
      OBVIOUS
    <2> HIDE DEF f, P, Q
    <2> QED BY <2>1, <2>2 DEF Bijection, Injection, Surjection, IsInjective
  <1> HIDE DEF f, P, Q
  <1>7. IsFiniteSet(Q) /\ Cardinality(Q) = Cardinality(P)
    BY <1>2, <1>6, FS_Bijection DEF ExistsBijection
  <1>8. Cardinality(P) \in Nat
    BY <1>2, FS_CardinalityType
  <1>9. Cardinality(P \union Q) = Cardinality(P) + Cardinality(Q)
    <2>1. Cardinality(P \union Q) = Cardinality(P) + Cardinality(Q) - Cardinality(P \intersect Q)
      BY <1>2, <1>7, FS_Union
    <2>2. Cardinality(P \intersect Q) = 0
      BY <1>5, FS_EmptySet
    <2> QED BY SMTT(30), <1>7, <1>8, <2>1, <2>2
  <1>10. 2^n \in Nat /\ 2^(n + 1) = 2^n + 2^n
    BY <1>2, <1>4, <1>7, <1>9, <1>8
  <1> QED BY SMTT(30), <1>10

First(base) == IF base <= 0 THEN 1 ELSE base

\* The doublings after which the cap is reached.
Enough(v) == {i \in Nat : v * 2^i >= Cap}
Backoff(v, i) ==
    IF Enough(v) # {} /\ i >= Least(Enough(v)) THEN v * 2^Least(Enough(v)) ELSE v * 2^i

LEMMA BackoffTurn ==
    ASSUME NEW v \in Nat \ {0}, NEW i \in Nat
    PROVE  /\ Backoff(v, 0) = v
           /\ Backoff(v, i + 1) = IF Backoff(v, i) >= Cap THEN Backoff(v, i) ELSE 2 * Backoff(v, i)
  <1> DEFINE G == Enough(v)
             L == Least(G)
  <1>0. Cap \in Nat
    BY RetryAssumption
  <1>1. /\ G \in SUBSET Nat /\ \A k \in Nat : k \in G <=> v * 2^k >= Cap
        /\ G # {} => L \in G /\ L \in Nat /\ \A k \in G : L <= k
    <2>1. G \in SUBSET Nat /\ \A k \in Nat : k \in G <=> v * 2^k >= Cap
      BY DEF Enough
    <2>2. G # {} => L \in G /\ \A k \in G : L <= k
      BY <2>1, LeastFacts
    <2> QED BY <2>1, <2>2
  <1>2. /\ 2^0 = 1 /\ 2^i \in Nat /\ 2^(i + 1) = 2 * 2^i /\ v * 2^i \in Nat /\ v * 2^(i + 1) = 2 * (v * 2^i)
        /\ v * 2^0 = v
    <2>1. 2^0 = 1
      BY SMTT(30)
    <2>2. 2^i \in Nat /\ 2^(i + 1) = 2 * 2^i
      BY PowerOfTwo
    <2>3. \A p \in Nat : v * p \in Nat /\ v * (2 * p) = 2 * (v * p) /\ v * 1 = v
      BY SMTT(30)
    <2> QED BY <2>1, <2>2, <2>3
  <1>3. \A k : Backoff(v, k) = IF G # {} /\ k >= L THEN v * 2^L ELSE v * 2^k
    BY DEF Backoff
  <1> HIDE DEF G, L
  <1>4. Backoff(v, 0) = v
    <2>1. ASSUME G # {}, 0 >= L PROVE L = 0
      BY SMTT(30), <1>1, <2>1
    <2> QED BY <1>2, <1>3, <2>1
  <1>5. CASE G # {} /\ i >= L
    <2>1. i + 1 >= L
      BY SMTT(30), <1>1, <1>5
    <2>2. v * 2^L >= Cap
      BY <1>1, <1>5
    <2> QED BY <1>3, <1>4, <1>5, <2>1, <2>2
  <1>6. CASE ~(G # {} /\ i >= L)
    <2>1. i \notin G
      <3>1. ASSUME i \in G PROVE FALSE
        <4>1. G # {} /\ L \in Nat /\ L <= i
          BY <1>1, <3>1
        <4> QED BY <1>6, <4>1
      <3> QED BY <3>1
    <2>2. ~(Backoff(v, i) >= Cap) /\ Backoff(v, i) = v * 2^i
      BY <1>1, <1>3, <1>6, <2>1
    <2>3. ASSUME G # {}, i + 1 >= L PROVE L = i + 1
      BY SMTT(30), <1>1, <1>6, <2>3
    <2>4. Backoff(v, i + 1) = v * 2^(i + 1)
      BY <1>3, <2>3
    <2> QED BY <1>2, <1>4, <2>2, <2>4
  <1> QED BY <1>5, <1>6

\* The loop doubles until the cap is reached.
LEMMA ExponentialIsBackoff ==
    ASSUME NEW base \in Int, NEW n \in Nat \ {0}
    PROVE  exponential(base, n) = Backoff(First(base), n - 1)
  <1> DEFINE v == First(base)
             IsAfter(f) == f = [i \in Nat |-> IF i = 0 THEN (IF base <= 0 THEN 1 ELSE base)
                                              ELSE IF f[i - 1] >= Cap THEN f[i - 1] ELSE 2 * f[i - 1]]
             after == CHOOSE f : IsAfter(f)
             h == [i \in Nat |-> Backoff(v, i)]
  <1>1. v \in Nat \ {0} /\ v = IF base <= 0 THEN 1 ELSE base
    BY SMTT(30) DEF First
  <1> HIDE DEF v
  <1>2. ASSUME NEW i \in Nat, i # 0
        PROVE  /\ i - 1 \in Nat
               /\ Backoff(v, i) = IF Backoff(v, i - 1) >= Cap THEN Backoff(v, i - 1) ELSE 2 * Backoff(v, i - 1)
    <2> DEFINE k == i - 1
    <2>1. k \in Nat /\ k + 1 = i
      BY SMTT(30), <1>2
    <2> HIDE DEF k
    <2>2. Backoff(v, k + 1) = IF Backoff(v, k) >= Cap THEN Backoff(v, k) ELSE 2 * Backoff(v, k)
      BY <1>1, <2>1, BackoffTurn
    <2> QED BY <2>1, <2>2 DEF k
  <1>3. Backoff(v, 0) = v
    <2>1. 0 \in Nat
      OBVIOUS
    <2> QED BY <1>1, <2>1, BackoffTurn
  <1>4. IsAfter(h)
    BY <1>1, <1>2, <1>3
  <1>5. IsAfter(after)
    <2> HIDE DEF IsAfter
    <2> QED BY <1>4
  <1>6. exponential(base, n) = after[n - 1]
    BY DEF exponential, Doublings
  <1> HIDE DEF after
  <1>7. \A i \in Nat : after[i] = IF i = 0 THEN (IF base <= 0 THEN 1 ELSE base)
                                  ELSE IF after[i - 1] >= Cap THEN after[i - 1] ELSE 2 * after[i - 1]
    BY <1>5
  <1> DEFINE T == {i \in Nat : after[i] # Backoff(v, i)}
  <1>8. T = {}
    <2> SUFFICES ASSUME T # {} PROVE FALSE
      OBVIOUS
    <2>1. PICK m \in T : \A k \in T : m <= k
      BY LeastNat
    <2>2. m \in Nat /\ m # 0
      BY <1>1, <1>3, <1>7, <2>1
    <2>3. m - 1 \in Nat /\ ~(m <= m - 1)
      BY SMTT(30), <2>2
    <2>4. after[m - 1] = Backoff(v, m - 1)
      BY <2>1, <2>3
    <2> QED BY <1>2, <1>7, <2>1, <2>2, <2>4
  <1>9. n - 1 \in Nat
    BY SMTT(30)
  <1> QED BY <1>6, <1>8, <1>9 DEF v

LEMMA BackoffFacts ==
    ASSUME NEW v \in Nat \ {0}, NEW n \in Nat \ {0}
    PROVE  /\ \/ Backoff(v, n - 1) = v * 2^(n - 1)
              \/ \E k \in 0..(n - 2) : /\ Backoff(v, n - 1) = v * 2^k /\ Backoff(v, n - 1) >= Cap
                                       /\ k > 0 => v * 2^(k - 1) < Cap
           /\ v < Cap => Backoff(v, n - 1) < 2 * Cap
  <1> DEFINE G == Enough(v)
             L == Least(G)
             x == Backoff(v, n - 1)
  <1>0. Cap \in Nat /\ n - 1 \in Nat
    BY SMTT(30), RetryAssumption
  <1>1. ASSUME NEW k \in Nat PROVE v * 2^k \in Nat /\ v * 2^(k + 1) = 2 * (v * 2^k)
    <2>1. 2^k \in Nat /\ 2^(k + 1) = 2 * 2^k
      BY PowerOfTwo
    <2>2. \A p \in Nat : v * p \in Nat /\ v * (2 * p) = 2 * (v * p)
      BY SMTT(30)
    <2> QED BY <2>1, <2>2
  <1>2. ASSUME NEW k \in Nat, k \notin G PROVE v * 2^k < Cap
    <2>1. ~(v * 2^k >= Cap)
      BY <1>2 DEF Enough
    <2>2. v * 2^k \in Nat
      BY <1>1
    <2> QED BY SMTT(30), <1>0, <2>1, <2>2
  <1>3. G # {} => L \in G /\ L \in Nat /\ \A k \in G : L <= k
    <2>1. G \in SUBSET Nat
      BY DEF Enough
    <2> QED BY <2>1, LeastFacts
  <1>4. \A k \in G : v * 2^k >= Cap
    BY DEF Enough
  <1>5. x = IF G # {} /\ n - 1 >= L THEN v * 2^L ELSE v * 2^(n - 1)
    BY DEF Backoff
  <1>6. v * 2^0 = v
    BY SMTT(30)
  <1> HIDE DEF G, L, x
  <1>7. CASE G # {} /\ n - 1 >= L
    <2>1. L \in G /\ L \in Nat /\ x = v * 2^L /\ x >= Cap
      BY <1>3, <1>4, <1>5, <1>7
    <2>2. ASSUME L # 0 PROVE L - 1 \in Nat /\ v * 2^(L - 1) < Cap /\ x = 2 * (v * 2^(L - 1)) /\ v * 2^(L - 1) \in Nat
      <3>1. L - 1 \in Nat /\ (L - 1) + 1 = L /\ ~(L <= L - 1)
        BY SMTT(30), <2>1, <2>2
      <3>2. L - 1 \notin G
        BY <1>3, <2>1, <3>1
      <3> QED BY <1>1, <1>2, <2>1, <3>1, <3>2
    <2>3. L = n - 1 \/ L \in 0..(n - 2)
      BY SMTT(30), <1>7, <2>1
    <2>4. L > 0 => L # 0
      BY SMTT(30)
    <2>5. v < Cap => x < 2 * Cap
      <3>1. CASE L = 0
        <4>1. x = v
          BY <1>6, <2>1, <3>1
        <4> QED BY SMTT(30), <1>0, <2>1, <4>1
      <3>2. CASE L # 0
        BY SMTT(30), <1>0, <2>2, <3>2
      <3> QED BY <3>1, <3>2
    <2> QED BY <2>1, <2>2, <2>3, <2>4, <2>5 DEF x
  <1>8. CASE ~(G # {} /\ n - 1 >= L)
    <2>1. n - 1 \notin G
      <3>1. ASSUME n - 1 \in G PROVE FALSE
        <4>1. G # {} /\ L \in Nat /\ L <= n - 1
          BY <1>3, <3>1
        <4> QED BY <1>0, <1>8, <4>1
      <3> QED BY <3>1
    <2>2. x = v * 2^(n - 1) /\ x < Cap /\ x \in Nat
      BY <1>0, <1>1, <1>2, <1>5, <1>8, <2>1
    <2>3. x < 2 * Cap
      BY SMTT(30), <1>0, <2>2
    <2> QED BY <2>2, <2>3 DEF x
  <1> QED BY <1>7, <1>8

-----------------------------------------------------------------------------
(* The retries of a task.                                                    *)

\* The delay is the policy's for the failures so far, and time is a number.
RetryInv ==
    \/ retry = Unused
    \/ /\ retry \in Policies /\ failures \in Nat \ {0}
       /\ delay = NextDelay(retry, failures, now)
       /\ retry.kind = "cron" => now \in Nat

LEMMA CronDelay ==
    ASSUME NEW p, p.kind = "cron", NEW n, NEW t
    PROVE  NextDelay(p, n, t) = SecondsUntil(ParseCron(p.cron), t)
  <1>1. p.kind # "exponential"
    OBVIOUS
  <1> QED BY <1>1 DEF NextDelay

LEMMA RetryInitial == Init => RetryInv
  <1>1. 1 \in Nat \ {0} /\ 0 \in Nat
    BY SMTT(30)
  <1>2. RetryInit => RetryInv
    <2> SUFFICES ASSUME RetryInit PROVE RetryInv
      OBVIOUS
    <2>1. retry \in Policies /\ failures = 1 /\ delay = NextDelay(retry, failures, now)
      BY DEF RetryInit
    <2>2. retry.kind = "cron" => now \in Nat
      BY RetryAssumption DEF RetryInit
    <2> QED BY <1>1, <2>1, <2>2 DEF RetryInv
  <1> QED BY <1>2 DEF Init, NoRetry, RetryInv

LEMMA RetryStep == RetryInv /\ [Next]_vars => RetryInv'
  <1> SUFFICES ASSUME RetryInv, [Next]_vars PROVE RetryInv'
    OBVIOUS
  <1>1. retry' = retry
    BY DEF Next, FailAgain, Fail, Dispatch, Layer, vars, retryVars
  <1>2. CASE retry = Unused
    BY <1>1, <1>2 DEF RetryInv
  <1>3. CASE retry # Unused /\ UNCHANGED retryVars
    BY <1>3 DEF RetryInv, retryVars
  <1>4. CASE retry # Unused /\ Fail
    <2>1. retry \in Policies /\ failures \in Nat \ {0} /\ delay = NextDelay(retry, failures, now)
      BY <1>4 DEF RetryInv
    <2>2. failures' = failures + 1 /\ delay' = NextDelay(retry', failures', now')
      BY <1>1, <1>4 DEF Fail
    <2>3. failures' \in Nat \ {0}
      BY SMTT(30), <2>1, <2>2
    <2>4. ASSUME retry.kind = "cron" PROVE now' \in Nat
      <3>1. now \in Nat
        BY <1>4, <2>4 DEF RetryInv
      <3>2. delay \in Nat
        <4>1. NextDelay(retry, failures, now) = SecondsUntil(ParseCron(retry.cron), now)
          BY <2>4, CronDelay
        <4>2. SecondsUntil(ParseCron(retry.cron), now) \in Nat
          BY <3>1, SecondsFacts
        <4> QED BY <2>1, <4>1, <4>2
      <3>3. PICK lag \in Lags : now' = now + delay * TicksPerSecond + lag
        BY <1>4 DEF Fail
      <3>4. lag \in Nat /\ TicksPerSecond \in Nat
        BY RetryAssumption, UnitFacts
      <3>5. delay * TicksPerSecond \in Nat
        BY SMTT(30), <3>2, <3>4
      <3> QED BY SMTT(30), <3>1, <3>3, <3>4, <3>5
    <2> QED BY <1>1, <2>1, <2>2, <2>3, <2>4 DEF RetryInv
  <1>5. Fail \/ UNCHANGED retryVars
    BY DEF Next, FailAgain, Dispatch, Layer, vars
  <1> QED BY <1>2, <1>3, <1>4, <1>5

LEMMA UnusedFacts == Unused.kind = "fixed" /\ "fixed" # "cron" /\ "fixed" # "exponential"
  BY DEF Unused

\* On every calendar and from every instant, the jumps over months, days and
\* hours in CronSchedule.Next pass over no minute that matches.
THEOREM NextEarliest == Spec => []CronNextEarliest
  <1>1. ASSUME RetryInv, retry.kind = "cron" PROVE CronNextEarliest
    <2> DEFINE s == ParseCron(retry.cron)
               next == NextInstant(s, now)
    <2>1. now \in Nat
      BY <1>1, UnusedFacts DEF RetryInv
    <2>2. Ahead = AheadOf(s, now)
      BY DEF Ahead, AheadOf
    <2>3. /\ Ahead = {} => next = now + TicksPerDay
          /\ Ahead # {} => /\ next % TicksPerMinute = 0
                           /\ next \div TicksPerMinute \in Ahead
                           /\ \A c \in Ahead : next <= c * TicksPerMinute
      BY <2>1, <2>2, NextIsEarliest
    <2> QED BY <2>3 DEF CronNextEarliest
  <1>2. RetryInv => CronNextEarliest
    BY <1>1 DEF CronNextEarliest
  <1> QED BY <1>2, RetryInitial, RetryStep, PTL DEF Spec

\* However the failures fall within a second, a cron retry comes due in the
\* first second of a minute that matches (the seconds rounded up in NextDelay).
THEOREM RetriesInMinute == Spec => []CronRetryInMinute
  <1>1. ASSUME RetryInv, retry.kind = "cron", Ahead # {} PROVE CronRetryInMinute
    <2> DEFINE s == ParseCron(retry.cron)
               next == NextInstant(s, now)
               due == now + delay * TicksPerSecond
    <2>1. now \in Nat /\ delay = SecondsUntil(s, now)
      BY <1>1, UnusedFacts, CronDelay DEF RetryInv
    <2>2. Ahead = AheadOf(s, now)
      BY DEF Ahead, AheadOf
    <2>3. next \div TicksPerMinute \in Ahead /\ next = (next \div TicksPerMinute) * TicksPerMinute /\ next \in Nat
      BY <1>1, <2>1, <2>2, NextIsEarliest
    <2>4. delay \in Nat /\ next < due /\ due <= next + TicksPerSecond
      BY <2>1, SecondsFacts
    <2>5. due > next
      <3>1. due \in Nat
        <4>1. TicksPerSecond \in Nat
          BY UnitFacts
        <4> QED BY SMTT(30), <2>1, <2>4, <4>1
      <3> HIDE DEF due, next
      <3> QED BY <2>3, <2>4, <3>1
    <2> DEFINE c == next \div TicksPerMinute
    <2>6. c \in Ahead /\ due > c * TicksPerMinute /\ due <= c * TicksPerMinute + TicksPerSecond
      BY <2>3, <2>4, <2>5
    <2> HIDE DEF c
    <2> QED BY <2>6 DEF CronRetryInMinute
  <1>2. RetryInv => CronRetryInMinute
    BY <1>1 DEF CronRetryInMinute
  <1> QED BY <1>2, RetryInitial, RetryStep, PTL DEF Spec

\* For every base and cap, the delays double until one reaches the cap and then
\* stay there, below twice the cap (the loop of NextDelay).
THEOREM DelaysDouble == Spec => []BackoffDoubles
  <1>1. ASSUME RetryInv, retry.kind = "exponential" PROVE BackoffDoubles
    <2> DEFINE v == IF retry.base <= 0 THEN 1 ELSE retry.base
    <2>1. retry \in Policies /\ failures \in Nat \ {0} /\ delay = NextDelay(retry, failures, now)
      BY <1>1, UnusedFacts DEF RetryInv
    <2>2. retry.base \in Int
      BY <1>1, <2>1, RetryAssumption
    <2>3. v \in Nat \ {0} /\ v = First(retry.base)
      BY SMTT(30), <2>2 DEF First
    <2>4. NextDelay(retry, failures, now) = exponential(retry.base, failures)
      <3>1. "exponential" # "cron"
        OBVIOUS
      <3> QED BY <1>1, <3>1 DEF NextDelay
    <2>5. delay = Backoff(v, failures - 1)
      BY <2>1, <2>2, <2>3, <2>4, ExponentialIsBackoff
    <2> HIDE DEF v
    <2>6. /\ \/ delay = v * 2^(failures - 1)
             \/ \E k \in 0..(failures - 2) : delay = v * 2^k /\ delay >= Cap /\ (k > 0 => v * 2^(k - 1) < Cap)
          /\ v < Cap => delay < 2 * Cap
      <3> DEFINE x == Backoff(v, failures - 1)
      <3>1. /\ \/ x = v * 2^(failures - 1)
               \/ \E k \in 0..(failures - 2) : x = v * 2^k /\ x >= Cap /\ (k > 0 => v * 2^(k - 1) < Cap)
            /\ v < Cap => x < 2 * Cap
        BY <2>1, <2>3, BackoffFacts
      <3>2. delay = x
        BY <2>5
      <3> HIDE DEF x
      <3> QED BY <3>1, <3>2
    <2> QED BY <2>6 DEF BackoffDoubles, v
  <1>2. RetryInv => BackoffDoubles
    BY <1>1 DEF BackoffDoubles
  <1> QED BY <1>2, RetryInitial, RetryStep, PTL DEF Spec
=============================================================================
