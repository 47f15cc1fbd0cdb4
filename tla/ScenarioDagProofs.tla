-------------------------- MODULE ScenarioDagProofs --------------------------
(***************************************************************************)
(* That Scenario.validate_dag is right, for plans of any number of steps:   *)
(* the rounds in which it removes the roots empty the graph just when no    *)
(* step depends on itself.                                                  *)
(***************************************************************************)
EXTENDS ScenarioDag, FiniteSetTheorems, WellFoundedInduction, TLAPS

\* f[k] is what is left of the graph of plan p after k rounds, up to the m-th.
Rounds(p, m, f) ==
    f = [k \in 0 .. m |-> IF k = 0 THEN StepsOf(p) ELSE f[k - 1] \ Roots(p, f[k - 1])]

\* The library's well-founded induction, as the least element of a set.
LEMMA SmallestNat ==
    ASSUME NEW S, S \subseteq Nat, S # {}
    PROVE  \E x \in S : \A y \in S : x <= y
<1>1. PICK m \in S : \A k \in S : ~ (<<k, m>> \in OpToRel(<, Nat))
  BY NatLessThanWellFounded, WFMin
<1>2. OpToRel(<, Nat) = {p \in Nat \X Nat : p[1] < p[2]}
  BY Zenon DEF OpToRel
<1>3. ASSUME NEW k \in S PROVE m <= k
  <2>1. k \in Nat /\ m \in Nat
    OBVIOUS
  <2>2. ~ (<<k, m>> \in {p \in Nat \X Nat : p[1] < p[2]})
    BY <1>1, <1>2
  <2> QED
    BY <2>1, <2>2
<1> QED
  BY <1>3

\* The recursive function of Acyclic exists: m is the least number of rounds
\* for which it would not.
LEMMA RoundsExist ==
    ASSUME NEW p, NEW n \in Nat
    PROVE  \E f : Rounds(p, n, f)
<1> SUFFICES ASSUME ~\E f : Rounds(p, n, f) PROVE FALSE
  OBVIOUS
<1> DEFINE None == {m \in Nat : ~\E f : Rounds(p, m, f)}
<1>1. n \in None
  OBVIOUS
<1>2. PICK m \in None : \A k \in None : m <= k
  <2>1. None \subseteq Nat /\ None # {}
    BY <1>1
  <2> HIDE DEF None
  <2> QED
    BY <2>1, SmallestNat
<1>3. m # 0
  <2> DEFINE f == [k \in 0 .. 0 |-> StepsOf(p)]
  <2>1. Rounds(p, 0, f)
    BY DEF Rounds
  <2> QED
    BY <2>1
<1>4. m - 1 \in Nat /\ m - 1 \notin None
  BY <1>2, <1>3
<1>5. PICK f : Rounds(p, m - 1, f)
  BY <1>4
<1> DEFINE g == [k \in 0 .. m |-> IF k = m THEN f[m - 1] \ Roots(p, f[m - 1]) ELSE f[k]]
<1>6. ASSUME NEW k \in 0 .. m
      PROVE  g[k] = IF k = 0 THEN StepsOf(p) ELSE g[k - 1] \ Roots(p, g[k - 1])
  <2>1. CASE k = m
    <3>1. m - 1 \in 0 .. m /\ m - 1 # m
      BY <1>4
    <3> QED
      BY <1>3, <2>1, <3>1
  <2>2. CASE k # m
    <3>1. k \in 0 .. m - 1 /\ (k # 0 => k - 1 \in 0 .. m /\ k - 1 # m)
      BY <1>4, <2>2
    <3>2. f[k] = IF k = 0 THEN StepsOf(p) ELSE f[k - 1] \ Roots(p, f[k - 1])
      BY <1>5, <3>1 DEF Rounds
    <3>3. g[k] = f[k] /\ (k # 0 => g[k - 1] = f[k - 1])
      BY <2>2, <3>1
    <3> QED
      BY <3>2, <3>3
  <2> QED
    BY <2>1, <2>2
<1>7. Rounds(p, m, g)
  <2>1. g = [k \in 0 .. m |-> g[k]]
    OBVIOUS
  <2> HIDE DEF g
  <2> QED
    BY <1>6, <2>1 DEF Rounds
<1> QED
  BY <1>7

\* validate_dag's loop empties the graph.
LEMMA AcyclicRounds ==
    ASSUME NEW p, p.steps \in Nat, Acyclic(p)
    PROVE  \E f : Rounds(p, p.steps, f) /\ f[p.steps] = {}
<1> DEFINE graph == CHOOSE f : Rounds(p, p.steps, f)
<1>1. Rounds(p, p.steps, graph)
  <2>1. \E f : Rounds(p, p.steps, f)
    BY RoundsExist
  <2> QED
   BY <2>1
<1>2. graph[p.steps] = {}
  BY DEF Acyclic, Rounds
<1> QED
  BY <1>1, <1>2

\* In a plan that validate_dag accepts, some step of any nonempty set of steps
\* depends on no other step of that set: the set survives no round whole.
LEMMA AcyclicNoKnot ==
    ASSUME NEW p, p.steps \in Nat, Acyclic(p), NEW Q \in SUBSET StepsOf(p),
           \A s \in Q : p.deps[s] \cap Q # {}
    PROVE  Q = {}
<1>1. PICK f : Rounds(p, p.steps, f) /\ f[p.steps] = {}
  BY AcyclicRounds
<1> DEFINE Out == {k \in 0 .. p.steps : ~(Q \subseteq f[k])}
<1>2. CASE Out = {}
  <2>1. p.steps \in 0 .. p.steps
    OBVIOUS
  <2> QED
    BY <1>1, <1>2, <2>1
<1>3. CASE Out # {}
  <2>1. PICK k \in Out : \A j \in Out : k <= j
    <3>1. Out \subseteq Nat
      OBVIOUS
    <3> HIDE DEF Out
    <3> QED
      BY <1>3, <3>1, SmallestNat
  <2>2. f[0] = StepsOf(p)
    <3>1. 0 \in 0 .. p.steps
      OBVIOUS
    <3> QED
      BY <1>1, <3>1 DEF Rounds
  <2>3. k # 0
    BY <2>1, <2>2
  <2>4. k - 1 \in 0 .. p.steps /\ k - 1 \notin Out
    BY <2>1, <2>3
  <2>5. Q \subseteq f[k - 1]
    BY <2>4
  <2>6. f[k] = f[k - 1] \ Roots(p, f[k - 1])
    BY <1>1, <2>1, <2>3 DEF Rounds
  <2>7. Q \cap Roots(p, f[k - 1]) = {}
    BY <2>5 DEF Roots
  <2> QED
    BY <2>1, <2>5, <2>6, <2>7
<1> QED
  BY <1>2, <1>3

-----------------------------------------------------------------------------
(* What a step depends on. *)

\* The steps of a plan that s names in its depends_on.
Named(p, s) == p.deps[s] \cap StepsOf(p)

\* A set of steps with all that they depend on.
Closed(p, T) == \A t \in T : Named(p, t) \subseteq T

\* DependsOn is such a set, around the dependencies of the step, and the least.
LEMMA DependsOnLeast ==
    ASSUME NEW p, NEW s \in StepsOf(p)
    PROVE  /\ DependsOn(p)[s] \subseteq StepsOf(p)
           /\ Named(p, s) \subseteq DependsOn(p)[s] /\ Closed(p, DependsOn(p)[s])
           /\ \A T \in SUBSET StepsOf(p) :
                 Named(p, s) \subseteq T /\ Closed(p, T) => DependsOn(p)[s] \subseteq T
<1> DEFINE D == DependsOn(p)[s]
<1>1. D = {d \in StepsOf(p) : \A T \in SUBSET StepsOf(p) :
                                 Named(p, s) \subseteq T /\ Closed(p, T) => d \in T}
  BY DEF DependsOn, Named, Closed
<1> HIDE DEF D
<1>2. D \subseteq StepsOf(p) /\ Named(p, s) \subseteq D
  BY <1>1 DEF Named
<1>3. ASSUME NEW t \in D, NEW d \in Named(p, t) PROVE d \in D
  <2>1. d \in StepsOf(p)
    BY DEF Named
  <2>2. ASSUME NEW T \in SUBSET StepsOf(p), Named(p, s) \subseteq T, Closed(p, T)
        PROVE  d \in T
    <3>1. t \in T
      BY <1>1, <2>2
    <3> QED
      BY <2>2, <3>1 DEF Closed
  <2> QED
    BY <1>1, <2>1, <2>2
<1>4. Closed(p, D)
  BY <1>3 DEF Closed
<1>5. \A T \in SUBSET StepsOf(p) : Named(p, s) \subseteq T /\ Closed(p, T) => D \subseteq T
  BY <1>1
<1> QED
  BY <1>2, <1>4, <1>5 DEF D

\* What a step depends on is what it names and what those depend on.
LEMMA DependsOnStep ==
    ASSUME NEW p, NEW s \in StepsOf(p), NEW d \in DependsOn(p)[s]
    PROVE  /\ d \in StepsOf(p)
           /\ DependsOn(p)[d] \subseteq DependsOn(p)[s]
           /\ \E e \in Named(p, s) : d = e \/ d \in DependsOn(p)[e]
<1>1. d \in StepsOf(p)
  BY DependsOnLeast
<1>2. DependsOn(p)[d] \subseteq DependsOn(p)[s]
  <2>1. Named(p, d) \subseteq DependsOn(p)[s] /\ Closed(p, DependsOn(p)[s])
    BY DependsOnLeast DEF Closed
  <2> QED
    BY <1>1, <2>1, DependsOnLeast
<1>3. \E e \in Named(p, s) : d = e \/ d \in DependsOn(p)[e]
  <2> DEFINE T == {t \in StepsOf(p) : \E e \in Named(p, s) : t = e \/ t \in DependsOn(p)[e]}
  <2>1. Named(p, s) \subseteq T
    BY DEF Named
  <2>2. ASSUME NEW t \in T, NEW u \in Named(p, t) PROVE u \in T
    <3>1. PICK e \in Named(p, s) : t = e \/ t \in DependsOn(p)[e]
      OBVIOUS
    <3>2. e \in StepsOf(p) /\ u \in StepsOf(p)
      BY DEF Named
    <3>3. u \in DependsOn(p)[e]
      BY <3>1, <3>2, DependsOnLeast DEF Closed
    <3> QED
      BY <3>1, <3>2, <3>3
  <2>3. Closed(p, T)
    BY <2>2 DEF Closed
  <2>4. T \in SUBSET StepsOf(p)
    OBVIOUS
  <2>5. d \in T
    <3> HIDE DEF T
    <3> QED
      BY <2>1, <2>3, <2>4, DependsOnLeast
  <2> QED
    BY <2>5
<1> QED
  BY <1>1, <1>2, <1>3

\* A plan that validate_dag accepts has no step that depends on itself: those
\* steps would each name another of them.
LEMMA AcyclicNoCycle ==
    ASSUME NEW p, p.steps \in Nat, Acyclic(p)
    PROVE  \A s \in StepsOf(p) : s \notin DependsOn(p)[s]
<1> DEFINE Q == {s \in StepsOf(p) : s \in DependsOn(p)[s]}
<1>1. ASSUME NEW s \in Q PROVE p.deps[s] \cap Q # {}
  <2>1. PICK e \in Named(p, s) : s = e \/ s \in DependsOn(p)[e]
    BY DependsOnStep
  <2>2. e \in p.deps[s] /\ e \in StepsOf(p)
    BY DEF Named
  <2>3. e \in DependsOn(p)[e]
    <3>1. CASE s = e
      BY <3>1
    <3>2. CASE s \in DependsOn(p)[e]
      BY <2>1, <2>2, <3>2, DependsOnLeast DEF Closed
    <3> QED
      BY <2>1, <3>1, <3>2
  <2> QED
    BY <2>2, <2>3
<1>2. Q = {}
  <2>1. Q \in SUBSET StepsOf(p)
    OBVIOUS
  <2> HIDE DEF Q
  <2> QED
    BY <1>1, <2>1, AcyclicNoKnot
<1> QED
  BY <1>2

\* Steps each of which names another of them have one that depends on itself:
\* the one that depends on the fewest.
LEMMA KnotHasCycle ==
    ASSUME NEW p, p.steps \in Nat, NEW Q \in SUBSET StepsOf(p), Q # {},
           \A s \in Q : p.deps[s] \cap Q # {}
    PROVE  \E s \in Q : s \in DependsOn(p)[s]
<1> SUFFICES ASSUME \A s \in Q : s \notin DependsOn(p)[s] PROVE FALSE
  OBVIOUS
<1> DEFINE Size(s) == Cardinality(DependsOn(p)[s])
           Sizes == {Size(s) : s \in Q}
<1>1. \A s \in StepsOf(p) : IsFiniteSet(DependsOn(p)[s])
  <2>1. IsFiniteSet(StepsOf(p))
    BY FS_Interval DEF StepsOf
  <2> QED
    BY <2>1, DependsOnLeast, FS_Subset
<1>2. Sizes \subseteq Nat /\ Sizes # {}
  BY <1>1, FS_CardinalityType
<1>3. PICK m \in Sizes : \A k \in Sizes : m <= k
  <2> HIDE DEF Sizes
  <2> QED
    BY <1>2, SmallestNat
<1>4. PICK s \in Q : m = Size(s)
  OBVIOUS
<1>5. PICK d \in p.deps[s] : d \in Q
  OBVIOUS
<1>6. d \in DependsOn(p)[s] /\ d \notin DependsOn(p)[d]
  BY <1>5, DependsOnLeast DEF Named
<1>7. DependsOn(p)[d] \subseteq DependsOn(p)[s]
  BY <1>6, DependsOnStep
<1>8. Size(d) < Size(s)
  <2>1. Size(d) <= Size(s) /\ Size(d) # Size(s)
    BY <1>1, <1>6, <1>7, FS_Subset
  <2>2. Size(d) \in Nat /\ Size(s) \in Nat
    BY <1>1, <1>5, FS_CardinalityType
  <2> QED
    BY <2>1, <2>2
<1>9. Size(s) <= Size(d)
  BY <1>3, <1>4, <1>5
<1>10. Size(d) \in Nat /\ Size(s) \in Nat
  BY <1>1, <1>5, FS_CardinalityType
<1> QED
  BY <1>8, <1>9, <1>10

\* What is left of the graph is steps of the plan.
LEMMA RoundsOfSteps ==
    ASSUME NEW p, NEW m \in Nat, NEW f, Rounds(p, m, f)
    PROVE  \A k \in 0 .. m : f[k] \subseteq StepsOf(p)
<1> DEFINE Out == {k \in 0 .. m : ~(f[k] \subseteq StepsOf(p))}
<1> SUFFICES ASSUME Out # {} PROVE FALSE
  OBVIOUS
<1>1. PICK k \in Out : \A j \in Out : k <= j
  <2>1. Out \subseteq Nat
    OBVIOUS
  <2> HIDE DEF Out
  <2> QED
    BY <2>1, SmallestNat
<1>2. f[k] = IF k = 0 THEN StepsOf(p) ELSE f[k - 1] \ Roots(p, f[k - 1])
  BY DEF Rounds
<1>3. k # 0
  BY <1>2
<1>4. k - 1 \in 0 .. m /\ k - 1 \notin Out
  BY <1>1, <1>3
<1> QED
  BY <1>2, <1>3, <1>4

\* A graph from which every round takes something is empty after one round for
\* each step.
LEMMA RoundsShrink ==
    ASSUME NEW p, p.steps \in Nat, NEW f, Rounds(p, p.steps, f),
           \A k \in 0 .. p.steps - 1 : f[k] # {} => Roots(p, f[k]) # {}
    PROVE  f[p.steps] = {}
<1> DEFINE n == p.steps
           Small(k) == /\ f[k] \subseteq StepsOf(p) /\ IsFiniteSet(f[k])
                       /\ Cardinality(f[k]) <= n - k
           Big == {k \in 0 .. n : ~Small(k)}
<1>1. \A k \in 0 .. n : f[k] = IF k = 0 THEN StepsOf(p) ELSE f[k - 1] \ Roots(p, f[k - 1])
  BY DEF Rounds
<1>2. Small(0)
  <2>1. f[0] = StepsOf(p)
    <3>1. 0 \in 0 .. n
      OBVIOUS
    <3> QED
      BY <1>1, <3>1
  <2>2. IsFiniteSet(StepsOf(p)) /\ Cardinality(StepsOf(p)) = n
    <3>1. 1 \in Int /\ n \in Int
      OBVIOUS
    <3> HIDE DEF n
    <3>2. /\ Cardinality(1 .. n) = IF 1 > n THEN 0 ELSE n - 1 + 1
          /\ IsFiniteSet(1 .. n)
      BY <3>1, FS_Interval, Zenon
    <3>3. StepsOf(p) = 1 .. n
      BY DEF StepsOf, n
    <3>4. n \in Nat
      BY DEF n
    <3> QED
      BY <3>2, <3>3, <3>4
  <2> QED
    BY <2>1, <2>2
<1>3. ASSUME NEW k \in 0 .. n - 1, Small(k) PROVE Small(k + 1)
  <2>1. f[k + 1] = f[k] \ Roots(p, f[k])
    <3>1. k + 1 \in 0 .. n /\ k + 1 # 0 /\ (k + 1) - 1 = k
      OBVIOUS
    <3> QED
      BY <1>1, <3>1
  <2>2. CASE f[k] = {}
    <3>1. f[k + 1] = {}
      BY <2>1, <2>2
    <3> QED
      BY <3>1, FS_EmptySet
  <2>3. CASE f[k] # {}
    <3>1. PICK x \in Roots(p, f[k]) : x \in f[k]
      BY <2>3 DEF Roots
    <3>2. f[k + 1] \subseteq f[k] \ {x}
      BY <2>1, <3>1
    <3>3. IsFiniteSet(f[k] \ {x}) /\ Cardinality(f[k] \ {x}) = Cardinality(f[k]) - 1
      BY <1>3, <3>1, FS_RemoveElement
    <3>4. IsFiniteSet(f[k + 1]) /\ Cardinality(f[k + 1]) <= Cardinality(f[k] \ {x})
      BY <3>2, <3>3, FS_Subset
    <3>5. Cardinality(f[k]) \in Nat /\ Cardinality(f[k + 1]) \in Nat
      BY <1>3, <3>4, FS_CardinalityType
    <3>6. Cardinality(f[k + 1]) <= n - (k + 1)
      BY <1>3, <3>3, <3>4, <3>5
    <3> QED
      BY <1>3, <3>2, <3>4, <3>6
  <2> QED
    BY <2>2, <2>3
<1>4. Big = {}
  <2> SUFFICES ASSUME Big # {} PROVE FALSE
    OBVIOUS
  <2>1. PICK k \in Big : \A j \in Big : k <= j
    <3>1. Big \subseteq Nat
      OBVIOUS
    <3> HIDE DEF Big
    <3> QED
      BY <3>1, SmallestNat
  <2>2. k # 0
    BY <1>2
  <2>3. k - 1 \in 0 .. n - 1 /\ k - 1 \notin Big
    BY <2>1, <2>2
  <2>4. Small(k - 1)
    BY <2>3
  <2>5. Small((k - 1) + 1)
    <3> HIDE DEF Small
    <3> QED
      BY <1>3, <2>3, <2>4
  <2>6. (k - 1) + 1 = k
    OBVIOUS
  <2> QED
    BY <2>5, <2>6
<1>5. Small(n)
  <2>1. n \in 0 .. n
    OBVIOUS
  <2> QED
    BY <1>4, <2>1
<1>6. Cardinality(f[n]) = 0
  <2>1. Cardinality(f[n]) \in Nat
    BY <1>5, FS_CardinalityType
  <2> QED
    BY <1>5, <2>1
<1> QED
  BY <1>5, <1>6, FS_EmptySet

\* A plan that validate_dag rejects has a round that takes nothing.
LEMMA CyclicHasKnot ==
    ASSUME NEW p, p.steps \in Nat, ~Acyclic(p)
    PROVE  \E Q \in SUBSET StepsOf(p) : Q # {} /\ \A s \in Q : p.deps[s] \cap Q # {}
<1> DEFINE n == p.steps
           f == CHOOSE g : Rounds(p, n, g)
<1>1. Rounds(p, n, f)
  BY RoundsExist
<1>2. f[n] # {}
  BY DEF Acyclic, Rounds
<1> HIDE DEF f
<1>3. PICK k \in 0 .. n - 1 : f[k] # {} /\ Roots(p, f[k]) = {}
  BY <1>1, <1>2, RoundsShrink
<1>4. \A s \in f[k] : p.deps[s] \cap f[k] # {}
  BY <1>3 DEF Roots
<1>5. f[k] \in SUBSET StepsOf(p)
  BY <1>1, <1>3, RoundsOfSteps
<1> QED
  BY <1>3, <1>4, <1>5

\* "Confirm depends_on references exist and graph is acyclic", the second half
\* of validate_dag: its rounds empty the graph of a plan of any length just
\* when no step of it depends on itself through whatever chain.
THEOREM ValidateDagIsRight ==
    ASSUME NEW p, p.steps \in Nat
    PROVE  Acyclic(p) <=> \A s \in StepsOf(p) : s \notin DependsOn(p)[s]
<1>1. ASSUME Acyclic(p) PROVE \A s \in StepsOf(p) : s \notin DependsOn(p)[s]
  BY <1>1, AcyclicNoCycle
<1>2. ASSUME ~Acyclic(p) PROVE \E s \in StepsOf(p) : s \in DependsOn(p)[s]
  <2>1. PICK Q \in SUBSET StepsOf(p) : Q # {} /\ \A s \in Q : p.deps[s] \cap Q # {}
    BY <1>2, CyclicHasKnot
  <2>2. \E s \in Q : s \in DependsOn(p)[s]
    BY <2>1, KnotHasCycle
  <2> QED
    BY <2>2
<1> QED
  BY <1>1, <1>2
=============================================================================
