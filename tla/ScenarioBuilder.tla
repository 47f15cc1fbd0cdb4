--------------------------- MODULE ScenarioBuilder ---------------------------
(***************************************************************************)
(* The generators of scenarios and of catalog entries: a batch of scenario  *)
(* variants (orchestrator/scenario_builder.py) and a scale pack of the      *)
(* catalog (ttps/catalog.py).  Both count through a space of combinations.  *)
(*                                                                          *)
(* The random choices of build_scenario are free; a technique is a record   *)
(* of its pack and its platforms, and which of the eligible ones a scenario *)
(* samples is left out, how many it samples is not.                         *)
(***************************************************************************)
EXTENDS Integers, Sequences, FiniteSets, FiniteSetsExt, SequencesExt, ScenarioDag

CONSTANTS
    Registered,      \* registry.all(): a sequence of techniques
    ActorPacks,      \* ACTOR_PACKS, its keys in order: a sequence of <<actor, packs>>
    Difficulties,    \* DIFFICULTY_STEPS, its keys in order
    PlatformPool,    \* DEFAULT_PLATFORM_POOL
    MaxSteps,        \* MAX_VARIANT_STEPS
    MaxSeed,         \* MAX_VARIANT_SEED
    MaxCount,        \* bound on the variants of a batch
    Strides,         \* the strides a batch is called with
    PackAxes,        \* of a variant generator: how many telemetry sources, fidelities, ...
    PackBases,       \* the entries its variants are based on
    PackCount        \* how many variants it declares

ASSUME BuilderBounds ==
    /\ MaxSteps \in Nat \ {0} /\ MaxSeed \in Nat /\ PackCount \in Nat /\ PackBases \in Nat
    /\ MaxCount \in Nat /\ Strides \subseteq Nat \ {0}

\* Keys of a dict are distinct, and so are the platforms of the pool.
ASSUME ChoicesAssumption ==
    /\ Registered \in Seq(ToSet(Registered))
    /\ ActorPacks \in Seq(ToSet(ActorPacks)) /\ ActorPacks # << >>
    /\ \A i, j \in DOMAIN ActorPacks : ActorPacks[i][1] = ActorPacks[j][1] => i = j
    /\ Difficulties \in Seq(ToSet(Difficulties)) /\ Difficulties # << >> /\ IsInjective(Difficulties)
    /\ PlatformPool \in Seq(ToSet(PlatformPool)) /\ PlatformPool # << >> /\ IsInjective(PlatformPool)
    /\ PackAxes \in Seq(Nat \ {0})

VARIABLES
    batch,     \* the call of build_scenario_batch
    draft,     \* the variant being built, or NoDraft
    built,     \* the variants that are done, in order
    invalid,   \* history: some variant does not pass validate_dag
    pack       \* the expanded items of the variant generator

builderVars == <<batch, draft, built, invalid, pack>>

NoDraft == [size |-> 0]

-----------------------------------------------------------------------------
\* platform_sets: the combinations of the pool, shorter ones first.
Shorter(s, t) ==
    \/ Cardinality(s) < Cardinality(t)
    \/ Cardinality(s) = Cardinality(t) /\ \E i \in s \ t : \A j \in t \ s : i < j
PlatformSets ==
    LET all == (SUBSET (1 .. Len(PlatformPool))) \ {{}}
    IN  [n \in 1 .. Cardinality(all) |->
            CHOOSE s \in all : Cardinality({t \in all : Shorter(t, s)}) = n - 1]
PlatformsOf(s) == {PlatformPool[i] : i \in s}

\* The sizes of the variant space, and how many variants it has.
SeedValues == MaxSeed + 1
TotalVariants ==
    Len(ActorPacks) * Len(Difficulties) * Len(PlatformSets) * MaxSteps * SeedValues

\* A mutation of Variant: the step count is not divided out.
VariantStepsKept(index) ==
    LET i1 == index \div Len(PlatformSets)
        i2 == i1 \div SeedValues
    IN  [platforms  |-> PlatformsOf(PlatformSets[(index % Len(PlatformSets)) + 1]),
         seed       |-> i1 % SeedValues,
         steps      |-> (i2 % MaxSteps) + 1,
         difficulty |-> Difficulties[(i2 % Len(Difficulties)) + 1],
         actor      |-> ActorPacks[((i2 \div Len(Difficulties)) % Len(ActorPacks)) + 1]]

\* build_scenario_variant: what index stands for.
Variant(index) ==
    LET i1 == index \div Len(PlatformSets)
        i2 == i1 \div SeedValues
        i3 == i2 \div MaxSteps
    IN  [platforms  |-> PlatformsOf(PlatformSets[(index % Len(PlatformSets)) + 1]),
         seed       |-> i1 % SeedValues,
         steps      |-> (i2 % MaxSteps) + 1,
         difficulty |-> Difficulties[(i3 % Len(Difficulties)) + 1],
         actor      |-> ActorPacks[((i3 \div Len(Difficulties)) % Len(ActorPacks)) + 1]]

\* The name of a variant.
VariantName(v) == <<v.actor[1], v.difficulty, v.steps, v.seed, v.platforms>>

\* _eligible: the positions of the techniques an actor may use on platforms;
\* an actor without packs, or one that is unknown, may use all of them.
Eligible(packs, platforms) ==
    {i \in DOMAIN Registered :
        /\ packs # {} => Registered[i].pack \in packs \cup {"core"}
        /\ platforms # {} => platforms \cap Registered[i].platforms # {}}

\* How many steps: as the variant says (never 0, which would mean the count of
\* its difficulty), and at most as many as there are techniques.
StepCount(v, pool) == Max({1, Min({v.steps, Cardinality(pool)})})

\* The parents step i may be given: one of the earlier steps for the first
\* four; up to the branch factor afterwards.
BranchFactor(difficulty) == IF difficulty \in {"beginner", "stealthy"} THEN 1 ELSE 2
\* A mutation of Parents: the new step is among those it may choose from.
ParentsOrItself(i, difficulty) ==
    LET most == IF i < 4 THEN 1 ELSE Min({BranchFactor(difficulty), i - 1})
    IN  IF i = 1 THEN {{}} ELSE UNION {kSubset(k, 1 .. i) : k \in 1 .. most}
Parents(i, difficulty) ==
    LET most == IF i < 4 THEN 1 ELSE Min({BranchFactor(difficulty), i - 1})
    IN  IF i = 1 THEN {{}} ELSE UNION {kSubset(k, 1 .. i - 1) : k \in 1 .. most}

-----------------------------------------------------------------------------
\* The index of the next variant of the batch.
NextIndex == batch.offset + Len(built) * batch.stride

\* build_scenario begins: so many techniques are sampled.
BeginVariant ==
    /\ draft = NoDraft
    /\ Len(built) < batch.count
    /\ NextIndex < TotalVariants
    /\ LET v == Variant(NextIndex)
           pool == Eligible(v.actor[2], v.platforms)
       IN  /\ pool # {}
           /\ draft' = [size |-> StepCount(v, pool), variant |-> v, deps |-> << >>]
    /\ UNCHANGED <<batch, built, invalid, pack>>

\* One turn of its loop.
AddStep ==
    /\ draft # NoDraft
    /\ Len(draft.deps) < draft.size
    /\ \E parents \in Parents(Len(draft.deps) + 1, draft.variant.difficulty) :
         draft' = [draft EXCEPT !.deps = Append(@, parents)]
    /\ UNCHANGED <<batch, built, invalid, pack>>

\* The plan of a draft, as the loader checks it.
PlanOf(d) == [steps |-> d.size, deps |-> d.deps, abortOnFail |-> {},
              platforms |-> d.variant.platforms]

FinishVariant ==
    /\ draft # NoDraft
    /\ Len(draft.deps) = draft.size
    /\ built' = Append(built, VariantName(draft.variant))
    /\ invalid' = (invalid \/ ~ValidDag(PlanOf(draft)))
    /\ draft' = NoDraft
    /\ UNCHANGED <<batch, pack>>

\* An index outside the space, or no technique for the platforms, raises, and
\* nothing of the batch is written.
BatchRaises ==
    /\ draft = NoDraft
    /\ Len(built) < batch.count
    /\ \/ NextIndex >= TotalVariants
       \/ Eligible(Variant(NextIndex).actor[2], Variant(NextIndex).platforms) = {}
    /\ batch' = [batch EXCEPT !.count = 0]
    /\ built' = << >>
    /\ UNCHANGED <<draft, invalid, pack>>

\* The combination the n-th item of a scale pack gets: the first axis turns
\* fastest, each of the others when those before it have gone round.
FullTurn[axes \in 0 .. Len(PackAxes)] ==
    IF axes = 0 THEN 1 ELSE FullTurn[axes - 1] * PackAxes[axes]
Turned(n, axis) == ((n - 1) \div FullTurn[axis - 1]) % PackAxes[axis]

\* _expand_variant_generator, item by item; without base entries there is none.
ExpandItem ==
    /\ PackBases > 0
    /\ Len(pack) < PackCount
    /\ LET n == Len(pack) + 1
       IN  pack' = Append(pack, [base |-> (n - 1) % PackBases, id |-> n,
                                 axes |-> [a \in DOMAIN PackAxes |-> Turned(n, a)]])
    /\ UNCHANGED <<batch, draft, built, invalid>>

BuilderInit ==
    /\ batch \in [count : 1 .. MaxCount, offset : 0 .. TotalVariants, stride : Strides]
    /\ draft = NoDraft
    /\ built = << >>
    /\ invalid = FALSE
    /\ pack = << >>

BuilderNext == BeginVariant \/ AddStep \/ FinishVariant \/ BatchRaises \/ ExpandItem

-----------------------------------------------------------------------------
BuilderTypeOK ==
    /\ batch.count \in 0 .. MaxCount
    /\ Len(built) <= batch.count
    /\ draft # NoDraft => /\ draft.size \in 1 .. MaxSteps
                          /\ Len(draft.deps) <= draft.size
    /\ Len(pack) <= PackCount

\* A batch loads in full: every variant passes validate_dag whatever was drawn,
\* and no two have the same name, of which the loader would keep one; and a
\* scale pack that declares no more than a full turn of its axes has no two
\* items of one combination.
GeneratedLoadsInFull ==
    /\ ~invalid
    /\ IsInjective(built)
    /\ Len(pack) <= FullTurn[Len(PackAxes)] => IsInjective([n \in DOMAIN pack |-> pack[n].axes])
=============================================================================
