----------------------------- MODULE ScenarioDag -----------------------------
(***************************************************************************)
(* Scenario.validate_dag (orchestrator/dsl/schema.py): the check every     *)
(* scenario passes before the planner starts a run of it.  A plan is a     *)
(* record with the number of steps (step ids are the ordinals 1..steps, in *)
(* the order of the scenario file), the depends_on set of each step, the   *)
(* steps with abort_on_fail set and the target platforms.                  *)
(***************************************************************************)
EXTENDS Naturals

\* The ids of a plan's steps.
StepsOf(p) == 1 .. p.steps

\* The first loop of validate_dag: every depends_on entry names a step.
DependenciesKnown(p) == \A s \in StepsOf(p) : p.deps[s] \subseteq StepsOf(p)

\* The steps of graph whose remaining dependencies are empty.  The code
\* deletes each round's roots from the graph and from the dependency sets of
\* the others, so a remaining dependency is one that is still in the graph.
Roots(p, graph) == {s \in graph : p.deps[s] \cap graph = {}}

\* The second loop: remove the roots, round after round.  A round that finds
\* none raises; a loop that empties the graph accepts.  A graph of n steps is
\* empty after n rounds or never.
Acyclic(p) ==
    LET graph[k \in 0 .. p.steps] ==
            IF k = 0 THEN StepsOf(p)
                     ELSE graph[k - 1] \ Roots(p, graph[k - 1])
    IN  graph[p.steps] = {}

\* A mutation of ValidDag: an unknown step id is passed over.
ValidDagUnknownIds(p) == Acyclic(p)

\* validate_dag returns without raising.
ValidDag(p) == DependenciesKnown(p) /\ Acyclic(p)

\* What validate_dag is measured by: the steps that each step depends on,
\* directly or through others, the least set that holds the dependencies of
\* the step and of every step in it.
DependsOn(p) ==
    [s \in StepsOf(p) |->
        {d \in StepsOf(p) :
            \A T \in SUBSET StepsOf(p) :
                /\ p.deps[s] \cap StepsOf(p) \subseteq T
                /\ \A t \in T : p.deps[t] \cap StepsOf(p) \subseteq T
                => d \in T}]
=============================================================================
