------------------------------ MODULE MCPlanner ------------------------------
(* Instances of Planner for TLC. *)
EXTENDS Planner, TLC

CONSTANTS a1, a2

\* "fork": two steps behind the first, one failure of which stops the run.
\* "pair": the second file entry must run first, failures are tolerated.
\* "solo": one step for one platform.  "empty": a scenario with no steps.
\* "cycle": refused by validate_dag.
MCPlan ==
    [fork  |-> [steps |-> 3, deps |-> <<{}, {1}, {1}>>, abortOnFail |-> {1, 2},
                platforms |-> {"any"}],
     pair  |-> [steps |-> 2, deps |-> <<{2}, {}>>, abortOnFail |-> {},
                platforms |-> {"any"}],
     solo  |-> [steps |-> 1, deps |-> <<{}>>, abortOnFail |-> {},
                platforms |-> {"windows"}],
     empty |-> [steps |-> 0, deps |-> << >>, abortOnFail |-> {},
                platforms |-> {"any"}],
     cycle |-> [steps |-> 2, deps |-> <<{2}, {1}>>, abortOnFail |-> {},
                platforms |-> {"any"}]]

LinuxOnly == [a \in Agents |-> "linux"]
MixedPlatforms == (a1 :> "linux") @@ (a2 :> "windows")

\* The agents are interchangeable when they share a platform.
AgentSymmetry == Permutations(Agents)
=============================================================================
