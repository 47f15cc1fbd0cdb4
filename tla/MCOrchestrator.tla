--------------------------- MODULE MCOrchestrator ---------------------------
(* Instances of Orchestrator for TLC. *)
EXTENDS Orchestrator, TLC

CONSTANTS a1, a2

\* "guard": the second step behind the first, whose failure stops the run.
\* "solo": one step.
MCPlan ==
    [guard |-> [steps |-> 2, deps |-> <<{}, {1}>>, abortOnFail |-> {1},
                platforms |-> {"any"}],
     solo  |-> [steps |-> 1, deps |-> <<{}>>, abortOnFail |-> {},
                platforms |-> {"linux"}]]

LinuxOnly == [a \in Agents |-> "linux"]

AgentSymmetry == Permutations(Agents)
=============================================================================
