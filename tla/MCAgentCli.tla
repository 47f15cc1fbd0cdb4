----------------------------- MODULE MCAgentCli -----------------------------
(* Instances of AgentCli for TLC. *)
EXTENDS AgentCli, TLC

\* Every scenario of up to three steps, with any depends_on between them or on
\* a step 4 that does not exist, aborting at no step, at the first or at any.
MCPlans ==
    UNION {[steps : {n}, deps : [1 .. n -> SUBSET (1 .. n)],
            abortOnFail : {{}, {1} \cap (1 .. n), 1 .. n}] : n \in 0 .. 3}
    \cup [steps : {2}, deps : [1 .. 2 -> SUBSET {1, 2, 4}], abortOnFail : {{}}]

\* Two steps, the second behind the first or not.
MCSmallPlans ==
    [steps : {2}, deps : {<<{}, {}>>, <<{}, {1}>>}, abortOnFail : {{}, {1}}]
=============================================================================
