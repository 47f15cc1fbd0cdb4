----------------------------- MODULE MCLabTools -----------------------------
(* An instance of LabTools for TLC. *)
EXTENDS LabTools

CONSTANTS win, linux, mac, beacon

\* Two files may hold the same scenarios, under new versions, in the same size;
\* one of the bodies cannot be loaded.
MCBodies ==
    {[scenarios |-> <<[name |-> "a", version |-> 1]>>, size |-> 1, ok |-> TRUE],
     [scenarios |-> <<[name |-> "a", version |-> 2]>>, size |-> 1, ok |-> TRUE],
     [scenarios |-> <<[name |-> "a", version |-> 3], [name |-> "b", version |-> 1]>>, size |-> 2, ok |-> TRUE],
     [scenarios |-> <<[name |-> "b", version |-> 2]>>, size |-> 1, ok |-> FALSE]}

\* Six techniques; nothing of what actor "y" may use runs on "linux" alone.
MCRegistered ==
    <<[pack |-> "core", platforms |-> {"windows"}], [pack |-> "core", platforms |-> {"windows"}],
      [pack |-> "core", platforms |-> {"windows"}], [pack |-> "cloud", platforms |-> {"windows", "linux"}],
      [pack |-> "cloud", platforms |-> {"linux"}], [pack |-> "saas", platforms |-> {"windows"}]>>
MCActorPacks == <<<<"x", {"cloud"}>>, <<"y", {"saas"}>>>>
MCDifficulties == <<"beginner", "noisy">>
MCPlatformPool == <<"windows", "linux">>
MCPackAxes == <<2, 3, 2>>

\* Scenarios at the ends of what is counted: none of anything, a few steps, and
\* one short of the limits.
MCDrafts ==
    [actor : BOOLEAN, tags : {{}, {"variant"}, {"ael_import"}}, platforms : {1},
     steps : {0}, ruled : {0}, edges : {0}, tactics : {0}]
    \cup
    [actor : {TRUE}, tags : {{}, {"variant"}, {"ael_import"}}, platforms : {1},
     steps : {3}, ruled : {1}, edges : {2}, tactics : {2}]
    \cup
    [actor : {TRUE}, tags : {{}, {"variant"}, {"ael_import"}}, platforms : {1},
     steps : {11}, ruled : {9, 11}, edges : {11}, tactics : {5}]

MCLabAgents == <<win, linux, mac>>
MCRealAgents == {beacon}
MCAgents == {win, linux, mac, beacon}
MCPlatformOf == (win :> "windows") @@ (linux :> "linux") @@ (mac :> "darwin") @@ (beacon :> "linux")
MCPlan ==
    [smoke |-> SmokePlan,
     pair |-> [steps |-> 2, deps |-> <<{}, {1}>>, abortOnFail |-> {1}, platforms |-> {"any"}]]
=============================================================================
