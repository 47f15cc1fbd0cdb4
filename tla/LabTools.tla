------------------------------ MODULE LabTools ------------------------------
(***************************************************************************)
(* The parts of the laboratory that share no state with one another: the    *)
(* techniques on a host, the loader of scenario files, the generators, the  *)
(* maturity of a scenario, the multi-agent smoke.  A behaviour is one of    *)
(* them at work, the others at rest.                                        *)
(***************************************************************************)
EXTENDS Host, ScenarioLibrary, ScenarioBuilder, Maturity, Smoke

VARIABLE tool     \* which one is at work

labVars == <<tool, hostVars, libVars, builderVars, matVars, smokeVars>>

Tools == {"host", "library", "builder", "maturity", "smoke"}

\* The others rest in one of their initial states.
AtRest(t) ==
    /\ t # "host" => host = CHOOSE h \in [platform : Platforms, lab : BOOLEAN] : TRUE
    /\ t # "builder" => batch = [count |-> 1, offset |-> 0, stride |-> 1]
    /\ t # "maturity" => scen = CHOOSE s \in Drafts : TRUE

LabInit ==
    /\ tool \in Tools
    /\ HostInit /\ LibInit /\ BuilderInit /\ MatInit /\ SmokeInit
    /\ AtRest(tool)

HostWorks     == HostNext /\ UNCHANGED <<libVars, builderVars, matVars, smokeVars>>
LibraryWorks  == LibNext /\ UNCHANGED <<hostVars, builderVars, matVars, smokeVars>>
BuilderWorks  == BuilderNext /\ UNCHANGED <<hostVars, libVars, matVars, smokeVars>>
MaturityWorks == MatNext /\ UNCHANGED <<hostVars, libVars, builderVars, smokeVars>>
SmokeWorks    == SmokeNext /\ UNCHANGED <<hostVars, libVars, builderVars, matVars>>

LabNext ==
    /\ \/ tool = "host" /\ HostWorks
       \/ tool = "library" /\ LibraryWorks
       \/ tool = "builder" /\ BuilderWorks
       \/ tool = "maturity" /\ MaturityWorks
       \/ tool = "smoke" /\ SmokeWorks
    /\ UNCHANGED tool

LabSpec == LabInit /\ [][LabNext]_labVars

\* What the variables of the five hold.
LabTypeOK == HostTypeOK /\ LibTypeOK /\ BuilderTypeOK /\ MatTypeOK /\ SmokeTypeOK
=============================================================================
