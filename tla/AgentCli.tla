------------------------------ MODULE AgentCli ------------------------------
(***************************************************************************)
(* The agent's command line (agent/main.py): one process either beacons     *)
(* ("run") or executes a scenario on its own ("run-local").                 *)
(***************************************************************************)
EXTENDS AgentBeacon, LocalRunner

VARIABLE command

cliVars == <<command, beaconVars, localVars>>

CliInit == command \in {"run", "run-local"} /\ BeaconInit /\ LocalInit

CliNext ==
    /\ UNCHANGED command
    /\ \/ command = "run" /\ BeaconNext /\ UNCHANGED localVars
       \/ command = "run-local" /\ LocalNext /\ UNCHANGED beaconVars

\* The process keeps running: its sleeps end, requests time out (20 s) and
\* TTPs return or raise.
CliFairness ==
    /\ WF_cliVars(command = "run" /\ Agent /\ UNCHANGED <<command, localVars>>)
    /\ WF_cliVars(command = "run-local" /\ LocalNext /\ UNCHANGED <<command, beaconVars>>)

CliSpec == CliInit /\ [][CliNext]_cliVars /\ CliFairness

\* The promises of the beacon loop, for the command that runs it.
RunObeysStop == command = "run" => StopIsObeyed
RunGivesUp == command = "run" => GivesUp
=============================================================================
