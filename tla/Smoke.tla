------------------------------- MODULE Smoke --------------------------------
(***************************************************************************)
(* The multi-agent lab smoke (orchestrator/multi_agent_lab.py): one request *)
(* that starts a run, plays an agent of each platform, and says at the end  *)
(* whether dispatch works.  It calls the planner as everybody else does,    *)
(* and others call it in between: operators, and an agent that beacons.     *)
(* The store keeps what the smoke itself writes about its own run.          *)
(***************************************************************************)
EXTENDS Planner, FiniteSets

CONSTANTS
    LabAgents,     \* LAB_AGENTS: the agents the smoke plays, in order
    RealAgents,    \* agents that beacon
    SmokeRun,      \* the scenario of the smoke
    MaxMeddling    \* bound on what others do

\* build_multi_agent_smoke_scenario.
SmokePlan == [steps |-> 3, deps |-> <<{}, {}, {}>>, abortOnFail |-> {},
              platforms |-> {"windows", "linux", "darwin"}]

ASSUME SmokePlanned == SmokeRun \in Scenarios /\ Plan[SmokeRun] = SmokePlan

\* Three agents, each with a platform of its own and an id made up for the
\* occasion, which nobody beacons with.
ASSUME SmokeAgents ==
    /\ LabAgents \in Seq(Agents) /\ Len(LabAgents) = 3
    /\ \A i, j \in 1 .. 3 : LabAgents[i] = LabAgents[j] => i = j
    /\ \A i \in 1 .. 3 : /\ LabAgents[i] \notin RealAgents
                        /\ PlatformOf[LabAgents[i]] \in SmokePlan.platforms
    /\ RealAgents \subseteq Agents

ASSUME SmokeBound == MaxMeddling \in Nat

VARIABLES
    smoke,      \* where run_multi_agent_smoke is
    kept,       \* what it wrote to the store about its run
    meddled,    \* history: others had or started a running run, or acted on the runs
    cleared,    \* history: abort_all was called since the smoke began
    acts        \* how often others acted

smokeVars == <<smoke, kept, meddled, cleared, acts, vars>>

NoSmoke == [at |-> "idle", run |-> 0, played |-> 0, won |-> {}, ok |-> FALSE]
Player == LabAgents[smoke.played + 1]

-----------------------------------------------------------------------------
(* run_multi_agent_smoke, from one call of the planner or the store to the next. *)

SmokeStarts ==
    /\ smoke.at = "idle"
    /\ StartRun(SmokeRun)
    /\ smoke' = [NoSmoke EXCEPT !.at = "asks", !.run = Len(runs) + 1]
    /\ meddled' = \E r \in DOMAIN runs : runs[r].status = "running"
    /\ cleared' = FALSE
    /\ kept' = [status |-> "running", step |-> [s \in StepsOf(SmokePlan) |-> "queued"]]
    /\ UNCHANGED acts

\* The next agent registers and asks for a task; it may get one of any run.
SmokeAsks ==
    /\ smoke.at = "asks" /\ smoke.played < Len(LabAgents)
    /\ IF \E r \in DOMAIN runs : ReadyFor(Player, r) # {}
       THEN NextTaskForAgent(Player) /\ smoke' = [smoke EXCEPT !.at = "holds"]
       ELSE smoke' = [smoke EXCEPT !.played = @ + 1] /\ UNCHANGED vars
    /\ UNCHANGED <<kept, meddled, cleared, acts>>

Written(status) ==
    IF held[Player][1] = smoke.run THEN [kept EXCEPT !.step[held[Player][2]] = status] ELSE kept

\* The store gets "dispatched" ...
SmokeMarks ==
    /\ smoke.at = "holds"
    /\ kept' = Written("dispatched")
    /\ smoke' = [smoke EXCEPT !.at = "marked"]
    /\ UNCHANGED <<vars, meddled, cleared, acts>>

\* ... the planner a success, and then the store.
SmokeReports ==
    /\ smoke.at = "marked"
    /\ ReportResult(Player, TRUE)
    /\ kept' = Written("success")
    /\ smoke' = [smoke EXCEPT !.at = "asks", !.played = @ + 1, !.won = @ \cup {Player}]
    /\ UNCHANGED <<meddled, cleared, acts>>

\* All have played: a run that is not running is stored as finished.
SmokeFinishes ==
    /\ smoke.at = "asks" /\ smoke.played = Len(LabAgents)
    /\ kept' = IF runs[smoke.run].status # "running"
               THEN [kept EXCEPT !.status = runs[smoke.run].status] ELSE kept
    /\ smoke' = [smoke EXCEPT !.at = "answers"]
    /\ UNCHANGED <<vars, meddled, cleared, acts>>

\* A mutation of SmokeAnswers: any run that is over will do.
SmokeAnswersOver ==
    /\ smoke.at = "answers"
    /\ smoke' = [smoke EXCEPT !.at = "done",
                    !.ok = runs[smoke.run].status # "running" /\ Cardinality(smoke.won) >= 3]
    /\ UNCHANGED <<vars, kept, meddled, cleared, acts>>

\* The answer, from the status the run has by then.
SmokeAnswers ==
    /\ smoke.at = "answers"
    /\ smoke' = [smoke EXCEPT !.at = "done",
                    !.ok = runs[smoke.run].status = "completed" /\ Cardinality(smoke.won) >= 3]
    /\ UNCHANGED <<vars, kept, meddled, cleared, acts>>

-----------------------------------------------------------------------------
\* What others do, until the smoke has answered.
OthersAct ==
    /\ smoke.at # "done"
    /\ acts < MaxMeddling /\ acts' = acts + 1
    /\ \/ AbortAll /\ cleared' = TRUE
       \/ /\ \/ \E sc \in Scenarios \ {SmokeRun} : StartRun(sc)
             \/ PauseRuns(DOMAIN runs) \/ ResumeRuns(DOMAIN runs)
             \/ \E r \in DOMAIN runs : RetryFailedSteps(r)
             \/ \E a \in RealAgents : NextTaskForAgent(a) \/ \E ok \in BOOLEAN : ReportResult(a, ok)
          /\ UNCHANGED cleared
    /\ meddled' = TRUE
    /\ UNCHANGED <<smoke, kept>>

SmokeInit ==
    /\ Init
    /\ smoke = NoSmoke
    /\ kept = [status |-> "none", step |-> << >>]
    /\ meddled = FALSE
    /\ cleared = FALSE
    /\ acts = 0

SmokeNext ==
    \/ SmokeStarts \/ SmokeAsks \/ SmokeMarks \/ SmokeReports \/ SmokeFinishes \/ SmokeAnswers
    \/ OthersAct

-----------------------------------------------------------------------------
SmokeTypeOK ==
    /\ TypeOK
    /\ smoke.run \in DOMAIN runs \cup {0}
    /\ smoke.played \in 0 .. Len(LabAgents)
    /\ acts \in 0 .. MaxMeddling
    /\ smoke.at = "holds" => held[Player] # NoTask

\* A smoke that nobody meddles with answers ok and leaves its run completed in
\* the store; and whoever meddles, starting, pausing and retrying runs or
\* working off the steps of the smoke, an answer ok means that every step of
\* its run succeeded, unless abort_all came in between.
SmokeVerdict ==
    smoke.at = "done" =>
        /\ ~meddled =>
              /\ smoke.ok
              /\ kept.status = "completed"
              /\ \A s \in DOMAIN kept.step : kept.step[s] = "success"
        /\ smoke.ok /\ ~cleared =>
              \A s \in Steps(runs[smoke.run]) : runs[smoke.run].step[s] = "success"
=============================================================================
