------------------------------- MODULE Planner -------------------------------
(***************************************************************************)
(* The in-memory scenario planner (orchestrator/core/planner.py).  Every    *)
(* method of Planner runs under its lock, so each is one action.  A run is  *)
(* one execution of a scenario; its steps are handed to beacon agents in    *)
(* dependency order and settled by the results the agents report.           *)
(*                                                                          *)
(* The agents are the environment (agent/beacon.py): an agent holds at most *)
(* one task, executes it, and then either reports it once or loses the      *)
(* report (the exception of _report is swallowed and the agent moves on).   *)
(***************************************************************************)
EXTENDS Naturals, Sequences, ScenarioDag

CONSTANTS
    Agents,       \* registered beacon agents
    NoAgent,      \* assigned_agent = None
    NoTask,       \* an agent that holds no task
    Scenarios,    \* the scenarios a run can be started from
    Plan,         \* Plan[sc]: the steps of scenario sc, see ScenarioDag
    PlatformOf,   \* the platform each agent beacons with
    MaxRuns,      \* bound on the runs that are ever started
    MaxRetries    \* bound on the calls of retry_failed_steps

ASSUME NoAgentAssumption == NoAgent \notin Agents

ASSUME PlanAssumption ==
    \A sc \in Scenarios :
        /\ Plan[sc].steps \in Nat
        /\ Plan[sc].deps \in [1 .. Plan[sc].steps -> SUBSET Nat]
        /\ Plan[sc].abortOnFail \subseteq 1 .. Plan[sc].steps

ASSUME BoundsAssumption == MaxRuns \in Nat /\ MaxRetries \in Nat

VARIABLES
    runs,      \* Planner._runs, in insertion order
    held,      \* the task each agent is executing
    lost,      \* history: tasks whose result was lost since their last dispatch
    cutShort,  \* history: tasks aborted while they were dispatched
    retries    \* calls of retry_failed_steps that changed a run

vars == <<runs, held, lost, cutShort, retries>>

StepStatus == {"queued", "dispatched", "success", "failed", "skipped", "aborted"}
RunStatus == {"running", "paused", "completed", "failed", "aborted"}

\* A run of scenario sc.
RunOf(sc) == [scenario : {sc}, status : RunStatus,
              step     : [StepsOf(Plan[sc]) -> StepStatus],
              agent    : [StepsOf(Plan[sc]) -> Agents \cup {NoAgent}]]

Run == UNION {RunOf(sc) : sc \in Scenarios}

\* What a task handed to an agent identifies: a run and one of its steps.
Task == Nat \X Nat

ASSUME NoTaskAssumption == NoTask \notin Task

-----------------------------------------------------------------------------
(* Queries on one run. *)

Steps(run) == StepsOf(Plan[run.scenario])
Deps(run, s) == Plan[run.scenario].deps[s]
AbortOnFail(run, s) == s \in Plan[run.scenario].abortOnFail

\* A mutation of IsStepReady: a dependency only has to be handed out.
IsStepReadyEarly(run, s) ==
    /\ run.step[s] = "queued"
    /\ \A d \in Deps(run, s) : run.step[d] # "queued"

\* Run.is_step_ready.
IsStepReady(run, s) ==
    /\ run.step[s] = "queued"
    /\ \A d \in Deps(run, s) : run.step[d] \in {"success", "skipped"}

Terminal == {"success", "failed", "skipped", "aborted"}

\* Run.all_terminal and Run.has_failure, on the step statuses of a run.
AllTerminal(step) == \A s \in DOMAIN step : step[s] \in Terminal
HasFailure(step) == \E s \in DOMAIN step : step[s] = "failed"

\* The platform test of next_task_for_agent.
Serves(a, run) ==
    \/ "any" \in Plan[run.scenario].platforms
    \/ PlatformOf[a] \in Plan[run.scenario].platforms

-----------------------------------------------------------------------------
(* What each method does to the runs. *)

\* The Run that start_run builds.
NewRun(sc) ==
    [scenario |-> sc, status |-> "running",
     step  |-> [s \in StepsOf(Plan[sc]) |-> "queued"],
     agent |-> [s \in StepsOf(Plan[sc]) |-> NoAgent]]

\* A mutation of AfterResult: only the direct dependents are skipped.
AfterResultDependentsOnly(run, s, ok) ==
    LET own == [run.step EXCEPT ![s] = IF ok THEN "success" ELSE "failed"]
    IN  [i \in DOMAIN own |->
            IF ~ok /\ AbortOnFail(run, s) /\ own[i] = "queued" /\ s \in Deps(run, i)
            THEN "skipped" ELSE own[i]]

\* The step statuses after the result of step s: the cascade of
\* abort_on_fail skips whatever is still queued.
AfterResult(run, s, ok) ==
    LET own == [run.step EXCEPT ![s] = IF ok THEN "success" ELSE "failed"]
    IN  [i \in DOMAIN own |->
            IF ~ok /\ AbortOnFail(run, s) /\ own[i] = "queued"
            THEN "skipped" ELSE own[i]]

\* A mutation of Reported: the run is settled before the cascade.
ReportedBeforeCascade(run, s, ok) ==
    LET own == [run.step EXCEPT ![s] = IF ok THEN "success" ELSE "failed"]
    IN  [run EXCEPT !.step = AfterResult(run, s, ok),
                    !.status = IF ~AllTerminal(own) THEN @
                               ELSE IF HasFailure(own) THEN "failed"
                               ELSE "completed"]

\* report_result: neither the run's status, the step's status nor the
\* reporting agent is looked at.
Reported(run, s, ok) ==
    LET step == AfterResult(run, s, ok)
    IN  [run EXCEPT !.step = step,
                    !.status = IF ~AllTerminal(step) THEN @
                               ELSE IF HasFailure(step) THEN "failed"
                               ELSE "completed"]

\* Mutations of Retryable: aborted steps, or failed ones, stay behind; or a
\* step in flight is retried too.
RetryableNotAborted(run) == {s \in Steps(run) : run.step[s] \in {"failed", "skipped"}}
RetryableNotFailed(run) == {s \in Steps(run) : run.step[s] \in {"skipped", "aborted"}}
RetryableInFlight(run) ==
    {s \in Steps(run) : run.step[s] \in {"failed", "skipped", "aborted", "dispatched"}}

\* The steps retry_failed_steps puts back in the queue.
Retryable(run) == {s \in Steps(run) : run.step[s] \in {"failed", "skipped", "aborted"}}

\* retry_failed_steps on a run with a retryable step.
Retried(run) ==
    [run EXCEPT
        !.status = "running",
        !.step  = [s \in DOMAIN @ |-> IF s \in Retryable(run) THEN "queued" ELSE @[s]],
        !.agent = [s \in DOMAIN @ |-> IF s \in Retryable(run) THEN NoAgent ELSE @[s]]]

\* next_task_for_agent on the run whose step s agent a gets.
Dispatched(run, s, a) == [run EXCEPT !.step[s] = "dispatched", !.agent[s] = a]

\* The steps abort_all takes down (the status "running" of a step is defined
\* in the code and never assigned).
Active == {"queued", "dispatched", "running"}

\* abort_all on one run: only a run whose status is "running" is touched.
Aborted(run) ==
    IF run.status # "running" THEN run
    ELSE [run EXCEPT
            !.status = "aborted",
            !.step = [s \in DOMAIN @ |-> IF @[s] \in Active THEN "aborted" ELSE @[s]]]

-----------------------------------------------------------------------------
(* The methods. *)

\* start_run: validate_dag raises on an invalid plan.
StartRun(sc) ==
    /\ Len(runs) < MaxRuns
    /\ ValidDag(Plan[sc])
    /\ runs' = Append(runs, NewRun(sc))
    /\ UNCHANGED <<held, lost, cutShort, retries>>

\* pause_runs on the runs of ids.
PauseRuns(ids) ==
    /\ \E r \in ids : runs[r].status = "running"
    /\ runs' = [r \in DOMAIN runs |->
                  IF r \in ids /\ runs[r].status = "running"
                  THEN [runs[r] EXCEPT !.status = "paused"] ELSE runs[r]]
    /\ UNCHANGED <<held, lost, cutShort, retries>>

\* resume_runs on the runs of ids.
ResumeRuns(ids) ==
    /\ \E r \in ids : runs[r].status = "paused"
    /\ runs' = [r \in DOMAIN runs |->
                  IF r \in ids /\ runs[r].status = "paused"
                  THEN [runs[r] EXCEPT !.status = "running"] ELSE runs[r]]
    /\ UNCHANGED <<held, lost, cutShort, retries>>

\* retry_failed_steps.
RetryFailedSteps(r) ==
    /\ retries < MaxRetries
    /\ Retryable(runs[r]) # {}
    /\ runs' = [runs EXCEPT ![r] = Retried(@)]
    /\ retries' = retries + 1
    /\ UNCHANGED <<held, lost, cutShort>>

\* The steps of run r that next_task_for_agent may hand to agent a.
ReadyFor(a, r) ==
    IF runs[r].status = "running" /\ Serves(a, runs[r])
    THEN {s \in Steps(runs[r]) : IsStepReady(runs[r], s)}
    ELSE {}

\* Mutations of NextTaskForAgent: run and step change places in the task; the
\* assigned agent is not recorded; only the oldest running run is looked at.
NextTaskSwapped(a) ==
    /\ held[a] = NoTask
    /\ \E r \in DOMAIN runs : \E s \in ReadyFor(a, r) :
          /\ runs' = [runs EXCEPT ![r] = Dispatched(@, s, a)]
          /\ held' = [held EXCEPT ![a] = <<s, r>>]
    /\ UNCHANGED <<lost, cutShort, retries>>

NextTaskUnassigned(a) ==
    /\ held[a] = NoTask
    /\ \E r \in DOMAIN runs : \E s \in ReadyFor(a, r) :
          /\ runs' = [runs EXCEPT ![r].step[s] = "dispatched"]
          /\ held' = [held EXCEPT ![a] = <<r, s>>]
          /\ lost' = lost \ {<<r, s>>}
    /\ UNCHANGED <<cutShort, retries>>

NextTaskOldestRunOnly(a) ==
    /\ held[a] = NoTask
    /\ \E r \in DOMAIN runs :
         /\ \A q \in 1 .. r - 1 : runs[q].status # "running"
         /\ \E s \in ReadyFor(a, r) :
              /\ \A t \in ReadyFor(a, r) : s <= t
              /\ runs' = [runs EXCEPT ![r] = Dispatched(@, s, a)]
              /\ held' = [held EXCEPT ![a] = <<r, s>>]
              /\ lost' = lost \ {<<r, s>>}
    /\ UNCHANGED <<cutShort, retries>>

\* next_task_for_agent: the first ready step, in scenario order, of the
\* first running run, in creation order, that has one for this platform.
NextTaskForAgent(a) ==
    /\ held[a] = NoTask
    /\ \E r \in DOMAIN runs :
         /\ \A q \in 1 .. r - 1 : ReadyFor(a, q) = {}
         /\ \E s \in ReadyFor(a, r) :
              /\ \A t \in ReadyFor(a, r) : s <= t
              /\ runs' = [runs EXCEPT ![r] = Dispatched(@, s, a)]
              /\ held' = [held EXCEPT ![a] = <<r, s>>]
              /\ lost' = lost \ {<<r, s>>}
    /\ UNCHANGED <<cutShort, retries>>

\* report_result for the task agent a holds.
ReportResult(a, ok) ==
    /\ held[a] # NoTask
    /\ runs' = [runs EXCEPT ![held[a][1]] = Reported(@, held[a][2], ok)]
    /\ held' = [held EXCEPT ![a] = NoTask]
    /\ UNCHANGED <<lost, cutShort, retries>>

\* The agent's report never reaches the planner: the agent exits, or _report
\* swallows a transport error and the agent goes on beaconing.
LoseResult(a) ==
    /\ held[a] # NoTask
    /\ lost' = lost \cup {held[a]}
    /\ held' = [held EXCEPT ![a] = NoTask]
    /\ UNCHANGED <<runs, cutShort, retries>>

\* The tasks abort_all aborts although an agent may be executing them.
InFlight ==
    UNION {{r} \X {s \in Steps(runs[r]) : runs[r].step[s] = "dispatched"} :
             r \in {q \in DOMAIN runs : runs[q].status = "running"}}

\* abort_all.
AbortAll ==
    /\ \E r \in DOMAIN runs : runs[r].status = "running"
    /\ runs' = [r \in DOMAIN runs |-> Aborted(runs[r])]
    /\ cutShort' = cutShort \cup InFlight
    /\ UNCHANGED <<held, lost, retries>>

-----------------------------------------------------------------------------
Init ==
    /\ runs = << >>
    /\ held = [a \in Agents |-> NoTask]
    /\ lost = {}
    /\ cutShort = {}
    /\ retries = 0

Next ==
    \/ \E sc \in Scenarios : StartRun(sc)
    \/ \E ids \in SUBSET DOMAIN runs : PauseRuns(ids) \/ ResumeRuns(ids)
    \/ \E r \in DOMAIN runs : RetryFailedSteps(r)
    \/ \E a \in Agents : NextTaskForAgent(a) \/ LoseResult(a)
    \/ \E a \in Agents, ok \in BOOLEAN : ReportResult(a, ok)
    \/ AbortAll

\* An agent keeps beaconing, and what it executes ends in a report or in a
\* lost one: the executor runs every technique under a timeout.
Fairness ==
    \A a \in Agents :
        /\ WF_vars(NextTaskForAgent(a))
        /\ WF_vars(LoseResult(a) \/ \E ok \in BOOLEAN : ReportResult(a, ok))

\* The same without fairness, for safety.
SafetySpec == Init /\ [][Next]_vars

Spec == SafetySpec /\ Fairness

-----------------------------------------------------------------------------
(* Properties. *)

\* The shape of the planner's state: runs of known scenarios, and agents that
\* hold a step of a run that exists.
TypeOK ==
    /\ runs \in Seq(Run)
    /\ held \in [Agents -> Task \cup {NoTask}]
    /\ lost \subseteq Task
    /\ cutShort \subseteq Task
    /\ retries \in 0 .. MaxRetries
    /\ \A a \in Agents : held[a] # NoTask =>
          /\ held[a][1] \in DOMAIN runs
          /\ held[a][2] \in Steps(runs[held[a][1]])

\* A run is open (running or paused) exactly while one of its steps still has
\* to settle; a run without steps is the exception, nothing ever closes it.
\* When it is closed by a result, "failed" says that a step failed and
\* "completed" that none did.  (report_result, abort_all, retry_failed_steps.)
RunStatusMatchesSteps ==
    \A r \in DOMAIN runs :
        LET run == runs[r] IN
        /\ run.status \in {"completed", "failed", "aborted"} => AllTerminal(run.step)
        /\ run.status \in {"running", "paused"} /\ Steps(run) # {} => ~AllTerminal(run.step)
        /\ run.status = "failed" => HasFailure(run.step)
        /\ run.status = "completed" => ~HasFailure(run.step)

\* The cascade of abort_on_fail is complete, and stays so under late results,
\* retries and aborts: while a step is skipped, or failed with abort_on_fail,
\* nothing in its run is queued.
AbortCascadeComplete ==
    \A r \in DOMAIN runs :
        LET run == runs[r] IN
        (\E s \in Steps(run) : \/ run.step[s] = "skipped"
                               \/ run.step[s] = "failed" /\ AbortOnFail(run, s))
        => \A s \in Steps(run) : run.step[s] # "queued"

\* Aborted steps live only in closed runs: retry_failed_steps brings back all
\* of them before the run is open again.
OpenRunHasNoAbortedStep ==
    \A r \in DOMAIN runs : runs[r].status \in {"running", "paused"} =>
        \A s \in Steps(runs[r]) : runs[r].step[s] # "aborted"

\* A dispatched step is in the hands of the agent it is assigned to, or the
\* report was lost: no interleaving of abort, retry and late results leaves a
\* dispatched step that nobody executes.
DispatchedStepHasOwner ==
    \A r \in DOMAIN runs : \A s \in Steps(runs[r]) :
        runs[r].step[s] = "dispatched" =>
            \/ <<r, s>> \in lost
            \/ runs[r].agent[s] \in Agents /\ held[runs[r].agent[s]] = <<r, s>>

\* Two agents execute the same step only if abort_all took it from the first.
DoubleExecutionOnlyAfterAbort ==
    \A a, b \in Agents :
        a # b /\ held[a] = held[b] /\ held[a] # NoTask => held[a] \in cutShort

\* An open run that offers no ready step and has none in flight is waiting
\* behind a failure the scenario tolerates (a failed step without
\* abort_on_fail), or it has no steps: dispatch never wedges by itself.
StuckOnlyBehindToleratedFailure ==
    \A r \in DOMAIN runs :
        LET run == runs[r] IN
        /\ run.status \in {"running", "paused"}
        /\ Steps(run) # {}
        /\ \A s \in Steps(run) : ~IsStepReady(run, s) /\ run.step[s] # "dispatched"
        => \E s \in Steps(run) : \E d \in Deps(run, s) :
             run.step[s] = "queued" /\ run.step[d] = "failed" /\ ~AbortOnFail(run, d)

\* What a step of the planner may do to a step that it dispatches.
DispatchRule ==
    \A r \in DOMAIN runs : \A s \in Steps(runs[r]) :
        runs'[r].step[s] = "dispatched" /\ runs[r].step[s] # "dispatched" =>
            /\ runs[r].status = "running"
            /\ runs[r].step[s] = "queued"
            /\ \A d \in Deps(runs[r], s) : runs[r].step[d] = "success"

\* A step is only handed out from a running run, while it is queued, and when
\* every step it depends on has succeeded: the "skipped" that is_step_ready
\* also accepts never lets a step through.
DispatchAfterSuccess == [][DispatchRule]_vars

\* Agent a reports on step s of run r, and late: abort_all once took the step
\* from an agent that was executing it, and now the step does not wait for a.
LateResult(a, r, s) ==
    /\ held[a] = <<r, s>> /\ held'[a] = NoTask
    /\ <<r, s>> \in cutShort
    /\ ~(runs[r].step[s] = "dispatched" /\ runs[r].agent[s] = a)

\* What a step of the planner leaves of what is settled.
SettledRule ==
    \A r \in DOMAIN runs :
        /\ \A s \in Steps(runs[r]) :
              runs[r].step[s] = "success" /\ runs'[r].step[s] # "success" =>
                  \E a \in Agents : LateResult(a, r, s)
        /\ /\ runs[r].status \in {"completed", "failed", "aborted"}
           /\ runs'[r].status # runs[r].status
           => \/ retries' # retries /\ runs'[r].status = "running"
              \/ \E s \in Steps(runs[r]), a \in Agents : LateResult(a, r, s)

\* A success is undone only by a late result of that very step: of the agent
\* that abort_all took it from, or of the agent that was given it next, when
\* the first one's result had settled it meanwhile.  A closed run is reopened
\* only by a retry, and gets another verdict only by such a result.
SettledUnlessCutShort == [][SettledRule]_vars

\* A running run is worked on until it closes or is paused, or until what is
\* left of it can be served by no agent (a lost result, a tolerated failure, a
\* platform nobody has, no steps): it is not starved by the runs started
\* before it, as long as operators retry only finitely often.
RunningRunIsServed ==
    \A r \in 1 .. MaxRuns :
        []<>(r \in DOMAIN runs /\ runs[r].status = "running" =>
                \A a \in Agents : ReadyFor(a, r) = {} /\ held[a] \notin {r} \X Nat)
=============================================================================
