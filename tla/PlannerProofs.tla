---------------------------- MODULE PlannerProofs ----------------------------
(***************************************************************************)
(* Theorems about Planner, for every set of agents, every set of scenarios, *)
(* every plan and every bound.  The invariants of a run are collected in    *)
(* RunInv; each method of the planner is shown to preserve it on one run,   *)
(* and IInv carries it to the whole planner.                                *)
(***************************************************************************)
EXTENDS Planner, ScenarioDagProofs, SequenceTheorems

\* What holds of one run at all times: the per-run bodies of
\* RunStatusMatchesSteps, AbortCascadeComplete and OpenRunHasNoAbortedStep.
StatusMatches(run) ==
    /\ run.status \in {"completed", "failed", "aborted"} => AllTerminal(run.step)
    /\ run.status \in {"running", "paused"} /\ Steps(run) # {} => ~AllTerminal(run.step)
    /\ run.status = "failed" => HasFailure(run.step)
    /\ run.status = "completed" => ~HasFailure(run.step)

CascadeComplete(run) ==
    (\E s \in Steps(run) : \/ run.step[s] = "skipped"
                           \/ run.step[s] = "failed" /\ AbortOnFail(run, s))
    => \A s \in Steps(run) : run.step[s] # "queued"

NoAbortedWhileOpen(run) ==
    run.status \in {"running", "paused"} => \A s \in Steps(run) : run.step[s] # "aborted"

RunInv(run) == StatusMatches(run) /\ CascadeComplete(run) /\ NoAbortedWhileOpen(run)

\* The inductive invariant.  That the plan of every run passed validate_dag
\* is needed to know that a dependency of a step is a step of the same run, and
\* that not every step of it waits for another.
IInv ==
    /\ TypeOK
    /\ \A r \in DOMAIN runs : RunInv(runs[r])
    /\ \A r \in DOMAIN runs : ValidDag(Plan[runs[r].scenario])

\* No step of run is dispatched in new that was not already.
DispatchesNothing(run, new) ==
    \A s \in Steps(run) : new.step[s] = "dispatched" => run.step[s] = "dispatched"

-----------------------------------------------------------------------------
(* The type of a run. *)

\* The parts of a run, and how it is put together from them.
LEMMA RunParts ==
    ASSUME NEW run \in Run
    PROVE  /\ run.scenario \in Scenarios
           /\ run.status \in RunStatus
           /\ run.step \in [Steps(run) -> StepStatus]
           /\ run.agent \in [Steps(run) -> Agents \cup {NoAgent}]
           /\ run = [scenario |-> run.scenario, status |-> run.status,
                     step |-> run.step, agent |-> run.agent]
<1>1. PICK sc \in Scenarios : run \in RunOf(sc)
  BY DEF Run
<1>2. /\ run.scenario = sc
      /\ run.status \in RunStatus
      /\ run.step \in [StepsOf(Plan[sc]) -> StepStatus]
      /\ run.agent \in [StepsOf(Plan[sc]) -> Agents \cup {NoAgent}]
      /\ run = [scenario |-> run.scenario, status |-> run.status,
                step |-> run.step, agent |-> run.agent]
  BY <1>1 DEF RunOf
<1> QED
  BY <1>2 DEF Steps

\* A run with other status, steps and agents.
Rebuilt(run, status, step, agent) ==
    [scenario |-> run.scenario, status |-> status, step |-> step, agent |-> agent]

LEMMA RebuiltRun ==
    ASSUME NEW run \in Run, NEW status \in RunStatus,
           NEW step \in [Steps(run) -> StepStatus],
           NEW agent \in [Steps(run) -> Agents \cup {NoAgent}]
    PROVE  /\ Rebuilt(run, status, step, agent) \in Run
           /\ Rebuilt(run, status, step, agent).scenario = run.scenario
           /\ Rebuilt(run, status, step, agent).status = status
           /\ Rebuilt(run, status, step, agent).step = step
           /\ Rebuilt(run, status, step, agent).agent = agent
           /\ Steps(Rebuilt(run, status, step, agent)) = Steps(run)
<1>1. run.scenario \in Scenarios
  BY RunParts
<1>2. Rebuilt(run, status, step, agent) \in RunOf(run.scenario)
  BY DEF Rebuilt, RunOf, Steps
<1>3. Rebuilt(run, status, step, agent) \in Run
  BY <1>1, <1>2 DEF Run
<1> QED
  BY <1>3 DEF Rebuilt, Steps

-----------------------------------------------------------------------------
(* Each method on one run. *)

\* The status of each step after a result.
LEMMA AfterResultSteps ==
    ASSUME NEW run \in Run, NEW s \in Steps(run), NEW ok \in BOOLEAN
    PROVE  /\ AfterResult(run, s, ok) \in [Steps(run) -> StepStatus]
           /\ AfterResult(run, s, ok)[s] = IF ok THEN "success" ELSE "failed"
           /\ \A i \in Steps(run) \ {s} :
                 AfterResult(run, s, ok)[i] =
                    IF ~ok /\ AbortOnFail(run, s) /\ run.step[i] = "queued"
                    THEN "skipped" ELSE run.step[i]
<1>1. run.step \in [Steps(run) -> StepStatus]
  BY RunParts
<1> QED
  BY <1>1 DEF AfterResult, StepStatus

\* report_result preserves the invariant of the run, whatever the status of
\* the run and of the step: late and repeated results included.
LEMMA ReportedInv ==
    ASSUME NEW run \in Run, RunInv(run), NEW s \in Steps(run), NEW ok \in BOOLEAN
    PROVE  /\ Reported(run, s, ok) \in Run
           /\ RunInv(Reported(run, s, ok))
           /\ Reported(run, s, ok).scenario = run.scenario
           /\ DispatchesNothing(run, Reported(run, s, ok))
<1> DEFINE step == AfterResult(run, s, ok)
           status == IF ~AllTerminal(step) THEN run.status
                     ELSE IF HasFailure(step) THEN "failed" ELSE "completed"
           new == Reported(run, s, ok)
<1>1. /\ run.step \in [Steps(run) -> StepStatus]
      /\ run.status \in RunStatus
      /\ run.agent \in [Steps(run) -> Agents \cup {NoAgent}]
  BY RunParts
<1>2. step \in [Steps(run) -> StepStatus]
  BY AfterResultSteps
<1>3. status \in RunStatus
  BY <1>1 DEF RunStatus
<1>4. new = Rebuilt(run, status, step, run.agent)
  <2>1. PICK sc \in Scenarios : run \in RunOf(sc)
    BY DEF Run
  <2>2. new = [run EXCEPT !.step = step, !.status = status]
    BY DEF Reported
  <2> HIDE DEF step, status, new
  <2> QED
    BY <2>1, <2>2 DEF RunOf, Rebuilt
<1> HIDE DEF new, status, step
<1>5. /\ new \in Run
      /\ new.scenario = run.scenario
      /\ new.status = status
      /\ new.step = step
      /\ Steps(new) = Steps(run)
  BY <1>1, <1>2, <1>3, <1>4, RebuiltRun
<1>s. /\ step[s] = IF ok THEN "success" ELSE "failed"
      /\ \A i \in Steps(run) \ {s} :
            step[i] = IF ~ok /\ AbortOnFail(run, s) /\ run.step[i] = "queued"
                      THEN "skipped" ELSE run.step[i]
  BY AfterResultSteps DEF step
<1>6. AllTerminal(run.step) => AllTerminal(step)
  BY <1>1, <1>2, <1>s DEF AllTerminal, Terminal
<1>7. StatusMatches(new)
  BY <1>1, <1>5, <1>6 DEF RunInv, StatusMatches, RunStatus, status
<1>8. CascadeComplete(new)
  <2> SUFFICES ASSUME NEW i \in Steps(new),
                      \/ new.step[i] = "skipped"
                      \/ new.step[i] = "failed" /\ AbortOnFail(new, i),
                      NEW j \in Steps(new)
               PROVE  new.step[j] # "queued"
    BY DEF CascadeComplete
  <2>a. /\ i \in Steps(run) /\ j \in Steps(run)
        /\ \/ step[i] = "skipped"
           \/ step[i] = "failed" /\ AbortOnFail(run, i)
        /\ new.step[j] = step[j]
    BY <1>5 DEF AbortOnFail
  <2>1. CASE ~ok /\ AbortOnFail(run, s)
    BY <2>1, <2>a, <1>s
  <2>2. CASE ok \/ ~AbortOnFail(run, s)
    <3>1. i # s /\ step[i] = run.step[i]
      BY <2>2, <2>a, <1>s
    <3>2. run.step[j] # "queued"
      BY <2>a, <3>1 DEF RunInv, CascadeComplete
    <3> QED
      BY <2>2, <2>a, <3>2, <1>s
  <2> QED
    BY <2>1, <2>2
<1>9. NoAbortedWhileOpen(new)
  <2> SUFFICES ASSUME status \in {"running", "paused"}, NEW i \in Steps(run)
               PROVE  step[i] # "aborted"
    BY <1>5 DEF NoAbortedWhileOpen
  <2>1. run.step[i] # "aborted"
    BY DEF RunInv, NoAbortedWhileOpen, status
  <2> QED
    BY <2>1, <1>s
<1>10. DispatchesNothing(run, new)
  BY <1>5, <1>s DEF DispatchesNothing
<1> QED
  BY <1>5, <1>7, <1>8, <1>9, <1>10 DEF RunInv, new

\* retry_failed_steps preserves it: no step stays failed, skipped or aborted,
\* and at least one is queued again.
LEMMA RetriedInv ==
    ASSUME NEW run \in Run, RunInv(run), Retryable(run) # {}
    PROVE  /\ Retried(run) \in Run
           /\ RunInv(Retried(run))
           /\ Retried(run).scenario = run.scenario
           /\ DispatchesNothing(run, Retried(run))
<1> DEFINE step == [s \in Steps(run) |-> IF s \in Retryable(run) THEN "queued" ELSE run.step[s]]
           agent == [s \in Steps(run) |-> IF s \in Retryable(run) THEN NoAgent ELSE run.agent[s]]
           new == Retried(run)
<1>1. /\ run.step \in [Steps(run) -> StepStatus]
      /\ run.agent \in [Steps(run) -> Agents \cup {NoAgent}]
  BY RunParts
<1>2. /\ step \in [Steps(run) -> StepStatus]
      /\ agent \in [Steps(run) -> Agents \cup {NoAgent}]
  BY <1>1 DEF StepStatus
<1>3. new = Rebuilt(run, "running", step, agent)
  <2>1. PICK sc \in Scenarios : run \in RunOf(sc)
    BY DEF Run
  <2>2. DOMAIN run.step = Steps(run) /\ DOMAIN run.agent = Steps(run)
    BY <1>1
  <2>3. new = [run EXCEPT !.status = "running", !.step = step, !.agent = agent]
    BY <2>1, <2>2 DEF Retried, RunOf
  <2> HIDE DEF step, agent, new
  <2> QED
    BY <2>1, <2>3 DEF RunOf, Rebuilt
<1>4. \A s \in Steps(run) : step[s] \in {"queued", "dispatched", "success"}
  BY <1>1 DEF Retryable, StepStatus
<1>5. \E s \in Steps(run) : step[s] = "queued"
  BY DEF Retryable
<1> HIDE DEF step, agent, new
<1>6. /\ new \in Run
      /\ new.scenario = run.scenario
      /\ new.status = "running"
      /\ new.step = step
      /\ Steps(new) = Steps(run)
  BY <1>2, <1>3, RebuiltRun DEF RunStatus
<1>7. StatusMatches(new)
  BY <1>2, <1>5, <1>6 DEF StatusMatches, AllTerminal, Terminal
<1>8. CascadeComplete(new) /\ NoAbortedWhileOpen(new)
  BY <1>4, <1>6 DEF CascadeComplete, NoAbortedWhileOpen
<1>9. DispatchesNothing(run, new)
  BY <1>6 DEF DispatchesNothing, step
<1> QED
  BY <1>6, <1>7, <1>8, <1>9 DEF RunInv, new

\* abort_all preserves it.
LEMMA AbortedInv ==
    ASSUME NEW run \in Run, RunInv(run)
    PROVE  /\ Aborted(run) \in Run
           /\ RunInv(Aborted(run))
           /\ Aborted(run).scenario = run.scenario
           /\ DispatchesNothing(run, Aborted(run))
<1>1. CASE run.status # "running"
  BY <1>1 DEF Aborted, DispatchesNothing
<1>2. CASE run.status = "running"
  <2> DEFINE step == [s \in Steps(run) |-> IF run.step[s] \in Active THEN "aborted" ELSE run.step[s]]
             new == Aborted(run)
  <2>1. /\ run.step \in [Steps(run) -> StepStatus]
        /\ run.agent \in [Steps(run) -> Agents \cup {NoAgent}]
    BY RunParts
  <2>2. step \in [Steps(run) -> StepStatus]
    BY <2>1 DEF StepStatus
  <2>3. new = Rebuilt(run, "aborted", step, run.agent)
    <3>1. PICK sc \in Scenarios : run \in RunOf(sc)
      BY DEF Run
    <3>2. DOMAIN run.step = Steps(run)
      BY <2>1
    <3>3. new = [run EXCEPT !.status = "aborted", !.step = step]
      BY <1>2, <3>1, <3>2 DEF Aborted, RunOf
    <3> HIDE DEF step, new
    <3> QED
      BY <3>1, <3>3 DEF RunOf, Rebuilt
  <2>4. \A s \in Steps(run) : step[s] \in Terminal
    BY <2>1 DEF Active, StepStatus, Terminal
  <2>5. \A s \in Steps(run) : step[s] # "queued"
    BY DEF Active
  <2> HIDE DEF step, new
  <2>6. /\ new \in Run
        /\ new.scenario = run.scenario
        /\ new.status = "aborted"
        /\ new.step = step
        /\ Steps(new) = Steps(run)
    BY <2>1, <2>2, <2>3, RebuiltRun DEF RunStatus
  <2>7. StatusMatches(new)
    BY <2>2, <2>4, <2>6 DEF StatusMatches, AllTerminal
  <2>8. CascadeComplete(new) /\ NoAbortedWhileOpen(new)
    BY <2>5, <2>6 DEF CascadeComplete, NoAbortedWhileOpen
  <2>9. DispatchesNothing(run, new)
    BY <2>6 DEF DispatchesNothing, step
  <2> QED
    BY <2>6, <2>7, <2>8, <2>9 DEF RunInv, new
<1> QED
  BY <1>1, <1>2

\* pause_runs and resume_runs only exchange the two open statuses.
LEMMA PauseResumeInv ==
    ASSUME NEW run \in Run, RunInv(run), run.status \in {"running", "paused"},
           NEW status \in {"running", "paused"}
    PROVE  /\ [run EXCEPT !.status = status] \in Run
           /\ RunInv([run EXCEPT !.status = status])
           /\ [run EXCEPT !.status = status].scenario = run.scenario
           /\ DispatchesNothing(run, [run EXCEPT !.status = status])
<1> DEFINE new == [run EXCEPT !.status = status]
<1>1. /\ run.step \in [Steps(run) -> StepStatus]
      /\ run.agent \in [Steps(run) -> Agents \cup {NoAgent}]
  BY RunParts
<1>2. new = Rebuilt(run, status, run.step, run.agent)
  <2>1. PICK sc \in Scenarios : run \in RunOf(sc)
    BY DEF Run
  <2> QED
    BY <2>1 DEF RunOf, Rebuilt
<1> HIDE DEF new
<1>3. /\ new \in Run
      /\ new.scenario = run.scenario
      /\ new.status = status
      /\ new.step = run.step
      /\ Steps(new) = Steps(run)
  BY <1>1, <1>2, RebuiltRun DEF RunStatus
<1>4. StatusMatches(new)
  BY <1>3 DEF RunInv, StatusMatches
<1>5. CascadeComplete(new)
  BY <1>3 DEF RunInv, CascadeComplete, AbortOnFail
<1>6. NoAbortedWhileOpen(new)
  BY <1>3 DEF RunInv, NoAbortedWhileOpen
<1>7. DispatchesNothing(run, new)
  BY <1>3 DEF DispatchesNothing
<1> QED
  BY <1>3, <1>4, <1>5, <1>6, <1>7 DEF RunInv, new

\* next_task_for_agent preserves it.
LEMMA DispatchedInv ==
    ASSUME NEW run \in Run, RunInv(run), NEW a \in Agents, NEW s \in Steps(run),
           run.status = "running", run.step[s] = "queued"
    PROVE  /\ Dispatched(run, s, a) \in Run
           /\ RunInv(Dispatched(run, s, a))
           /\ Dispatched(run, s, a).scenario = run.scenario
<1> DEFINE step == [run.step EXCEPT ![s] = "dispatched"]
           agent == [run.agent EXCEPT ![s] = a]
           new == Dispatched(run, s, a)
<1>1. /\ run.step \in [Steps(run) -> StepStatus]
      /\ run.agent \in [Steps(run) -> Agents \cup {NoAgent}]
  BY RunParts
<1>2. /\ step \in [Steps(run) -> StepStatus]
      /\ agent \in [Steps(run) -> Agents \cup {NoAgent}]
      /\ step[s] = "dispatched"
      /\ \A i \in Steps(run) \ {s} : step[i] = run.step[i]
  BY <1>1 DEF StepStatus
<1>3. new = Rebuilt(run, "running", step, agent)
  <2>1. PICK sc \in Scenarios : run \in RunOf(sc)
    BY DEF Run
  <2>2. new = [run EXCEPT !.step = step, !.agent = agent]
    BY <2>1 DEF RunOf, Dispatched
  <2> HIDE DEF step, agent, new
  <2> QED
    BY <2>1, <2>2 DEF RunOf, Rebuilt
<1> HIDE DEF step, agent, new
<1>4. /\ new \in Run
      /\ new.scenario = run.scenario
      /\ new.status = "running"
      /\ new.step = step
      /\ Steps(new) = Steps(run)
  BY <1>2, <1>3, RebuiltRun DEF RunStatus
<1>5. StatusMatches(new)
  BY <1>2, <1>4 DEF StatusMatches, AllTerminal, Terminal
<1>6. CascadeComplete(new)
  BY <1>2, <1>4 DEF RunInv, CascadeComplete, AbortOnFail
<1>7. NoAbortedWhileOpen(new)
  BY <1>2, <1>4 DEF RunInv, NoAbortedWhileOpen
<1> QED
  BY <1>4, <1>5, <1>6, <1>7 DEF RunInv, new

\* start_run builds a run that satisfies it.
LEMMA NewRunInv ==
    ASSUME NEW sc \in Scenarios
    PROVE  NewRun(sc) \in Run /\ RunInv(NewRun(sc))
<1>1. NewRun(sc) \in Run
  <2>1. /\ [s \in StepsOf(Plan[sc]) |-> "queued"] \in [StepsOf(Plan[sc]) -> StepStatus]
        /\ [s \in StepsOf(Plan[sc]) |-> NoAgent] \in [StepsOf(Plan[sc]) -> Agents \cup {NoAgent}]
    BY DEF StepStatus
  <2>2. NewRun(sc) \in RunOf(sc)
    BY <2>1 DEF NewRun, RunOf, RunStatus
  <2> QED
    BY <2>2 DEF Run
<1>2. RunInv(NewRun(sc))
  BY DEF NewRun, RunInv, StatusMatches, CascadeComplete, NoAbortedWhileOpen,
         AllTerminal, Terminal, Steps
<1> QED
  BY <1>1, <1>2

-----------------------------------------------------------------------------
(* The planner. *)

\* A run of the planner is a Run.
LEMMA RunsElement ==
    ASSUME runs \in Seq(Run)
    PROVE  /\ Len(runs) \in Nat
           /\ DOMAIN runs = 1 .. Len(runs)
           /\ runs \in [DOMAIN runs -> Run]
BY LenProperties

\* The shape of every step but start_run: each run is replaced by one of the
\* same scenario that satisfies the invariant.
LEMMA ReplaceRuns ==
    ASSUME IInv, runs' \in [DOMAIN runs -> Run],
           \A r \in DOMAIN runs : RunInv(runs'[r]) /\ runs'[r].scenario = runs[r].scenario
    PROVE  /\ runs' \in Seq(Run)
           /\ DOMAIN runs' = DOMAIN runs
           /\ \A r \in DOMAIN runs' : RunInv(runs'[r])
           /\ \A r \in DOMAIN runs' : ValidDag(Plan[runs'[r].scenario])
           /\ \A r \in DOMAIN runs' : Steps(runs'[r]) = Steps(runs[r])
<1>1. DOMAIN runs' = DOMAIN runs
  OBVIOUS
<1>2. Len(runs) \in Nat /\ DOMAIN runs = 1 .. Len(runs)
  BY RunsElement DEF IInv, TypeOK
<1>3. runs' \in Seq(Run)
  BY <1>2, SeqDef
<1> QED
  BY <1>1, <1>3 DEF IInv, Steps

\* What TypeOK says of the agents survives such a step when the held tasks
\* are steps of runs.
LEMMA KeepHeld ==
    ASSUME TypeOK, runs' \in Seq(Run), DOMAIN runs' = DOMAIN runs,
           \A r \in DOMAIN runs' : Steps(runs'[r]) = Steps(runs[r]),
           \A a \in Agents : \/ held'[a] = NoTask
                             \/ held'[a] = held[a],
           held' \in [Agents -> Task \cup {NoTask}],
           lost' \subseteq Task, cutShort' \subseteq Task, retries' \in 0 .. MaxRetries
    PROVE  TypeOK'
BY DEF TypeOK

\* One lemma per action: the invariant is preserved and DispatchRule holds.
LEMMA StartRunStep ==
    ASSUME IInv, NEW sc \in Scenarios, StartRun(sc)
    PROVE  IInv' /\ DispatchRule
<1>1. /\ runs \in Seq(Run) /\ Len(runs) \in Nat /\ DOMAIN runs = 1 .. Len(runs)
      /\ NewRun(sc) \in Run /\ RunInv(NewRun(sc))
      /\ NewRun(sc).scenario = sc
  BY RunsElement, NewRunInv DEF IInv, TypeOK, NewRun
<1>2. /\ runs' \in Seq(Run)
      /\ Len(runs') = Len(runs) + 1
      /\ \A r \in 1 .. Len(runs) : runs'[r] = runs[r]
      /\ runs'[Len(runs) + 1] = NewRun(sc)
  BY <1>1, AppendProperties DEF StartRun
<1>3. DOMAIN runs' = 1 .. Len(runs) + 1
  BY <1>2, LenProperties
<1>4. ValidDag(Plan[sc])
  BY DEF StartRun
<1>5. \A r \in DOMAIN runs' : r \in DOMAIN runs \/ r = Len(runs) + 1
  BY <1>1, <1>3
<1>6. /\ \A r \in DOMAIN runs' : RunInv(runs'[r])
      /\ \A r \in DOMAIN runs' : ValidDag(Plan[runs'[r].scenario])
  BY <1>1, <1>2, <1>4, <1>5 DEF IInv
<1>7. TypeOK'
  BY <1>1, <1>2, <1>3 DEF IInv, TypeOK, StartRun
<1>8. DispatchRule
  BY <1>1, <1>2 DEF DispatchRule
<1> QED
  BY <1>6, <1>7, <1>8 DEF IInv

\* What the other methods do to run r, except that one may dispatch a step.
GoodUpdate(r) ==
    /\ runs'[r] \in Run
    /\ RunInv(runs'[r])
    /\ runs'[r].scenario = runs[r].scenario
    /\ DispatchesNothing(runs[r], runs'[r])

\* A step that updates the runs this way, and leaves the agents holding what
\* they held or nothing, is all right.
LEMMA GoodUpdates ==
    ASSUME IInv, runs' \in [DOMAIN runs -> Run], \A r \in DOMAIN runs : GoodUpdate(r),
           \A a \in Agents : held'[a] = NoTask \/ held'[a] = held[a],
           held' \in [Agents -> Task \cup {NoTask}],
           lost' \subseteq Task, cutShort' \subseteq Task, retries' \in 0 .. MaxRetries
    PROVE  IInv' /\ DispatchRule
<1>1. /\ runs' \in Seq(Run)
      /\ DOMAIN runs' = DOMAIN runs
      /\ \A r \in DOMAIN runs' : RunInv(runs'[r])
      /\ \A r \in DOMAIN runs' : ValidDag(Plan[runs'[r].scenario])
      /\ \A r \in DOMAIN runs' : Steps(runs'[r]) = Steps(runs[r])
  BY ReplaceRuns DEF GoodUpdate
<1>2. TypeOK'
  BY <1>1, KeepHeld DEF IInv
<1>3. DispatchRule
  BY DEF GoodUpdate, DispatchRule, DispatchesNothing
<1> QED
  BY <1>1, <1>2, <1>3 DEF IInv

\* A run that does not change is a good update.
LEMMA SameRun ==
    ASSUME IInv, NEW r \in DOMAIN runs, runs'[r] = runs[r]
    PROVE  GoodUpdate(r)
BY RunsElement DEF IInv, TypeOK, GoodUpdate, DispatchesNothing

LEMMA PauseRunsStep ==
    ASSUME IInv, NEW ids \in SUBSET DOMAIN runs, PauseRuns(ids)
    PROVE  IInv' /\ DispatchRule
<1>1. ASSUME NEW r \in DOMAIN runs PROVE GoodUpdate(r)
  <2>1. runs[r] \in Run /\ RunInv(runs[r])
    BY RunsElement DEF IInv, TypeOK
  <2>2. CASE r \in ids /\ runs[r].status = "running"
    <3>1. runs'[r] = [runs[r] EXCEPT !.status = "paused"]
      BY <2>2 DEF PauseRuns
    <3> QED
      BY <2>1, <2>2, <3>1, PauseResumeInv DEF GoodUpdate
  <2>3. CASE ~(r \in ids /\ runs[r].status = "running")
    BY <2>3, SameRun DEF PauseRuns
  <2> QED
    BY <2>2, <2>3
<1>2. runs' \in [DOMAIN runs -> Run]
  BY <1>1 DEF GoodUpdate, PauseRuns
<1> QED
  BY <1>1, <1>2, GoodUpdates DEF IInv, TypeOK, PauseRuns

LEMMA ResumeRunsStep ==
    ASSUME IInv, NEW ids \in SUBSET DOMAIN runs, ResumeRuns(ids)
    PROVE  IInv' /\ DispatchRule
<1>1. ASSUME NEW r \in DOMAIN runs PROVE GoodUpdate(r)
  <2>1. runs[r] \in Run /\ RunInv(runs[r])
    BY RunsElement DEF IInv, TypeOK
  <2>2. CASE r \in ids /\ runs[r].status = "paused"
    <3>1. runs'[r] = [runs[r] EXCEPT !.status = "running"]
      BY <2>2 DEF ResumeRuns
    <3> QED
      BY <2>1, <2>2, <3>1, PauseResumeInv DEF GoodUpdate
  <2>3. CASE ~(r \in ids /\ runs[r].status = "paused")
    BY <2>3, SameRun DEF ResumeRuns
  <2> QED
    BY <2>2, <2>3
<1>2. runs' \in [DOMAIN runs -> Run]
  BY <1>1 DEF GoodUpdate, ResumeRuns
<1> QED
  BY <1>1, <1>2, GoodUpdates DEF IInv, TypeOK, ResumeRuns

LEMMA RetryFailedStepsStep ==
    ASSUME IInv, NEW q \in DOMAIN runs, RetryFailedSteps(q)
    PROVE  IInv' /\ DispatchRule
<1>1. ASSUME NEW r \in DOMAIN runs PROVE GoodUpdate(r)
  <2>1. runs[r] \in Run /\ RunInv(runs[r])
    BY RunsElement DEF IInv, TypeOK
  <2>2. CASE r = q
    <3>1. runs'[r] = Retried(runs[r]) /\ Retryable(runs[r]) # {}
      BY <2>2 DEF RetryFailedSteps
    <3> QED
      BY <2>1, <3>1, RetriedInv DEF GoodUpdate
  <2>3. CASE r # q
    BY <2>3, SameRun DEF RetryFailedSteps
  <2> QED
    BY <2>2, <2>3
<1>2. runs' \in [DOMAIN runs -> Run]
  <2>1. runs \in [DOMAIN runs -> Run]
    BY RunsElement DEF IInv, TypeOK
  <2> QED
    BY <1>1, <2>1 DEF GoodUpdate, RetryFailedSteps
<1>3. retries' \in 0 .. MaxRetries
  BY BoundsAssumption DEF IInv, TypeOK, RetryFailedSteps
<1> QED
  BY <1>1, <1>2, <1>3, GoodUpdates DEF IInv, TypeOK, RetryFailedSteps

LEMMA ReportResultStep ==
    ASSUME IInv, NEW a \in Agents, NEW ok \in BOOLEAN, ReportResult(a, ok)
    PROVE  IInv' /\ DispatchRule
<1> DEFINE q == held[a][1]
           s == held[a][2]
<1>1. q \in DOMAIN runs /\ s \in Steps(runs[q])
  BY DEF IInv, TypeOK, ReportResult
<1>2. ASSUME NEW r \in DOMAIN runs PROVE GoodUpdate(r)
  <2>1. runs[r] \in Run /\ RunInv(runs[r])
    BY RunsElement DEF IInv, TypeOK
  <2>2. CASE r = q
    <3>1. runs'[r] = Reported(runs[r], s, ok)
      BY <2>2 DEF ReportResult
    <3> QED
      BY <1>1, <2>1, <2>2, <3>1, ReportedInv DEF GoodUpdate
  <2>3. CASE r # q
    BY <2>3, SameRun DEF ReportResult
  <2> QED
    BY <2>2, <2>3
<1>3. runs' \in [DOMAIN runs -> Run]
  <2>1. runs \in [DOMAIN runs -> Run]
    BY RunsElement DEF IInv, TypeOK
  <2> QED
    BY <1>2, <2>1 DEF GoodUpdate, ReportResult
<1> QED
  BY <1>2, <1>3, GoodUpdates DEF IInv, TypeOK, ReportResult

LEMMA LoseResultStep ==
    ASSUME IInv, NEW a \in Agents, LoseResult(a)
    PROVE  IInv' /\ DispatchRule
<1>1. \A r \in DOMAIN runs : GoodUpdate(r)
  BY SameRun DEF LoseResult
<1>2. runs' \in [DOMAIN runs -> Run]
  BY RunsElement DEF IInv, TypeOK, LoseResult
<1>3. lost' \subseteq Task
  BY DEF IInv, TypeOK, LoseResult
<1> QED
  BY <1>1, <1>2, <1>3, GoodUpdates DEF IInv, TypeOK, LoseResult

LEMMA AbortAllStep ==
    ASSUME IInv, AbortAll
    PROVE  IInv' /\ DispatchRule
<1>1. ASSUME NEW r \in DOMAIN runs PROVE GoodUpdate(r)
  <2>1. runs[r] \in Run /\ RunInv(runs[r])
    BY RunsElement DEF IInv, TypeOK
  <2>2. runs'[r] = Aborted(runs[r])
    BY DEF AbortAll
  <2> QED
    BY <2>1, <2>2, AbortedInv DEF GoodUpdate
<1>2. runs' \in [DOMAIN runs -> Run]
  BY <1>1 DEF GoodUpdate, AbortAll
<1>3. cutShort' \subseteq Task
  <2>1. DOMAIN runs \subseteq Nat
    BY RunsElement DEF IInv, TypeOK
  <2>2. \A r \in DOMAIN runs : Steps(runs[r]) \subseteq Nat
    BY RunsElement, RunParts, PlanAssumption DEF IInv, TypeOK, Steps, StepsOf
  <2>3. InFlight \subseteq Task
    BY <2>1, <2>2 DEF InFlight, Task
  <2> QED
    BY <2>3 DEF IInv, TypeOK, AbortAll
<1> QED
  BY <1>1, <1>2, <1>3, GoodUpdates DEF IInv, TypeOK, AbortAll

LEMMA NextTaskForAgentStep ==
    ASSUME IInv, NEW a \in Agents, NextTaskForAgent(a)
    PROVE  IInv' /\ DispatchRule
<1>a. PICK q \in DOMAIN runs : \E s \in ReadyFor(a, q) :
        /\ runs' = [runs EXCEPT ![q] = Dispatched(@, s, a)]
        /\ held' = [held EXCEPT ![a] = <<q, s>>]
        /\ lost' = lost \ {<<q, s>>}
        /\ UNCHANGED <<cutShort, retries>>
  BY DEF NextTaskForAgent
<1>1. PICK s \in ReadyFor(a, q) :
        /\ runs' = [runs EXCEPT ![q] = Dispatched(@, s, a)]
        /\ held' = [held EXCEPT ![a] = <<q, s>>]
        /\ lost' = lost \ {<<q, s>>}
        /\ UNCHANGED <<cutShort, retries>>
  BY <1>a
<1>2. /\ runs[q] \in Run /\ RunInv(runs[q])
      /\ runs \in [DOMAIN runs -> Run]
      /\ DependenciesKnown(Plan[runs[q].scenario])
  BY RunsElement DEF IInv, TypeOK, ValidDag
<1>3. /\ runs[q].status = "running"
      /\ s \in Steps(runs[q])
      /\ IsStepReady(runs[q], s)
  BY DEF ReadyFor
<1>4. runs[q].step[s] = "queued"
  BY <1>3 DEF IsStepReady
<1>5. /\ runs'[q] = Dispatched(runs[q], s, a)
      /\ \A r \in DOMAIN runs \ {q} : runs'[r] = runs[r]
  BY <1>1
<1>6. /\ runs'[q] \in Run
      /\ RunInv(runs'[q])
      /\ runs'[q].scenario = runs[q].scenario
  BY <1>2, <1>3, <1>4, <1>5, DispatchedInv
<1>7. /\ runs' \in [DOMAIN runs -> Run]
      /\ \A r \in DOMAIN runs : RunInv(runs'[r]) /\ runs'[r].scenario = runs[r].scenario
  BY <1>1, <1>2, <1>5, <1>6 DEF IInv
<1>8. /\ runs' \in Seq(Run)
      /\ DOMAIN runs' = DOMAIN runs
      /\ \A r \in DOMAIN runs' : RunInv(runs'[r])
      /\ \A r \in DOMAIN runs' : ValidDag(Plan[runs'[r].scenario])
      /\ \A r \in DOMAIN runs' : Steps(runs'[r]) = Steps(runs[r])
  BY <1>7, ReplaceRuns
<1>9. <<q, s>> \in Task
  <2>1. DOMAIN runs \subseteq Nat
    BY RunsElement DEF IInv, TypeOK
  <2>2. s \in Nat
    BY <1>2, <1>3, RunParts, PlanAssumption DEF Steps, StepsOf
  <2> QED
    BY <2>1, <2>2 DEF Task
<1>10. TypeOK'
  BY <1>1, <1>3, <1>8, <1>9 DEF IInv, TypeOK
<1>11. DispatchRule
  <2>1. \A d \in Deps(runs[q], s) : runs[q].step[d] = "success"
    <3> SUFFICES ASSUME NEW d \in Deps(runs[q], s) PROVE runs[q].step[d] = "success"
      OBVIOUS
    <3>1. d \in Steps(runs[q])
      BY <1>2, <1>3 DEF DependenciesKnown, Deps, Steps
    <3>2. runs[q].step[d] # "skipped"
      BY <1>2, <1>3, <1>4, <3>1 DEF RunInv, CascadeComplete
    <3> QED
      BY <1>3, <3>2 DEF IsStepReady
  <2>2. \A t \in Steps(runs[q]) \ {s} : runs'[q].step[t] = runs[q].step[t]
    BY <1>2, <1>5, RunParts DEF Dispatched
  <2> QED
    BY <1>3, <1>4, <1>5, <2>1, <2>2 DEF DispatchRule
<1> QED
  BY <1>8, <1>10, <1>11 DEF IInv

-----------------------------------------------------------------------------
(* Tasks: who executes which step. *)

\* Until abort_all takes it away, the step of a held task is dispatched.
HeldIsDispatched ==
    \A a \in Agents : held[a] # NoTask /\ held[a] \notin cutShort =>
        runs[held[a][1]].step[held[a][2]] = "dispatched"

TaskInv == DispatchedStepHasOwner /\ DoubleExecutionOnlyAfterAbort /\ HeldIsDispatched

\* What each method does to the steps of a run and to their agents.
LEMMA ReportedChanges ==
    ASSUME NEW run \in Run, NEW s \in Steps(run), NEW ok \in BOOLEAN
    PROVE  /\ Reported(run, s, ok).step = AfterResult(run, s, ok)
           /\ Reported(run, s, ok).agent = run.agent
           /\ Reported(run, s, ok).scenario = run.scenario
           /\ ~AllTerminal(AfterResult(run, s, ok)) => Reported(run, s, ok).status = run.status
<1>1. PICK sc \in Scenarios : run \in RunOf(sc)
  BY DEF Run
<1> QED
  BY <1>1 DEF RunOf, Reported

LEMMA RetriedChanges ==
    ASSUME NEW run \in Run
    PROVE  /\ Retried(run).status = "running"
           /\ \A i \in Steps(run) :
                 IF i \in Retryable(run)
                 THEN Retried(run).step[i] = "queued"
                 ELSE /\ Retried(run).step[i] = run.step[i]
                      /\ Retried(run).agent[i] = run.agent[i]
<1>1. PICK sc \in Scenarios : run \in RunOf(sc)
  BY DEF Run
<1>2. DOMAIN run.step = Steps(run) /\ DOMAIN run.agent = Steps(run)
  BY RunParts
<1>3. /\ Retried(run).status = "running"
      /\ Retried(run).step =
            [i \in Steps(run) |-> IF i \in Retryable(run) THEN "queued" ELSE run.step[i]]
      /\ Retried(run).agent =
            [i \in Steps(run) |-> IF i \in Retryable(run) THEN NoAgent ELSE run.agent[i]]
  BY <1>1, <1>2 DEF RunOf, Retried
<1> QED
  BY <1>3

LEMMA AbortedChanges ==
    ASSUME NEW run \in Run, run.status = "running"
    PROVE  /\ Aborted(run).agent = run.agent
           /\ \A i \in Steps(run) : Aborted(run).step[i] =
                 IF run.step[i] \in Active THEN "aborted" ELSE run.step[i]
<1>1. PICK sc \in Scenarios : run \in RunOf(sc)
  BY DEF Run
<1>2. DOMAIN run.step = Steps(run)
  BY RunParts
<1>3. /\ Aborted(run).agent = run.agent
      /\ Aborted(run).step =
            [i \in Steps(run) |-> IF run.step[i] \in Active THEN "aborted" ELSE run.step[i]]
  BY <1>1, <1>2 DEF RunOf, Aborted
<1> QED
  BY <1>3

LEMMA DispatchedChanges ==
    ASSUME NEW run \in Run, NEW s \in Steps(run), NEW a \in Agents
    PROVE  /\ Dispatched(run, s, a).step[s] = "dispatched"
           /\ Dispatched(run, s, a).agent[s] = a
           /\ Dispatched(run, s, a).status = run.status
           /\ Dispatched(run, s, a).scenario = run.scenario
           /\ \A i \in Steps(run) \ {s} :
                 /\ Dispatched(run, s, a).step[i] = run.step[i]
                 /\ Dispatched(run, s, a).agent[i] = run.agent[i]
<1>1. PICK sc \in Scenarios : run \in RunOf(sc)
  BY DEF Run
<1>2. DOMAIN run.step = Steps(run) /\ DOMAIN run.agent = Steps(run)
  BY RunParts
<1>3. /\ Dispatched(run, s, a).step = [run.step EXCEPT ![s] = "dispatched"]
      /\ Dispatched(run, s, a).agent = [run.agent EXCEPT ![s] = a]
      /\ Dispatched(run, s, a).status = run.status
      /\ Dispatched(run, s, a).scenario = run.scenario
  BY <1>1 DEF RunOf, Dispatched
<1> QED
  BY <1>2, <1>3

LEMMA PausedChanges ==
    ASSUME NEW run \in Run, NEW status
    PROVE  /\ [run EXCEPT !.status = status].step = run.step
           /\ [run EXCEPT !.status = status].agent = run.agent
           /\ [run EXCEPT !.status = status].status = status
           /\ [run EXCEPT !.status = status].scenario = run.scenario
<1>1. PICK sc \in Scenarios : run \in RunOf(sc)
  BY DEF Run
<1> QED
  BY <1>1 DEF RunOf

\* No run has a step dispatched that was not, to the same agent.
KeepsDispatched ==
    \A r \in DOMAIN runs' : \A s \in Steps(runs'[r]) :
        runs'[r].step[s] = "dispatched" =>
            /\ r \in DOMAIN runs /\ s \in Steps(runs[r])
            /\ runs[r].step[s] = "dispatched"
            /\ runs'[r].agent[s] = runs[r].agent[s]

\* An agent lets go of a task only when it settles the step or its report is
\* lost, and a step is settled under its hands only by abort_all.
KeepsHeld ==
    \A a \in Agents :
        \/ /\ held'[a] = held[a]
           /\ held[a] # NoTask /\ held[a] \notin cutShort' =>
                  (runs[held[a][1]].step[held[a][2]] = "dispatched" =>
                       runs'[held[a][1]].step[held[a][2]] = "dispatched")
        \/ /\ held[a] # NoTask /\ held'[a] = NoTask
           /\ held[a] \in lost' \/ runs'[held[a][1]].step[held[a][2]] # "dispatched"

\* Every step but a dispatch has this shape.
LEMMA KeepsTaskInv ==
    ASSUME TypeOK, TaskInv, KeepsDispatched, KeepsHeld,
           lost \subseteq lost', cutShort \subseteq cutShort'
    PROVE  TaskInv'
<1>1. DispatchedStepHasOwner'
  <2> SUFFICES ASSUME NEW r \in DOMAIN runs', NEW s \in Steps(runs'[r]),
                      runs'[r].step[s] = "dispatched"
               PROVE  \/ <<r, s>> \in lost'
                      \/ runs'[r].agent[s] \in Agents /\ held'[runs'[r].agent[s]] = <<r, s>>
    BY DEF DispatchedStepHasOwner, Steps
  <2>1. /\ r \in DOMAIN runs /\ s \in Steps(runs[r])
        /\ runs[r].step[s] = "dispatched"
        /\ runs'[r].agent[s] = runs[r].agent[s]
    BY DEF KeepsDispatched
  <2>2. CASE <<r, s>> \in lost
    BY <2>2
  <2>3. CASE runs[r].agent[s] \in Agents /\ held[runs[r].agent[s]] = <<r, s>>
    BY <2>1, <2>3 DEF KeepsHeld
  <2> QED
    BY <2>1, <2>2, <2>3 DEF TaskInv, DispatchedStepHasOwner
<1>2. \A a \in Agents : held'[a] # NoTask => held'[a] = held[a]
  BY DEF KeepsHeld
<1>3. DoubleExecutionOnlyAfterAbort'
  BY <1>2 DEF TaskInv, DoubleExecutionOnlyAfterAbort
<1>4. HeldIsDispatched'
  <2> SUFFICES ASSUME NEW a \in Agents, held'[a] # NoTask, held'[a] \notin cutShort'
               PROVE  runs'[held'[a][1]].step[held'[a][2]] = "dispatched"
    BY DEF HeldIsDispatched
  <2>1. held'[a] = held[a] /\ held[a] \notin cutShort
    BY <1>2
  <2>2. runs[held[a][1]].step[held[a][2]] = "dispatched"
    BY <2>1 DEF TaskInv, HeldIsDispatched
  <2> QED
    BY <2>1, <2>2 DEF KeepsHeld
<1> QED
  BY <1>1, <1>3, <1>4 DEF TaskInv

\* A method that leaves the steps of every run and their agents alone.
LEMMA QuietRuns ==
    ASSUME IInv, TaskInv, DOMAIN runs' = DOMAIN runs,
           \A r \in DOMAIN runs : /\ runs'[r].step = runs[r].step
                                 /\ runs'[r].agent = runs[r].agent
                                 /\ runs'[r].scenario = runs[r].scenario
    PROVE  KeepsDispatched
BY DEF KeepsDispatched, Steps

LEMMA StartRunTasks ==
    ASSUME IInv, TaskInv, NEW sc \in Scenarios, StartRun(sc)
    PROVE  TaskInv' /\ SettledRule
<1>1. /\ runs \in Seq(Run) /\ Len(runs) \in Nat /\ DOMAIN runs = 1 .. Len(runs)
      /\ NewRun(sc) \in Run
  BY RunsElement, NewRunInv DEF IInv, TypeOK
<1>2. /\ DOMAIN runs' = 1 .. Len(runs) + 1
      /\ \A r \in 1 .. Len(runs) : runs'[r] = runs[r]
      /\ runs'[Len(runs) + 1] = NewRun(sc)
      /\ held' = held /\ lost' = lost /\ cutShort' = cutShort
  BY <1>1, AppendProperties, LenProperties DEF StartRun
<1>3. \A r \in DOMAIN runs' : r \in DOMAIN runs \/ r = Len(runs) + 1
  BY <1>1, <1>2
<1>4. \A s \in Steps(NewRun(sc)) : NewRun(sc).step[s] # "dispatched"
  BY DEF NewRun, Steps
<1>5. KeepsDispatched
  BY <1>1, <1>2, <1>3, <1>4 DEF KeepsDispatched
<1>6. KeepsHeld
  BY <1>1, <1>2 DEF KeepsHeld, IInv, TypeOK
<1>7. TaskInv'
  BY <1>2, <1>5, <1>6, KeepsTaskInv DEF IInv
<1>8. SettledRule
  BY <1>1, <1>2 DEF SettledRule
<1> QED
  BY <1>7, <1>8

LEMMA PauseRunsTasks ==
    ASSUME IInv, TaskInv, NEW ids \in SUBSET DOMAIN runs, PauseRuns(ids) \/ ResumeRuns(ids)
    PROVE  TaskInv' /\ SettledRule
<1>1. /\ DOMAIN runs' = DOMAIN runs
      /\ held' = held /\ lost' = lost /\ cutShort' = cutShort
  BY DEF PauseRuns, ResumeRuns
<1>2. ASSUME NEW r \in DOMAIN runs
      PROVE  /\ runs'[r].step = runs[r].step
             /\ runs'[r].agent = runs[r].agent
             /\ runs'[r].scenario = runs[r].scenario
             /\ runs[r].status \notin {"running", "paused"} => runs'[r].status = runs[r].status
  <2>1. runs[r] \in Run
    BY RunsElement DEF IInv, TypeOK
  <2>2. \/ runs'[r] = runs[r]
        \/ /\ runs[r].status \in {"running", "paused"}
           /\ \E status \in {"running", "paused"} : runs'[r] = [runs[r] EXCEPT !.status = status]
    BY DEF PauseRuns, ResumeRuns
  <2>3. CASE runs'[r] = runs[r]
    BY <2>3
  <2>4. ASSUME runs[r].status \in {"running", "paused"},
               NEW status \in {"running", "paused"}, runs'[r] = [runs[r] EXCEPT !.status = status]
        PROVE  /\ runs'[r].step = runs[r].step
               /\ runs'[r].agent = runs[r].agent
               /\ runs'[r].scenario = runs[r].scenario
    BY <2>1, <2>4, PausedChanges
  <2> QED
    BY <2>2, <2>3, <2>4
<1>3. KeepsDispatched
  BY <1>1, <1>2, QuietRuns
<1>4. KeepsHeld
  BY <1>1, <1>2 DEF KeepsHeld, IInv, TypeOK
<1>5. TaskInv'
  BY <1>1, <1>3, <1>4, KeepsTaskInv DEF IInv
<1>6. SettledRule
  BY <1>1, <1>2 DEF SettledRule
<1> QED
  BY <1>5, <1>6

LEMMA RetryFailedStepsTasks ==
    ASSUME IInv, TaskInv, NEW q \in DOMAIN runs, RetryFailedSteps(q)
    PROVE  TaskInv' /\ SettledRule
<1>1. /\ runs \in [DOMAIN runs -> Run] /\ runs' = [runs EXCEPT ![q] = Retried(runs[q])]
      /\ held' = held /\ lost' = lost /\ cutShort' = cutShort /\ retries' = retries + 1
  BY RunsElement DEF RetryFailedSteps, IInv, TypeOK
<1>2. /\ runs[q] \in Run /\ RunInv(runs[q]) /\ Retryable(runs[q]) # {}
      /\ runs'[q] = Retried(runs[q])
      /\ \A r \in DOMAIN runs \ {q} : runs'[r] = runs[r]
      /\ DOMAIN runs' = DOMAIN runs
  BY <1>1 DEF IInv, RetryFailedSteps
<1>3. Steps(runs'[q]) = Steps(runs[q])
  BY <1>2, RetriedInv DEF Steps
<1>4. \A i \in Steps(runs[q]) : i \in Retryable(runs[q]) => runs[q].step[i] # "dispatched"
  BY DEF Retryable
<1>5. KeepsDispatched
  <2> SUFFICES ASSUME NEW r \in DOMAIN runs, NEW s \in Steps(runs'[r]),
                      runs'[r].step[s] = "dispatched"
               PROVE  /\ s \in Steps(runs[r])
                      /\ runs[r].step[s] = "dispatched"
                      /\ runs'[r].agent[s] = runs[r].agent[s]
    BY <1>2 DEF KeepsDispatched
  <2>1. CASE r = q
    BY <2>1, <1>2, <1>3, RetriedChanges
  <2>2. CASE r # q
    BY <2>2, <1>2
  <2> QED
    BY <2>1, <2>2
<1>6. KeepsHeld
  <2> SUFFICES ASSUME NEW a \in Agents, held[a] # NoTask,
                      runs[held[a][1]].step[held[a][2]] = "dispatched"
               PROVE  runs'[held[a][1]].step[held[a][2]] = "dispatched"
    BY <1>1 DEF KeepsHeld
  <2>1. held[a][1] \in DOMAIN runs /\ held[a][2] \in Steps(runs[held[a][1]])
    BY DEF IInv, TypeOK
  <2>2. CASE held[a][1] = q
    BY <2>1, <2>2, <1>2, <1>4, RetriedChanges
  <2>3. CASE held[a][1] # q
    BY <2>1, <2>3, <1>2
  <2> QED
    BY <2>2, <2>3
<1>7. TaskInv'
  BY <1>1, <1>5, <1>6, KeepsTaskInv DEF IInv
<1>8. retries' # retries /\ runs'[q].status = "running"
  BY <1>1, <1>2, RetriedChanges DEF IInv, TypeOK
<1>9. \A i \in Steps(runs[q]) : runs[q].step[i] = "success" => runs'[q].step[i] = "success"
  BY <1>2, RetriedChanges DEF Retryable
<1>10. SettledRule
  <2> SUFFICES ASSUME NEW r \in DOMAIN runs
               PROVE  /\ \A i \in Steps(runs[r]) :
                            runs[r].step[i] = "success" => runs'[r].step[i] = "success"
                      /\ runs'[r].status = runs[r].status \/ runs'[r].status = "running"
    BY <1>8 DEF SettledRule
  <2>1. CASE r = q
    BY <1>8, <1>9, <2>1
  <2>2. CASE r # q
    BY <1>2, <2>2
  <2> QED
    BY <2>1, <2>2
<1> QED
  BY <1>7, <1>10

LEMMA LoseResultTasks ==
    ASSUME IInv, TaskInv, NEW a \in Agents, LoseResult(a)
    PROVE  TaskInv' /\ SettledRule
<1>1. /\ runs' = runs /\ cutShort' = cutShort /\ held[a] # NoTask
      /\ lost' = lost \cup {held[a]} /\ held' = [held EXCEPT ![a] = NoTask]
  BY DEF LoseResult
<1>2. KeepsDispatched
  BY <1>1, QuietRuns
<1>3. /\ held'[a] = NoTask
      /\ \A b \in Agents \ {a} : held'[b] = held[b]
  BY <1>1 DEF IInv, TypeOK
<1>4. KeepsHeld
  BY <1>1, <1>3 DEF KeepsHeld
<1>5. TaskInv'
  BY <1>1, <1>2, <1>4, KeepsTaskInv DEF IInv
<1> QED
  BY <1>1, <1>5 DEF SettledRule

LEMMA ReportResultTasks ==
    ASSUME IInv, TaskInv, NEW a \in Agents, NEW ok \in BOOLEAN, ReportResult(a, ok)
    PROVE  TaskInv' /\ SettledRule
<1> DEFINE q == held[a][1]
           s == held[a][2]
<1>1. /\ held[a] # NoTask
      /\ runs' = [runs EXCEPT ![q] = Reported(runs[q], s, ok)]
      /\ held' = [held EXCEPT ![a] = NoTask]
      /\ lost' = lost /\ cutShort' = cutShort /\ retries' = retries
  BY DEF ReportResult
<1>2. /\ runs \in [DOMAIN runs -> Run] /\ held \in [Agents -> Task \cup {NoTask}]
      /\ q \in DOMAIN runs /\ s \in Steps(runs[q])
  BY <1>1, RunsElement DEF IInv, TypeOK
<1>3. held[a] = <<q, s>>
  BY <1>1, <1>2 DEF Task
<1> HIDE DEF q, s
<1>4. /\ runs[q] \in Run /\ RunInv(runs[q])
      /\ runs'[q] = Reported(runs[q], s, ok)
      /\ \A r \in DOMAIN runs \ {q} : runs'[r] = runs[r]
      /\ DOMAIN runs' = DOMAIN runs
  BY <1>1, <1>2 DEF IInv
<1>5. /\ runs'[q].agent = runs[q].agent
      /\ runs'[q].step = AfterResult(runs[q], s, ok)
      /\ ~AllTerminal(AfterResult(runs[q], s, ok)) => runs'[q].status = runs[q].status
      /\ Steps(runs'[q]) = Steps(runs[q])
  BY <1>2, <1>4, ReportedChanges DEF Steps
<1>6. /\ runs'[q].step[s] \in {"success", "failed"}
      /\ \A i \in Steps(runs[q]) \ {s} :
            \/ runs'[q].step[i] = runs[q].step[i]
            \/ runs[q].step[i] = "queued" /\ runs'[q].step[i] = "skipped"
  BY <1>2, <1>4, <1>5, AfterResultSteps
<1>7. KeepsDispatched
  <2> SUFFICES ASSUME NEW r \in DOMAIN runs, NEW i \in Steps(runs'[r]),
                      runs'[r].step[i] = "dispatched"
               PROVE  /\ i \in Steps(runs[r])
                      /\ runs[r].step[i] = "dispatched"
                      /\ runs'[r].agent[i] = runs[r].agent[i]
    BY <1>4 DEF KeepsDispatched
  <2>1. CASE r = q
    BY <2>1, <1>5, <1>6
  <2>2. CASE r # q
    BY <2>2, <1>4
  <2> QED
    BY <2>1, <2>2
<1>8. \A b \in Agents \ {a} : held'[b] = held[b]
  BY <1>1, <1>2
<1>9. KeepsHeld
  <2>1. ASSUME NEW b \in Agents \ {a}, held[b] # NoTask, held[b] \notin cutShort,
               runs[held[b][1]].step[held[b][2]] = "dispatched"
        PROVE  runs'[held[b][1]].step[held[b][2]] = "dispatched"
    <3>1. held[b][1] \in DOMAIN runs /\ held[b][2] \in Steps(runs[held[b][1]])
      BY <2>1 DEF IInv, TypeOK
    <3>2. held[b] = <<held[b][1], held[b][2]>>
      BY <1>2, <2>1 DEF Task
    <3>3. held[b] # held[a]
      BY <1>1, <2>1 DEF TaskInv, DoubleExecutionOnlyAfterAbort
    <3>4. CASE held[b][1] = q
      <4>1. held[b][2] # s
        BY <1>3, <3>2, <3>3, <3>4
      <4> QED
        BY <2>1, <3>1, <3>4, <4>1, <1>6
    <3>5. CASE held[b][1] # q
      BY <2>1, <3>1, <3>5, <1>4
    <3> QED
      BY <3>4, <3>5
  <2>2. held'[a] = NoTask /\ runs'[held[a][1]].step[held[a][2]] # "dispatched"
    <3>1. held[a][1] = q /\ held[a][2] = s
      BY <1>3
    <3> QED
      BY <1>1, <1>2, <1>6, <3>1
  <2>3. \A b \in Agents \ {a} :
            /\ held'[b] = held[b]
            /\ held[b] # NoTask /\ held[b] \notin cutShort' =>
                  (runs[held[b][1]].step[held[b][2]] = "dispatched" =>
                       runs'[held[b][1]].step[held[b][2]] = "dispatched")
    BY <1>1, <1>8, <2>1
  <2> QED
    BY <1>1, <2>2, <2>3 DEF KeepsHeld
<1>10. TaskInv'
  BY <1>1, <1>7, <1>9, KeepsTaskInv DEF IInv
<1>11. held[a] \notin cutShort => runs[q].step[s] = "dispatched"
  BY <1>1 DEF TaskInv, HeldIsDispatched, q, s
<1>12. runs[q].step[s] # "dispatched" => LateResult(a, q, s)
  <2>1. held'[a] = NoTask
    BY <1>1, <1>2
  <2> QED
    BY <1>3, <1>11, <2>1 DEF LateResult
<1>13. runs[q].status \in {"completed", "failed", "aborted"} => runs[q].step[s] # "dispatched"
  <2> SUFFICES ASSUME runs[q].status \in {"completed", "failed", "aborted"}
               PROVE  runs[q].step[s] # "dispatched"
    OBVIOUS
  <2>1. AllTerminal(runs[q].step) /\ s \in DOMAIN runs[q].step
    BY <1>2, <1>4, RunParts DEF RunInv, StatusMatches
  <2> QED
    BY <2>1 DEF AllTerminal, Terminal
<1>14. ASSUME NEW r \in DOMAIN runs, NEW i \in Steps(runs[r]),
              runs[r].step[i] = "success", runs'[r].step[i] # "success"
       PROVE  LateResult(a, r, i)
  <2>1. r = q
    BY <1>4, <1>14
  <2>2. i = s
    BY <1>6, <1>14, <2>1
  <2> QED
    BY <1>12, <1>14, <2>1, <2>2
<1>15. ASSUME NEW r \in DOMAIN runs, runs[r].status \in {"completed", "failed", "aborted"},
              runs'[r].status # runs[r].status
       PROVE  s \in Steps(runs[r]) /\ LateResult(a, r, s)
  <2>1. r = q
    BY <1>4, <1>15
  <2> QED
    BY <1>2, <1>12, <1>13, <1>15, <2>1
<1>16. SettledRule
  BY <1>14, <1>15 DEF SettledRule
<1> QED
  BY <1>10, <1>16

LEMMA AbortAllTasks ==
    ASSUME IInv, TaskInv, AbortAll
    PROVE  TaskInv' /\ SettledRule
<1>1. /\ DOMAIN runs' = DOMAIN runs
      /\ \A r \in DOMAIN runs : runs'[r] = Aborted(runs[r]) /\ runs[r] \in Run
      /\ held' = held /\ lost' = lost /\ cutShort' = cutShort \cup InFlight
  BY RunsElement DEF AbortAll, IInv, TypeOK
<1>2. \A r \in DOMAIN runs : runs[r].status # "running" => runs'[r] = runs[r]
  BY <1>1 DEF Aborted
<1>3. \A r \in DOMAIN runs : runs[r].status = "running" =>
        /\ runs'[r].agent = runs[r].agent
        /\ \A i \in Steps(runs[r]) :
              runs'[r].step[i] = IF runs[r].step[i] \in Active THEN "aborted" ELSE runs[r].step[i]
  BY <1>1, AbortedChanges
<1>4. \A r \in DOMAIN runs : Steps(runs'[r]) = Steps(runs[r])
  <2>1. ASSUME NEW r \in DOMAIN runs PROVE runs'[r].scenario = runs[r].scenario
    BY <1>1, AbortedInv DEF IInv
  <2> QED
    BY <2>1 DEF Steps
<1>5. KeepsDispatched
  BY <1>1, <1>2, <1>3, <1>4 DEF KeepsDispatched, Active
<1>6. KeepsHeld
  <2> SUFFICES ASSUME NEW a \in Agents, held[a] # NoTask, held[a] \notin InFlight,
                      runs[held[a][1]].step[held[a][2]] = "dispatched"
               PROVE  runs'[held[a][1]].step[held[a][2]] = "dispatched"
    BY <1>1 DEF KeepsHeld
  <2> DEFINE q == held[a][1]
             s == held[a][2]
  <2>1. q \in DOMAIN runs /\ s \in Steps(runs[q]) /\ held[a] = <<q, s>>
    BY DEF IInv, TypeOK, Task
  <2> HIDE DEF q, s
  <2>2. runs[q].step[s] = "dispatched"
    BY DEF q, s
  <2>3. runs[q].status # "running"
    <3> SUFFICES ASSUME runs[q].status = "running" PROVE <<q, s>> \in InFlight
      BY <2>1
    <3> QED
      BY <2>1, <2>2 DEF InFlight
  <2>4. runs'[q].step[s] = "dispatched"
    BY <1>2, <2>1, <2>2, <2>3
  <2> QED
    BY <2>4 DEF q, s
<1>7. TaskInv'
  BY <1>1, <1>5, <1>6, KeepsTaskInv DEF IInv
<1>8. SettledRule
  BY <1>1, <1>2, <1>3 DEF SettledRule, Active
<1> QED
  BY <1>7, <1>8

LEMMA NextTaskForAgentTasks ==
    ASSUME IInv, TaskInv, NEW a \in Agents, NextTaskForAgent(a)
    PROVE  TaskInv' /\ SettledRule
<1>a. PICK q \in DOMAIN runs : \E s \in ReadyFor(a, q) :
        /\ runs' = [runs EXCEPT ![q] = Dispatched(@, s, a)]
        /\ held' = [held EXCEPT ![a] = <<q, s>>]
        /\ lost' = lost \ {<<q, s>>}
  BY DEF NextTaskForAgent
<1>1. PICK s \in ReadyFor(a, q) :
        /\ runs' = [runs EXCEPT ![q] = Dispatched(@, s, a)]
        /\ held' = [held EXCEPT ![a] = <<q, s>>]
        /\ lost' = lost \ {<<q, s>>}
  BY <1>a
<1>2. /\ runs \in [DOMAIN runs -> Run] /\ held \in [Agents -> Task \cup {NoTask}]
      /\ runs[q] \in Run /\ DOMAIN runs \subseteq Nat
  BY RunsElement DEF IInv, TypeOK
<1>3. /\ runs[q].status = "running" /\ s \in Steps(runs[q]) /\ runs[q].step[s] = "queued"
  BY DEF ReadyFor, IsStepReady
<1>4. held[a] = NoTask /\ cutShort' = cutShort /\ retries' = retries
  BY DEF NextTaskForAgent
<1>5. /\ runs'[q] = Dispatched(runs[q], s, a)
      /\ \A r \in DOMAIN runs \ {q} : runs'[r] = runs[r]
      /\ DOMAIN runs' = DOMAIN runs
      /\ held'[a] = <<q, s>>
      /\ \A b \in Agents \ {a} : held'[b] = held[b]
  BY <1>1, <1>2
<1>6. /\ runs'[q].step[s] = "dispatched" /\ runs'[q].agent[s] = a
      /\ runs'[q].status = runs[q].status
      /\ Steps(runs'[q]) = Steps(runs[q])
      /\ \A i \in Steps(runs[q]) \ {s} :
            /\ runs'[q].step[i] = runs[q].step[i]
            /\ runs'[q].agent[i] = runs[q].agent[i]
  <2>1. PICK run : run = runs[q]
    OBVIOUS
  <2>2. run \in Run /\ s \in Steps(run)
    BY <1>2, <1>3, <2>1
  <2>3. /\ Dispatched(run, s, a).step[s] = "dispatched"
        /\ Dispatched(run, s, a).agent[s] = a
        /\ Dispatched(run, s, a).status = run.status
        /\ Dispatched(run, s, a).scenario = run.scenario
        /\ \A i \in Steps(run) \ {s} :
              /\ Dispatched(run, s, a).step[i] = run.step[i]
              /\ Dispatched(run, s, a).agent[i] = run.agent[i]
    BY <2>2, DispatchedChanges
  <2> QED
    BY <1>5, <2>1, <2>3, Zenon DEF Steps
<1>7. <<q, s>> # NoTask
  <2>1. s \in Nat
    BY <1>2, <1>3, RunParts, PlanAssumption DEF Steps, StepsOf
  <2> QED
    BY <1>2, <2>1, NoTaskAssumption DEF Task
<1>8. ASSUME NEW b \in Agents, held[b] # NoTask
      PROVE  /\ b # a /\ held'[b] = held[b]
             /\ held[b][1] \in DOMAIN runs /\ held[b][2] \in Steps(runs[held[b][1]])
             /\ held[b] = <<held[b][1], held[b][2]>>
             /\ runs[held[b][1]].step[held[b][2]] = "dispatched" =>
                    /\ held[b] # <<q, s>>
                    /\ runs'[held[b][1]].step[held[b][2]] = "dispatched"
  <2>1. b # a /\ held'[b] = held[b]
    BY <1>4, <1>5, <1>8
  <2> DEFINE r == held[b][1]
             i == held[b][2]
  <2>2. r \in DOMAIN runs /\ i \in Steps(runs[r]) /\ held[b] = <<r, i>>
    BY <1>2, <1>8 DEF IInv, TypeOK, Task
  <2> HIDE DEF r, i
  <2>3. CASE r = q
    BY <1>3, <1>6, <2>1, <2>2, <2>3 DEF r, i
  <2>4. CASE r # q
    BY <1>5, <2>1, <2>2, <2>4 DEF r, i
  <2> QED
    BY <2>3, <2>4
<1>9. DispatchedStepHasOwner'
  <2> SUFFICES ASSUME NEW r \in DOMAIN runs', NEW i \in Steps(runs'[r]),
                      runs'[r].step[i] = "dispatched"
               PROVE  \/ <<r, i>> \in lost'
                      \/ runs'[r].agent[i] \in Agents /\ held'[runs'[r].agent[i]] = <<r, i>>
    BY DEF DispatchedStepHasOwner, Steps
  <2>1. CASE r = q /\ i = s
    BY <2>1, <1>5, <1>6
  <2>2. CASE ~(r = q /\ i = s)
    <3>1. /\ r \in DOMAIN runs /\ i \in Steps(runs[r])
          /\ runs[r].step[i] = "dispatched" /\ runs'[r].agent[i] = runs[r].agent[i]
      BY <2>2, <1>5, <1>6
    <3>2. CASE <<r, i>> \in lost
      BY <2>2, <3>2, <1>1
    <3>3. CASE runs[r].agent[i] \in Agents /\ held[runs[r].agent[i]] = <<r, i>>
      <4>1. i \in Nat
        BY <3>1, <1>2, RunParts, PlanAssumption DEF Steps, StepsOf
      <4>2. <<r, i>> # NoTask
        BY <3>1, <4>1, <1>2, NoTaskAssumption DEF Task
      <4> QED
        BY <3>1, <3>3, <4>2, <1>8
    <3> QED
      BY <3>1, <3>2, <3>3 DEF TaskInv, DispatchedStepHasOwner
  <2> QED
    BY <2>1, <2>2
<1>10. HeldIsDispatched'
  <2> SUFFICES ASSUME NEW b \in Agents, held'[b] # NoTask, held'[b] \notin cutShort
               PROVE  runs'[held'[b][1]].step[held'[b][2]] = "dispatched"
    BY <1>4 DEF HeldIsDispatched
  <2>1. CASE b = a
    BY <2>1, <1>5, <1>6
  <2>2. CASE b # a
    BY <2>2, <1>5, <1>8 DEF TaskInv, HeldIsDispatched
  <2> QED
    BY <2>1, <2>2
<1>11. DoubleExecutionOnlyAfterAbort'
  <2> SUFFICES ASSUME NEW b \in Agents, NEW c \in Agents, b # c,
                      held'[b] = held'[c], held'[b] # NoTask
               PROVE  held'[b] \in cutShort
    BY <1>4 DEF DoubleExecutionOnlyAfterAbort
  <2>1. ASSUME NEW d \in Agents \ {a}, held'[d] = <<q, s>>
        PROVE  <<q, s>> \in cutShort
    BY <2>1, <1>5, <1>7, <1>8 DEF TaskInv, HeldIsDispatched
  <2>2. CASE b = a \/ c = a
    BY <2>1, <2>2, <1>5
  <2>3. CASE b # a /\ c # a
    BY <2>3, <1>5 DEF TaskInv, DoubleExecutionOnlyAfterAbort
  <2> QED
    BY <2>2, <2>3
<1>12. SettledRule
  BY <1>3, <1>5, <1>6 DEF SettledRule
<1> QED
  BY <1>9, <1>10, <1>11, <1>12 DEF TaskInv

LEMMA NextTasks ==
    ASSUME IInv, TaskInv, [Next]_vars
    PROVE  TaskInv' /\ [SettledRule]_vars
<1>1. CASE \E sc \in Scenarios : StartRun(sc)
  BY <1>1, StartRunTasks
<1>2. CASE \E ids \in SUBSET DOMAIN runs : PauseRuns(ids) \/ ResumeRuns(ids)
  BY <1>2, PauseRunsTasks
<1>3. CASE \E r \in DOMAIN runs : RetryFailedSteps(r)
  BY <1>3, RetryFailedStepsTasks
<1>4. CASE \E a \in Agents : NextTaskForAgent(a) \/ LoseResult(a)
  BY <1>4, NextTaskForAgentTasks, LoseResultTasks
<1>5. CASE \E a \in Agents, ok \in BOOLEAN : ReportResult(a, ok)
  BY <1>5, ReportResultTasks
<1>6. CASE AbortAll
  BY <1>6, AbortAllTasks
<1>7. CASE UNCHANGED vars
  BY <1>7 DEF vars, TaskInv, DispatchedStepHasOwner, DoubleExecutionOnlyAfterAbort,
              HeldIsDispatched
<1> QED
  BY <1>1, <1>2, <1>3, <1>4, <1>5, <1>6, <1>7 DEF Next

-----------------------------------------------------------------------------
(* The theorems. *)

\* The planner starts in the invariant.
LEMMA InitIInv == Init => IInv
<1> SUFFICES ASSUME Init PROVE IInv
  OBVIOUS
<1>1. runs \in Seq(Run) /\ DOMAIN runs = {}
  BY EmptySeq DEF Init
<1> QED
  BY <1>1, BoundsAssumption DEF Init, IInv, TypeOK

\* Every step of every method keeps it, and obeys DispatchRule.
LEMMA NextIInv == IInv /\ Next => IInv' /\ DispatchRule
<1> SUFFICES ASSUME IInv, Next PROVE IInv' /\ DispatchRule
  OBVIOUS
<1>1. CASE \E sc \in Scenarios : StartRun(sc)
  BY <1>1, StartRunStep
<1>2. CASE \E ids \in SUBSET DOMAIN runs : PauseRuns(ids) \/ ResumeRuns(ids)
  BY <1>2, PauseRunsStep, ResumeRunsStep
<1>3. CASE \E r \in DOMAIN runs : RetryFailedSteps(r)
  BY <1>3, RetryFailedStepsStep
<1>4. CASE \E a \in Agents : NextTaskForAgent(a) \/ LoseResult(a)
  BY <1>4, NextTaskForAgentStep, LoseResultStep
<1>5. CASE \E a \in Agents, ok \in BOOLEAN : ReportResult(a, ok)
  BY <1>5, ReportResultStep
<1>6. CASE AbortAll
  BY <1>6, AbortAllStep
<1> QED
  BY <1>1, <1>2, <1>3, <1>4, <1>5, <1>6 DEF Next

\* A stuttering step changes nothing.
LEMMA StutterIInv == IInv /\ UNCHANGED vars => IInv'
BY DEF IInv, TypeOK, vars

\* The planner's inductive invariant holds in every reachable state.
THEOREM PlannerInvariant == SafetySpec => []IInv
<1>1. IInv /\ [Next]_vars => IInv'
  BY NextIInv, StutterIInv
<1> QED
  BY <1>1, InitIInv, PTL DEF SafetySpec

\* The planner's state has its type: runs of known scenarios, and agents that
\* only hold steps of runs that exist.
THEOREM PlannerTypeOK == SafetySpec => []TypeOK
<1>1. IInv => TypeOK
  BY DEF IInv
<1> QED
  BY <1>1, PlannerInvariant, PTL

\* The status of a run agrees with its steps, whatever results arrive late or
\* twice, however often runs are paused, retried and aborted.
THEOREM PlannerRunStatus == SafetySpec => []RunStatusMatchesSteps
<1>1. IInv => RunStatusMatchesSteps
  BY DEF IInv, RunInv, StatusMatches, RunStatusMatchesSteps
<1> QED
  BY <1>1, PlannerInvariant, PTL

\* The cascade of abort_on_fail is never undone or incomplete.
THEOREM PlannerAbortCascade == SafetySpec => []AbortCascadeComplete
<1>1. IInv => AbortCascadeComplete
  BY DEF IInv, RunInv, CascadeComplete, AbortCascadeComplete
<1> QED
  BY <1>1, PlannerInvariant, PTL

\* An open run has no aborted step.
THEOREM PlannerNoAbortedStepInOpenRun == SafetySpec => []OpenRunHasNoAbortedStep
<1>1. IInv => OpenRunHasNoAbortedStep
  BY DEF IInv, RunInv, NoAbortedWhileOpen, OpenRunHasNoAbortedStep
<1> QED
  BY <1>1, PlannerInvariant, PTL

\* A step is dispatched only when all its dependencies have succeeded.
THEOREM PlannerDispatchAfterSuccess == SafetySpec => DispatchAfterSuccess
<1>1. IInv /\ [Next]_vars => [DispatchRule]_vars
  BY NextIInv
<1> QED
  BY <1>1, PlannerInvariant, PTL DEF SafetySpec, DispatchAfterSuccess

LEMMA InitTasks == Init => TaskInv
BY EmptySeq DEF Init, TaskInv, DispatchedStepHasOwner, DoubleExecutionOnlyAfterAbort,
                HeldIsDispatched

\* Tasks: nobody executes a step twice unless abort_all took it away, and a
\* dispatched step is executed by somebody, or its report was lost.
THEOREM PlannerTasks == SafetySpec => []TaskInv
<1>1. Init => TaskInv
  BY InitTasks
<1>2. IInv /\ TaskInv /\ [Next]_vars => TaskInv'
  BY NextTasks
<1> QED
  BY <1>1, <1>2, PlannerInvariant, PTL DEF SafetySpec

\* No dispatched step is forgotten: the agent it was assigned to is executing
\* it, or the report was lost.
THEOREM PlannerDispatchedHasOwner == SafetySpec => []DispatchedStepHasOwner
<1>1. TaskInv => DispatchedStepHasOwner
  BY DEF TaskInv
<1> QED
  BY <1>1, PlannerTasks, PTL

\* A step is in the hands of two agents only after abort_all and a retry.
THEOREM PlannerDoubleExecution == SafetySpec => []DoubleExecutionOnlyAfterAbort
<1>1. TaskInv => DoubleExecutionOnlyAfterAbort
  BY DEF TaskInv
<1> QED
  BY <1>1, PlannerTasks, PTL

\* What is settled stays settled, but for a retry or the late result of a step
\* that abort_all took from its agent.
THEOREM PlannerSettled == SafetySpec => SettledUnlessCutShort
<1>1. IInv /\ TaskInv /\ [Next]_vars => [SettledRule]_vars
  BY NextTasks
<1> QED
  BY <1>1, PlannerInvariant, PlannerTasks, PTL DEF SafetySpec, SettledUnlessCutShort

\* An open run that cannot go on holds a queued step whose dependencies are
\* all settled: the plan is acyclic.  One of them did not succeed.
LEMMA StuckFromIInv ==
    ASSUME IInv
    PROVE  StuckOnlyBehindToleratedFailure
<1> SUFFICES ASSUME NEW r \in DOMAIN runs,
                    runs[r].status \in {"running", "paused"}, Steps(runs[r]) # {},
                    \A s \in Steps(runs[r]) : /\ ~IsStepReady(runs[r], s)
                                              /\ runs[r].step[s] # "dispatched"
             PROVE  \E s \in Steps(runs[r]) : \E d \in Deps(runs[r], s) :
                       /\ runs[r].step[s] = "queued"
                       /\ runs[r].step[d] = "failed" /\ ~AbortOnFail(runs[r], d)
  BY DEF StuckOnlyBehindToleratedFailure
<1> DEFINE run == runs[r]
           p == Plan[run.scenario]
           Queued == {s \in Steps(run) : run.step[s] = "queued"}
<1>1. /\ run \in Run /\ RunInv(run) /\ ValidDag(p)
      /\ run.step \in [Steps(run) -> StepStatus]
      /\ p.steps \in Nat
  <2>1. run \in Run /\ RunInv(run) /\ ValidDag(p)
    BY RunsElement DEF IInv, TypeOK
  <2> QED
    BY <2>1, RunParts, PlanAssumption
<1>2. ~AllTerminal(run.step)
  BY <1>1 DEF RunInv, StatusMatches
<1>3. PICK q \in Steps(run) : run.step[q] = "queued"
  BY <1>1, <1>2 DEF AllTerminal, Terminal, StepStatus
<1>4. \A s \in Steps(run) : /\ run.step[s] \notin {"skipped", "aborted", "dispatched"}
                            /\ run.step[s] = "failed" => ~AbortOnFail(run, s)
  BY <1>1, <1>3 DEF RunInv, CascadeComplete, NoAbortedWhileOpen
<1>5. PICK s \in Queued : p.deps[s] \cap Queued = {}
  <2>1. Queued \in SUBSET StepsOf(p) /\ Queued # {}
    BY <1>3 DEF Steps
  <2>2. Acyclic(p)
    BY <1>1 DEF ValidDag
  <2> HIDE DEF Queued, p
  <2> QED
    BY <1>1, <2>1, <2>2, AcyclicNoKnot
<1>6. PICK d \in Deps(run, s) : run.step[d] \notin {"success", "skipped"}
  BY <1>5 DEF IsStepReady
<1>7. d \in Steps(run) /\ run.step[d] # "queued"
  <2>1. p.deps[s] \subseteq StepsOf(p)
    BY <1>1, <1>5 DEF ValidDag, DependenciesKnown, Steps
  <2>2. d \in p.deps[s]
    BY <1>6 DEF Deps
  <2> QED
    BY <1>5, <2>1, <2>2 DEF Steps
<1>8. run.step[d] = "failed" /\ ~AbortOnFail(run, d)
  BY <1>1, <1>4, <1>6, <1>7 DEF StepStatus
<1> QED
  BY <1>5, <1>6, <1>8

\* Dispatch never wedges by itself: an open run with nothing ready and nothing
\* in flight waits behind a failure its scenario tolerates.
THEOREM PlannerStuck == SafetySpec => []StuckOnlyBehindToleratedFailure
<1>1. IInv => StuckOnlyBehindToleratedFailure
  BY StuckFromIInv
<1> QED
  BY <1>1, PlannerInvariant, PTL
=============================================================================
