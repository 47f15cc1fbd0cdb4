---------------------------- MODULE LocalRunner ----------------------------
(***************************************************************************)
(* run-local (agent/main.py): a scenario is executed on this host, without   *)
(* an orchestrator, in an order its DAG allows.  The loop works in passes:   *)
(* every step whose dependencies have been executed by the beginning of the  *)
(* pass is executed in it, in the order of the file.                        *)
(***************************************************************************)
EXTENDS ScenarioDag, Sequences

CONSTANTS
    Plans,      \* the scenarios the file may hold
    NoPlan      \* none is loaded

ASSUME PlansAssumption == \A p \in Plans : p.steps \in Nat

VARIABLES
    plan,       \* the scenario
    phase,      \* how far run_local is
    remaining,  \* the steps not yet executed
    ready,      \* the steps of this pass not yet reached
    results,    \* the outcome of each step executed, in the order of execution
    aborted     \* history: the runner said [ABORT]

localVars == <<plan, phase, remaining, ready, results, aborted>>

Phase == {"start", "loaded", "running", "done", "refused", "rejected", "deadlock", "crashed"}

\* The steps in completed, a Python set: executed, with whatever outcome.
Completed == {results[i].step : i \in DOMAIN results}

-----------------------------------------------------------------------------
\* The whitelist and killswitch checks refuse, or the file is read.
Load ==
    /\ phase = "start"
    /\ \/ phase' = "refused" /\ UNCHANGED plan
       \/ phase' = "loaded" /\ plan' \in Plans
    /\ UNCHANGED <<remaining, ready, results, aborted>>

\* validate_dag; then the steps.  Their ids are their places in the file, so
\* the order of the lists is that of the ids.
Validate ==
    /\ phase = "loaded"
    /\ phase' = IF ValidDag(plan) THEN "running" ELSE "rejected"
    /\ remaining' = StepsOf(plan)
    /\ UNCHANGED <<plan, ready, results, aborted>>

\* A mutation of NextPass: a pass takes all that is left.
NextPassAll ==
    /\ phase = "running" /\ ready = {} /\ remaining # {}
    /\ ready' = remaining
    /\ UNCHANGED <<plan, phase, remaining, results, aborted>>

\* The head of the while loop; a pass without a step to execute is an error.
NextPass ==
    /\ phase = "running" /\ ready = {} /\ remaining # {}
    /\ ready' = {s \in remaining : plan.deps[s] \subseteq Completed}
    /\ phase' = IF ready' = {} THEN "deadlock" ELSE "running"
    /\ UNCHANGED <<plan, remaining, results, aborted>>

\* One step: its TTP is not registered (which is no failure to the loop), or
\* is run.  A failure with abort_on_fail leaves the for loop; the while loop
\* goes on.
ExecuteStep(outcome) ==
    /\ phase = "running"
    /\ \E s \in ready :
          /\ \A t \in ready : s <= t
          /\ results' = Append(results, [step |-> s, outcome |-> outcome])
          /\ remaining' = remaining \ {s}
          /\ IF outcome = "fail" /\ s \in plan.abortOnFail
             THEN ready' = {} /\ aborted' = TRUE
             ELSE ready' = ready \ {s} /\ UNCHANGED aborted
    /\ UNCHANGED <<plan, phase>>

\* ttp.run raises: nothing catches it.
StepRaises ==
    /\ phase = "running" /\ ready # {}
    /\ phase' = "crashed"
    /\ UNCHANGED <<plan, remaining, ready, results, aborted>>

\* The loop is over.
Finish ==
    /\ phase = "running" /\ ready = {} /\ remaining = {}
    /\ phase' = "done"
    /\ UNCHANGED <<plan, remaining, ready, results, aborted>>

-----------------------------------------------------------------------------
LocalInit ==
    /\ plan = NoPlan /\ phase = "start"
    /\ remaining = {} /\ ready = {} /\ results = << >>
    /\ aborted = FALSE

LocalNext ==
    \/ Load \/ Validate \/ NextPass \/ StepRaises \/ Finish
    \/ \E outcome \in {"ok", "fail", "skip"} : ExecuteStep(outcome)

-----------------------------------------------------------------------------
(* Properties. *)

\* "Confirm depends_on references exist and graph is acyclic": a scenario is
\* rejected just when a step depends on one that does not exist, or on itself
\* through whatever chain.
RejectedIffIllFormed ==
    phase \notin {"start", "loaded", "refused"} =>
        (phase = "rejected") =
            \/ \E s \in StepsOf(plan) : ~(plan.deps[s] \subseteq StepsOf(plan))
            \/ \E s \in StepsOf(plan) : s \in DependsOn(plan)[s]

\* A scenario that was accepted never ends in "DAG deadlock", each step is
\* executed at most once and behind all it depends on, at any distance; when
\* the runner is done every step has been executed.
ExecutedInDagOrder ==
    /\ phase # "deadlock"
    /\ \A i \in DOMAIN results :
          /\ \A j \in DOMAIN results : results[i].step = results[j].step => i = j
          /\ DependsOn(plan)[results[i].step] \subseteq {results[j].step : j \in 1 .. i - 1}
    /\ phase = "done" => Completed = StepsOf(plan)

\* "[ABORT] Step ... failed with abort_on_fail=true. Stopping.": no step is
\* executed after that.
AbortStopsTheRun == [][aborted => results' = results]_localVars
=============================================================================
