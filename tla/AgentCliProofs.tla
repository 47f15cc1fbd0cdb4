---------------------------- MODULE AgentCliProofs ----------------------------
(***************************************************************************)
(* What AgentCli promises, for any number of failures the beacon tolerates  *)
(* and for any scenarios run-local is given.                                *)
(***************************************************************************)
EXTENDS AgentCli, ScenarioDagProofs, SequenceTheorems

\* Where the loop is, the beacon can only be with what it has: a task in hand
\* while it executes and reports, failures below the limit while it runs.  A
\* late TTP is the last before the loop comes to the top, where the stop is
\* seen: until then the loop cannot ask for another.
BeaconIInv ==
    /\ BeaconTypeOK
    /\ at # "exited" => failures < MaxFailures
    /\ at \in {"execute", "report"} => task \in Task
    /\ late <= 1
    /\ late = 1 =>
          /\ stopFlag \/ expired
          /\ at \in {"report", "sleep", "poll", "exited"}

\* The progress of run-local through a scenario that validate_dag accepted:
\* what is executed and what remains divide its steps, the pass in hand is of
\* steps whose dependencies are executed, and each result is behind those of
\* the steps its step names.
InProgress ==
    /\ ValidDag(plan)
    /\ results \in Seq([step : StepsOf(plan), outcome : {"ok", "fail", "skip"}])
    /\ remaining = StepsOf(plan) \ Completed
    /\ ready \subseteq remaining
    /\ \A s \in ready : plan.deps[s] \subseteq Completed
    /\ \A i \in DOMAIN results :
          /\ \A j \in DOMAIN results : results[i].step = results[j].step => i = j
          /\ plan.deps[results[i].step] \subseteq {results[j].step : j \in 1 .. i - 1}

LocalIInv ==
    /\ phase \in {"start", "refused", "loaded", "rejected", "running", "done", "crashed"}
    /\ phase \notin {"start", "refused"} => plan \in Plans
    /\ phase = "rejected" => ~ValidDag(plan)
    /\ phase \in {"running", "done", "crashed"} => InProgress
    /\ phase \notin {"running", "done", "crashed"} => results = << >> /\ ready = {}
    /\ phase = "done" => remaining = {}

CliIInv == BeaconIInv /\ LocalIInv

-----------------------------------------------------------------------------
(* The beacon. *)

LEMMA BeaconInitially == BeaconInit => BeaconIInv
<1> SUFFICES ASSUME BeaconInit PROVE BeaconIInv
  OBVIOUS
<1>1. {up, stopFlag, expired, key} \subseteq BOOLEAN
  BY DEF BeaconInit
<1>2. MaxFailures \in Nat \ {0}
  BY MaxFailuresAssumption
<1>3. at \in LoopState /\ task \in Task \cup {NoTask}
  BY DEF BeaconInit, LoopState
<1>4. failures \in 0 .. MaxFailures /\ late \in Nat /\ failures < MaxFailures /\ late <= 1
  BY <1>2 DEF BeaconInit
<1>5. late # 1 /\ at \notin {"execute", "report"}
  BY DEF BeaconInit
<1> QED
  BY <1>1, <1>3, <1>4, <1>5 DEF BeaconIInv, BeaconTypeOK

\* The count of late TTPs, after an execution.
LEMMA LateExecution ==
    ASSUME BeaconIInv, at = "execute", Late
    PROVE  /\ late' \in Nat /\ late' <= 1
           /\ late' = 1 => stopFlag \/ expired
<1>1. late = 0
  BY DEF BeaconIInv, BeaconTypeOK
<1>2. CASE RunsTTP(task) /\ (stopFlag \/ expired)
  BY <1>1, <1>2 DEF Late
<1>3. CASE ~(RunsTTP(task) /\ (stopFlag \/ expired))
  BY <1>1, <1>3 DEF Late
<1> QED
  BY <1>2, <1>3

\* The flags keep their type and, once raised, stay raised.
LEMMA FlagsStep ==
    ASSUME {up, stopFlag, expired, key} \subseteq BOOLEAN, BeaconNext
    PROVE  /\ {up, stopFlag, expired, key}' \subseteq BOOLEAN
           /\ stopFlag \/ expired => stopFlag' \/ expired'
<1> USE DEF BeaconNext, Agent
<1>1. CASE Agent
  <2>1. UNCHANGED <<up, stopFlag, expired>> /\ (UNCHANGED key \/ key' \in BOOLEAN)
    BY Zenon, <1>1 DEF Startup, Register, CheckStop, RoundFails, ToldToStop, ToldIdle,
                GivenTask, ExecuteTask, Report, Sleep
  <2>2. key' \in BOOLEAN
    BY <2>1
  <2> QED
    BY Zenon, <2>1, <2>2
<1>2. CASE RaiseStop
  BY <1>2 DEF RaiseStop
<1>3. CASE Expire
  BY <1>3 DEF Expire
<1>4. CASE NetworkChanges
  BY <1>4 DEF NetworkChanges
<1> QED
  BY <1>1, <1>2, <1>3, <1>4

LEMMA BeaconStep == BeaconIInv /\ BeaconNext => BeaconIInv'
<1> SUFFICES ASSUME BeaconIInv, BeaconNext PROVE BeaconIInv'
  OBVIOUS
<1>1. /\ {up, stopFlag, expired, key}' \subseteq BOOLEAN
      /\ stopFlag \/ expired => stopFlag' \/ expired'
  BY FlagsStep DEF BeaconIInv, BeaconTypeOK
<1>2. /\ MaxFailures \in Nat \ {0}
      /\ at \in LoopState /\ task \in Task \cup {NoTask}
      /\ failures \in 0 .. MaxFailures /\ late \in Nat
      /\ at # "exited" => failures < MaxFailures
      /\ at \in {"execute", "report"} => task \in Task
      /\ late <= 1
  BY MaxFailuresAssumption DEF BeaconIInv, BeaconTypeOK
<1>3. late = 1 => (stopFlag \/ expired) /\ at \in {"report", "sleep", "poll", "exited"}
  BY Zenon DEF BeaconIInv
<1> DEFINE
      Rest == /\ at' \in LoopState /\ task' \in Task \cup {NoTask}
              /\ failures' \in 0 .. MaxFailures /\ late' \in Nat
              /\ at' # "exited" => failures' < MaxFailures
              /\ at' \in {"execute", "report"} => task' \in Task
              /\ late' <= 1
      LateRest == late' = 1 => stopFlag \/ expired
      LateAt == late' = 1 => at' \in {"report", "sleep", "poll", "exited"}
<1> SUFFICES Rest /\ LateRest /\ LateAt
  <2>1. ASSUME LateRest PROVE late' = 1 => stopFlag' \/ expired'
    BY Zenon, <1>1, <2>1
  <2> QED
    BY <1>1, <2>1 DEF BeaconIInv, BeaconTypeOK
<1>4. CASE Startup
  BY <1>2, <1>3, <1>4 DEF Startup, LoopState
<1>5. CASE Register
  BY <1>2, <1>3, <1>5 DEF Register, LoopState
<1>6. CASE CheckStop
  BY <1>2, <1>3, <1>6 DEF CheckStop, LoopState
<1>7. CASE RoundFails
  <2>1. late' \in Nat /\ late' <= 1 /\ LateRest
    <3>1. CASE at = "execute"
      BY <1>7, <3>1, LateExecution DEF RoundFails
    <3>2. CASE at # "execute"
      BY <1>2, <1>3, <1>7, <3>2 DEF RoundFails
    <3> QED
      BY <3>1, <3>2
  <2>2. /\ failures' = failures + 1 /\ failures < MaxFailures /\ task' = NoTask
        /\ at' = IF failures' >= MaxFailures THEN "exited" ELSE "sleep"
    BY <1>2, <1>7 DEF RoundFails
  <2>3. failures' \in 0 .. MaxFailures /\ (failures' >= MaxFailures \/ failures' < MaxFailures)
    BY <1>2, <2>2
  <2>4. at' \in {"exited", "sleep"} /\ (at' # "exited" => failures' < MaxFailures)
    BY <2>2, <2>3
  <2> QED
    BY <2>1, <2>2, <2>3, <2>4 DEF LoopState
<1>8. CASE ToldToStop
  BY <1>2, <1>3, <1>8 DEF ToldToStop, LoopState
<1>9. CASE ToldIdle
  BY <1>2, <1>3, <1>9 DEF ToldIdle, LoopState
<1>10. CASE GivenTask
  BY <1>2, <1>3, <1>10 DEF GivenTask, LoopState
<1>11. CASE ExecuteTask
  <2>1. late' \in Nat /\ late' <= 1 /\ LateRest
    BY <1>11, LateExecution DEF ExecuteTask
  <2> QED
    BY <1>2, <1>11, <2>1 DEF ExecuteTask, LoopState
<1>12. CASE Report
  BY <1>2, <1>3, <1>12 DEF Report, LoopState
<1>13. CASE Sleep
  BY <1>2, <1>3, <1>13 DEF Sleep, LoopState
<1>14. CASE RaiseStop \/ Expire \/ NetworkChanges
  <2>1. UNCHANGED <<at, task, failures, late>>
    BY <1>14 DEF RaiseStop, Expire, NetworkChanges
  <2> QED
    BY <1>2, <1>3, <2>1
<1> QED
  BY <1>4, <1>5, <1>6, <1>7, <1>8, <1>9, <1>10, <1>11, <1>12, <1>13, <1>14
     DEF BeaconNext, Agent

-----------------------------------------------------------------------------
(* run-local. *)

LEMMA LocalInitially == LocalInit => LocalIInv
  BY DEF LocalInit, LocalIInv

\* A pass over a scenario that was accepted has a step to execute: else each
\* of the remaining steps would wait for another of them.
LEMMA PassHasStep ==
    ASSUME plan.steps \in Nat, ValidDag(plan), remaining = StepsOf(plan) \ Completed,
           remaining # {}
    PROVE  \E s \in remaining : plan.deps[s] \subseteq Completed
<1> SUFFICES ASSUME \A s \in remaining : ~(plan.deps[s] \subseteq Completed) PROVE FALSE
  OBVIOUS
<1>1. ASSUME NEW s \in remaining PROVE plan.deps[s] \cap remaining # {}
  <2>1. PICK d \in plan.deps[s] : d \notin Completed
    OBVIOUS
  <2>2. d \in StepsOf(plan)
    BY <1>1, <2>1 DEF ValidDag, DependenciesKnown
  <2> QED
    BY <2>1, <2>2
<1>2. remaining \in SUBSET StepsOf(plan) /\ Acyclic(plan)
  BY DEF ValidDag
<1> QED
  BY <1>1, <1>2, AcyclicNoKnot

\* Only steps of the scenario are executed.
LEMMA ExecutedAreSteps ==
    InProgress => \A i \in DOMAIN results : results[i].step \in StepsOf(plan)
<1> SUFFICES ASSUME InProgress, NEW i \in DOMAIN results
             PROVE  results[i].step \in StepsOf(plan)
  OBVIOUS
<1> DEFINE Result == [step : StepsOf(plan), outcome : {"ok", "fail", "skip"}]
<1>1. results \in Seq(Result)
  BY DEF InProgress
<1>2. results[i] \in Result
  <2> HIDE DEF Result
  <2>1. i \in 1 .. Len(results)
    BY <1>1, LenProperties
  <2> QED
    BY <1>1, <2>1, ElementOfSeq
<1> QED
  BY <1>2

\* Steps that leave the scenario and its execution alone.
LEMMA ProgressStays ==
    ASSUME InProgress, UNCHANGED <<plan, remaining, ready, results>> PROVE InProgress'
<1>1. UNCHANGED Completed
  BY DEF Completed
<1>2. plan' = plan /\ remaining' = remaining /\ ready' = ready /\ results' = results
  OBVIOUS
<1>3. ValidDag(plan') /\ results' \in Seq([step : StepsOf(plan'), outcome : {"ok", "fail", "skip"}])
  BY <1>2 DEF InProgress
<1>4. /\ remaining' = StepsOf(plan') \ Completed' /\ ready' \subseteq remaining'
      /\ \A s \in ready' : plan'.deps[s] \subseteq Completed'
  BY <1>1, <1>2 DEF InProgress
<1>5. \A i \in DOMAIN results' :
         /\ \A j \in DOMAIN results' : results'[i].step = results'[j].step => i = j
         /\ plan'.deps[results'[i].step] \subseteq {results'[j].step : j \in 1 .. i - 1}
  BY <1>2 DEF InProgress
<1> QED
  BY <1>3, <1>4, <1>5 DEF InProgress

\* A step of the pass in hand is executed.
LEMMA ExecutionProgress ==
    ASSUME InProgress, NEW s \in ready, NEW outcome \in {"ok", "fail", "skip"},
           results' = Append(results, [step |-> s, outcome |-> outcome]),
           remaining' = remaining \ {s}, ready' \subseteq ready \ {s}, UNCHANGED plan
    PROVE  InProgress'
<1> DEFINE n == Len(results)
           r == [step |-> s, outcome |-> outcome]
           Result == [step : StepsOf(plan), outcome : {"ok", "fail", "skip"}]
<1>1. s \in StepsOf(plan) /\ s \notin Completed /\ plan.deps[s] \subseteq Completed
  BY DEF InProgress
<1>2. r \in Result /\ r.step = s
  BY <1>1
<1>3. results \in Seq(Result)
  BY DEF InProgress
<1> HIDE DEF r, Result
<1>4. results' \in Seq(Result) /\ Len(results') = n + 1
  BY <1>2, <1>3, AppendProperties DEF r
<1>5. n \in Nat /\ DOMAIN results = 1 .. n /\ DOMAIN results' = 1 .. n + 1
  BY <1>3, <1>4, LenProperties
<1>6. /\ \A i \in 1 .. n : results'[i] = results[i]
      /\ results'[n + 1] = r
  BY <1>2, <1>3, AppendProperties DEF r
<1> HIDE DEF n
<1>7. Completed' = Completed \cup {s}
  <2>1. \A i \in 1 .. n + 1 : i \in 1 .. n \/ i = n + 1
    BY <1>5
  <2>2. \A i \in 1 .. n : i \in 1 .. n + 1
    BY <1>5
  <2>3. n + 1 \in 1 .. n + 1
    BY <1>5
  <2>4. Completed = {results[i].step : i \in 1 .. n}
    BY <1>5 DEF Completed
  <2>5. Completed' = {results'[i].step : i \in 1 .. n + 1}
    BY <1>5 DEF Completed
  <2>6. \A i \in 1 .. n : results'[i].step = results[i].step
    BY <1>6
  <2>7. results'[n + 1].step = s
    BY <1>2, <1>6
  <2> QED
    BY <2>1, <2>2, <2>3, <2>4, <2>5, <2>6, <2>7
<1>8. \A i \in 1 .. n : results[i].step \in Completed
  BY <1>5 DEF Completed
<1>9. \A i \in 1 .. n : results'[i].step = results[i].step
  BY <1>6
<1>10. results'[n + 1].step = s
  BY <1>2, <1>6
<1>11. \A i \in 1 .. n + 1 : i \in 1 .. n \/ i = n + 1
  BY <1>5
<1>12. ASSUME NEW i \in DOMAIN results', NEW j \in DOMAIN results',
              results'[i].step = results'[j].step
       PROVE  i = j
  <2>1. \A k \in 1 .. n : results'[k].step # s
    BY <1>1, <1>8, <1>9
  <2>2. CASE i \in 1 .. n /\ j \in 1 .. n
    <3>1. results[i].step = results[j].step
      BY <1>9, <1>12, <2>2
    <3> QED
      BY <1>5, <2>2, <3>1 DEF InProgress
  <2>3. CASE i = n + 1 /\ j = n + 1
    BY <2>3
  <2>4. CASE i \in 1 .. n /\ j = n + 1
    BY <1>10, <1>12, <2>1, <2>4
  <2>5. CASE i = n + 1 /\ j \in 1 .. n
    BY <1>10, <1>12, <2>1, <2>5
  <2> QED
    BY <1>5, <1>11, <2>2, <2>3, <2>4, <2>5
<1>13. ASSUME NEW i \in DOMAIN results'
       PROVE  plan.deps[results'[i].step] \subseteq {results'[j].step : j \in 1 .. i - 1}
  <2>1. CASE i \in 1 .. n
    <3>1. \A j \in 1 .. i - 1 : results'[j].step = results[j].step
      <4>1. \A j \in 1 .. i - 1 : j \in 1 .. n
        BY <1>5, <2>1
      <4> QED
        BY <1>9, <4>1
    <3>2. plan.deps[results[i].step] \subseteq {results[j].step : j \in 1 .. i - 1}
      BY <1>5, <2>1 DEF InProgress
    <3>3. results'[i].step = results[i].step
      BY <1>9, <2>1
    <3>4. {results[j].step : j \in 1 .. i - 1} = {results'[j].step : j \in 1 .. i - 1}
      BY <3>1
    <3>5. plan.deps[results'[i].step] = plan.deps[results[i].step]
      BY <3>3
    <3> QED
      BY <3>2, <3>4, <3>5, Zenon
  <2>2. CASE i = n + 1
    <3>1. i - 1 = n
      BY <1>5, <2>2
    <3>2. Completed = {results[j].step : j \in 1 .. n}
      BY <1>5 DEF Completed
    <3>3. Completed = {results'[j].step : j \in 1 .. n}
      BY <1>9, <3>2
    <3> QED
      BY <1>1, <1>10, <2>2, <3>1, <3>3
  <2> QED
    BY <1>5, <1>11, <2>1, <2>2
<1>14. remaining' = StepsOf(plan') \ Completed'
  BY <1>7 DEF InProgress
<1>15. ready' \subseteq remaining'
  BY DEF InProgress
<1>16. \A t \in ready' : plan'.deps[t] \subseteq Completed'
  BY <1>7 DEF InProgress
<1>17. ValidDag(plan')
  BY DEF InProgress
<1>18. results' \in Seq([step : StepsOf(plan'), outcome : {"ok", "fail", "skip"}])
  BY <1>4 DEF Result
<1> QED
  BY <1>12, <1>13, <1>14, <1>15, <1>16, <1>17, <1>18 DEF InProgress

LEMMA LocalStep == LocalIInv /\ LocalNext => LocalIInv'
<1> SUFFICES ASSUME LocalIInv, LocalNext PROVE LocalIInv'
  OBVIOUS
<1>1. CASE Load
  BY <1>1 DEF LocalIInv, Load
<1>2. CASE Validate
  <2>1. plan \in Plans /\ results = << >> /\ ready = {} /\ plan.steps \in Nat
    BY <1>2, PlansAssumption DEF LocalIInv, Validate
  <2>2. CASE ValidDag(plan)
    <3>1. Completed' = {}
      BY <1>2, <2>1 DEF Completed, Validate
    <3>2. InProgress'
      BY <1>2, <2>1, <2>2, <3>1 DEF Validate, InProgress
    <3> QED
      BY <1>2, <2>1, <2>2, <3>2 DEF LocalIInv, Validate
  <2>3. CASE ~ValidDag(plan)
    BY <1>2, <2>1, <2>3 DEF LocalIInv, Validate
  <2> QED
    BY <2>2, <2>3
<1>3. CASE NextPass
  <2>1. plan \in Plans /\ plan.steps \in Nat /\ InProgress
    BY <1>3, PlansAssumption DEF LocalIInv, NextPass
  <2>2. ready' # {}
    BY <1>3, <2>1, PassHasStep DEF InProgress, NextPass
  <2>3. InProgress'
    <3>1. Completed' = Completed
      BY <1>3 DEF Completed, NextPass
    <3> QED
      BY <1>3, <2>1, <3>1 DEF InProgress, NextPass
  <2> QED
    BY <1>3, <2>1, <2>2, <2>3 DEF LocalIInv, NextPass
<1>4. CASE StepRaises
  <2>1. InProgress'
    BY <1>4, ProgressStays DEF LocalIInv, StepRaises
  <2> QED
    BY <1>4, <2>1 DEF LocalIInv, StepRaises
<1>5. CASE Finish
  <2>1. InProgress'
    BY <1>5, ProgressStays DEF LocalIInv, Finish
  <2> QED
    BY <1>5, <2>1 DEF LocalIInv, Finish
<1>6. ASSUME NEW outcome \in {"ok", "fail", "skip"}, ExecuteStep(outcome)
      PROVE  LocalIInv'
  <2>1. PICK s \in ready :
           /\ results' = Append(results, [step |-> s, outcome |-> outcome])
           /\ remaining' = remaining \ {s}
           /\ ready' \subseteq ready \ {s}
    BY <1>6 DEF ExecuteStep
  <2>2. phase = "running" /\ UNCHANGED <<plan, phase>>
    BY <1>6 DEF ExecuteStep
  <2>3. InProgress'
    BY <2>1, <2>2, ExecutionProgress DEF LocalIInv
  <2> QED
    BY <2>2, <2>3 DEF LocalIInv
<1> QED
  BY <1>1, <1>2, <1>3, <1>4, <1>5, <1>6 DEF LocalNext

-----------------------------------------------------------------------------
(* The command line. *)

LEMMA CliInitially == CliInit => CliIInv
  BY BeaconInitially, LocalInitially DEF CliInit, CliIInv

LEMMA CliStep == CliIInv /\ [CliNext]_cliVars => CliIInv'
<1> SUFFICES ASSUME CliIInv, [CliNext]_cliVars PROVE CliIInv'
  OBVIOUS
<1>1. ASSUME UNCHANGED beaconVars PROVE BeaconIInv'
  <2>1. BeaconIInv
    BY DEF CliIInv
  <2>2. /\ up' = up /\ stopFlag' = stopFlag /\ expired' = expired /\ key' = key
        /\ at' = at /\ task' = task /\ failures' = failures /\ late' = late
    BY <1>1 DEF beaconVars
  <2> QED
    BY Zenon, <2>1, <2>2 DEF BeaconIInv, BeaconTypeOK
<1>2. ASSUME UNCHANGED localVars PROVE LocalIInv'
  <2>1. LocalIInv /\ UNCHANGED <<plan, phase, remaining, ready, results>>
    BY <1>2 DEF CliIInv, localVars
  <2>2. InProgress => InProgress'
    BY <2>1, ProgressStays
  <2> QED
    BY <2>1, <2>2 DEF LocalIInv
<1>3. CASE BeaconNext /\ UNCHANGED localVars
  BY <1>2, <1>3, BeaconStep DEF CliIInv
<1>4. CASE LocalNext /\ UNCHANGED beaconVars
  BY <1>1, <1>4, LocalStep DEF CliIInv
<1>5. CASE UNCHANGED cliVars
  BY <1>1, <1>2, <1>5 DEF CliIInv, cliVars
<1> QED
  BY <1>3, <1>4, <1>5 DEF CliNext

\* The inductive invariant of both commands.
THEOREM CliInvariant == CliSpec => []CliIInv
<1>1. CliInit => CliIInv
  BY CliInitially
<1>2. CliIInv /\ [CliNext]_cliVars => CliIInv'
  BY CliStep
<1> QED
  BY <1>1, <1>2, PTL DEF CliSpec

\* The beacon's variables have their types: in particular no more failures are
\* counted than it gives up at.
THEOREM BeaconTypeCorrect == CliSpec => []BeaconTypeOK
<1>1. CliIInv => BeaconTypeOK
  BY DEF CliIInv, BeaconIInv
<1> QED
  BY <1>1, CliInvariant, PTL

\* Whatever the orchestrator answers and however long a TTP takes, an agent
\* runs at most one TTP after its stop flag is raised or its TTL has run out.
THEOREM AtMostOneTaskIsLate == CliSpec => []AtMostOneLateTask
<1>1. CliIInv => AtMostOneLateTask
  BY DEF CliIInv, BeaconIInv, AtMostOneLateTask
<1> QED
  BY <1>1, CliInvariant, PTL

\* run-local rejects a scenario just when a step of it names one that does not
\* exist, or depends on itself through whatever chain.
THEOREM RejectedAsIllFormed == CliSpec => []RejectedIffIllFormed
<1>1. CliIInv => RejectedIffIllFormed
  <2> SUFFICES ASSUME LocalIInv, phase \notin {"start", "loaded", "refused"}
               PROVE  (phase = "rejected") =
                         \/ \E s \in StepsOf(plan) : ~(plan.deps[s] \subseteq StepsOf(plan))
                         \/ \E s \in StepsOf(plan) : s \in DependsOn(plan)[s]
    BY DEF CliIInv, RejectedIffIllFormed
  <2>1. plan.steps \in Nat
    BY PlansAssumption DEF LocalIInv
  <2>2. (phase = "rejected") <=> ~ValidDag(plan)
    BY DEF LocalIInv, InProgress
  <2>3. ValidDag(plan) <=>
           /\ \A s \in StepsOf(plan) : plan.deps[s] \subseteq StepsOf(plan)
           /\ \A s \in StepsOf(plan) : s \notin DependsOn(plan)[s]
    BY <2>1, ValidateDagIsRight DEF ValidDag, DependenciesKnown
  <2> QED
    BY Zenon, <2>2, <2>3
<1> QED
  BY <1>1, CliInvariant, PTL

\* run-local never ends in its "DAG deadlock", executes each step at most once
\* and behind all that it depends on, directly or through others, and is done
\* only when every step has been executed.
THEOREM LocalRunIsInDagOrder == CliSpec => []ExecutedInDagOrder
<1>1. CliIInv => ExecutedInDagOrder
  <2> SUFFICES ASSUME LocalIInv PROVE ExecutedInDagOrder
    BY DEF CliIInv
  <2>1. CASE phase \in {"running", "done", "crashed"}
    <3>1. InProgress
      BY <2>1 DEF LocalIInv
    <3>2. ASSUME NEW i \in DOMAIN results
          PROVE  DependsOn(plan)[results[i].step] \subseteq {results[j].step : j \in 1 .. i - 1}
      <4> DEFINE n == Len(results)
                 T == {results[j].step : j \in 1 .. i - 1}
      <4>1. n \in Nat /\ DOMAIN results = 1 .. n
        BY <3>1, LenProperties DEF InProgress
      <4>2. \A j \in DOMAIN results : results[j].step \in StepsOf(plan)
        BY <3>1, ExecutedAreSteps
      <4> HIDE DEF n
      <4>3. \A j \in 1 .. i - 1 : j \in DOMAIN results
        BY <3>2, <4>1
      <4>4. T \in SUBSET StepsOf(plan)
        BY <4>2, <4>3
      <4>5. Named(plan, results[i].step) \subseteq T
        BY <3>1, <3>2 DEF InProgress, Named
      <4>6. Closed(plan, T)
        <5> SUFFICES ASSUME NEW t \in T PROVE Named(plan, t) \subseteq T
          BY DEF Closed
        <5>1. PICK j \in 1 .. i - 1 : t = results[j].step
          OBVIOUS
        <5>2. plan.deps[t] \subseteq {results[k].step : k \in 1 .. j - 1}
          BY <3>1, <4>3, <5>1 DEF InProgress
        <5>3. \A k \in 1 .. j - 1 : k \in 1 .. i - 1
          BY <4>1, <5>1
        <5> QED
          BY <5>2, <5>3 DEF Named
      <4> HIDE DEF T
      <4>7. DependsOn(plan)[results[i].step] \subseteq T
        BY <3>2, <4>2, <4>4, <4>5, <4>6, DependsOnLeast
      <4> QED
        BY <4>7 DEF T
    <3>3. phase = "done" => Completed = StepsOf(plan)
      <4>1. Completed \subseteq StepsOf(plan)
        <5>1. \A j \in DOMAIN results : results[j].step \in StepsOf(plan)
          BY <3>1, ExecutedAreSteps
        <5> QED
          BY <5>1 DEF Completed
      <4> QED
        BY <3>1, <4>1 DEF InProgress, LocalIInv
    <3>4. phase # "deadlock"
      BY <2>1
    <3> QED
      BY <3>1, <3>2, <3>3, <3>4 DEF ExecutedInDagOrder, InProgress
  <2>2. CASE phase \notin {"running", "done", "crashed"}
    <3>1. results = << >> /\ phase # "deadlock" /\ phase # "done"
      BY <2>2 DEF LocalIInv
    <3>2. DOMAIN results = {}
      BY <3>1
    <3> QED
      BY <3>1, <3>2 DEF ExecutedInDagOrder
  <2> QED
    BY <2>1, <2>2
<1> QED
  BY <1>1, CliInvariant, PTL
=============================================================================
