--------------------------- MODULE LabToolsProofs ---------------------------
(***************************************************************************)
(* Theorems about the tools of the laboratory.  A step of LabSpec is a step *)
(* of one tool, the others standing still, so that each of them has its own *)
(* inductive invariant.                                                     *)
(***************************************************************************)
EXTENDS LabTools, PlannerProofs

-----------------------------------------------------------------------------
(* The multi-agent smoke: its inductive invariant, over the planner's. *)

\* What the request knows of its run and of the agents it plays: only the one
\* whose turn it is holds a task, and only between the dispatch and the report.
SmokeStages == {"idle", "asks", "holds", "marked", "answers", "done"}
SmokeRecord ==
    [at : SmokeStages, run : Nat, played : 0 .. 3, won : SUBSET Agents, ok : BOOLEAN]
Playing == smoke.at \in {"holds", "marked"}

SmokeShape ==
    /\ smoke \in SmokeRecord
    /\ smoke.at = "idle" => smoke.run = 0 /\ smoke.played = 0 /\ smoke.won = {} /\ smoke.ok = FALSE
    /\ smoke.at # "idle" => smoke.run \in DOMAIN runs /\ runs[smoke.run].scenario = SmokeRun
    /\ smoke.at = "idle" => smoke = NoSmoke
    /\ Playing => smoke.played < 3 /\ held[Player] # NoTask
    /\ \A i \in 1 .. 3 : held[LabAgents[i]] # NoTask => Playing /\ i = smoke.played + 1
    /\ acts \in 0 .. MaxMeddling

\* Nothing of a run of the smoke is skipped or aborted.
Sound(run) == \A s \in Steps(run) : run.step[s] \notin {"skipped", "aborted"}

\* While nobody has called abort_all, and what the answer says.
SmokeSound ==
    /\ smoke.at # "idle" /\ ~cleared => Sound(runs[smoke.run])
    /\ smoke.at = "done" /\ smoke.ok => runs[smoke.run].status = "completed"

\* The step that agent n of the smoke works on, as the planner and the store
\* have it when nobody meddles: the agents take the steps in their order.
StepWhenAlone(s) ==
    IF s <= smoke.played THEN "success"
    ELSE IF s = smoke.played + 1 /\ Playing THEN "dispatched" ELSE "queued"
KeptWhenAlone(s) ==
    IF s <= smoke.played THEN "success"
    ELSE IF s = smoke.played + 1 /\ smoke.at = "marked" THEN "dispatched" ELSE "queued"

Alone ==
    /\ \A r \in DOMAIN runs : r # smoke.run => runs[r].status # "running"
    /\ runs[smoke.run].status = IF smoke.played = 3 THEN "completed" ELSE "running"
    /\ \A s \in 1 .. 3 : runs[smoke.run].step[s] = StepWhenAlone(s)
    /\ Playing => held[Player] = <<smoke.run, smoke.played + 1>>
    /\ smoke.won = {LabAgents[i] : i \in 1 .. smoke.played}
    /\ smoke.at \in {"answers", "done"} => smoke.played = 3
    /\ kept = [status |-> IF smoke.at \in {"answers", "done"} THEN "completed" ELSE "running",
               step |-> [s \in 1 .. 3 |-> KeptWhenAlone(s)]]
    /\ smoke.at = "done" => smoke.ok

SmokeUndisturbed == smoke.at # "idle" /\ ~meddled => Alone

SmokeIInv == IInv /\ SmokeShape /\ SmokeSound /\ SmokeUndisturbed

-----------------------------------------------------------------------------
(* The agents and the steps of the smoke. *)

LEMMA LabAgent ==
    ASSUME NEW i \in 1 .. 3
    PROVE  LabAgents[i] \in Agents /\ LabAgents[i] \notin RealAgents
BY SmokeAgents, ElementOfSeq

LEMMA SmokeSteps ==
    ASSUME NEW run, run.scenario = SmokeRun
    PROVE  /\ Steps(run) = 1 .. 3
           /\ \A s \in 1 .. 3 : Deps(run, s) = {} /\ ~AbortOnFail(run, s)
           /\ \A i \in 1 .. 3 : Serves(LabAgents[i], run)
<1>1. Plan[run.scenario] = SmokePlan
  BY SmokePlanned
<1>2. SmokePlan.deps = <<{}, {}, {}>> /\ SmokePlan.steps = 3 /\ SmokePlan.abortOnFail = {}
  BY DEF SmokePlan
<1>3. \A s \in 1 .. 3 : <<{}, {}, {}>>[s] = {}
  OBVIOUS
<1>4. \A i \in 1 .. 3 : Serves(LabAgents[i], run)
  BY <1>1, SmokeAgents DEF Serves
<1> QED
  BY <1>1, <1>2, <1>3, <1>4 DEF Steps, StepsOf, Deps, AbortOnFail

LEMMA PlayerIsLabAgent ==
    ASSUME SmokeShape, smoke.played < 3
    PROVE  /\ smoke.played + 1 \in 1 .. 3 /\ Player = LabAgents[smoke.played + 1]
           /\ Player \in Agents
<1>1. smoke.played \in 0 .. 3
  BY DEF SmokeShape, SmokeRecord
<1>2. smoke.played + 1 \in 1 .. 3
  BY <1>1
<1> QED
  BY <1>2, LabAgent DEF Player

\* Whatever the smoke and the others do to the planner, it is a step of the
\* planner.
LEMMA SmokeIsPlannerStep ==
    ASSUME SmokeShape, SmokeNext
    PROVE  [Next]_vars
<1>1. CASE SmokeStarts
  BY <1>1, SmokePlanned DEF SmokeStarts, Next
<1>2. CASE SmokeAsks
  <2>1. Player \in Agents
    BY <1>2, PlayerIsLabAgent, SmokeAgents DEF SmokeAsks
  <2>2. NextTaskForAgent(Player) \/ UNCHANGED vars
    BY <1>2 DEF SmokeAsks
  <2> QED
    BY <2>1, <2>2 DEF Next
<1>3. CASE SmokeReports
  <2>1. Player \in Agents
    BY <1>3, PlayerIsLabAgent DEF SmokeReports, SmokeShape, Playing
  <2>2. ReportResult(Player, TRUE)
    BY <1>3 DEF SmokeReports
  <2> QED
    BY <2>1, <2>2 DEF Next
<1>4. CASE SmokeMarks \/ SmokeFinishes \/ SmokeAnswers
  BY <1>4 DEF SmokeMarks, SmokeFinishes, SmokeAnswers
<1>5. CASE OthersAct
  BY <1>5, SmokeAgents DEF OthersAct, Next
<1> QED
  BY <1>1, <1>2, <1>3, <1>4, <1>5 DEF SmokeNext

-----------------------------------------------------------------------------
(* What becomes of a run of the smoke. *)

\* No run goes away, and only abort_all aborts or skips a step of the smoke.
KeepsRuns ==
    \A r \in DOMAIN runs : r \in DOMAIN runs' /\ runs'[r].scenario = runs[r].scenario
KeepsSound ==
    \A r \in DOMAIN runs :
        runs[r].scenario = SmokeRun /\ Sound(runs[r]) => Sound(runs'[r])

LEMMA StartRunKeeps ==
    ASSUME IInv, NEW sc \in Scenarios, StartRun(sc)
    PROVE  /\ KeepsRuns /\ KeepsSound
           /\ Len(runs) + 1 \in DOMAIN runs' /\ runs'[Len(runs) + 1] = NewRun(sc)
           /\ DOMAIN runs' = DOMAIN runs \cup {Len(runs) + 1}
           /\ \A r \in DOMAIN runs : runs'[r] = runs[r] /\ r # Len(runs) + 1
<1>1. /\ runs \in Seq(Run) /\ Len(runs) \in Nat /\ DOMAIN runs = 1 .. Len(runs)
      /\ NewRun(sc) \in Run
  BY RunsElement, NewRunInv DEF IInv, TypeOK
<1>2. /\ runs' \in Seq(Run) /\ Len(runs') = Len(runs) + 1
      /\ \A r \in 1 .. Len(runs) : runs'[r] = runs[r]
      /\ runs'[Len(runs) + 1] = NewRun(sc)
  BY <1>1, AppendProperties DEF StartRun
<1>3. DOMAIN runs' = 1 .. Len(runs) + 1
  BY <1>2, LenProperties
<1> QED
  BY <1>1, <1>2, <1>3 DEF KeepsRuns, KeepsSound

LEMMA PauseRunsKeeps ==
    ASSUME IInv, NEW ids \in SUBSET DOMAIN runs, PauseRuns(ids) \/ ResumeRuns(ids)
    PROVE  KeepsRuns /\ KeepsSound
<1>1. DOMAIN runs' = DOMAIN runs
  BY DEF PauseRuns, ResumeRuns
<1>2. ASSUME NEW r \in DOMAIN runs
      PROVE  runs'[r].scenario = runs[r].scenario /\ runs'[r].step = runs[r].step
  <2>1. runs[r] \in Run
    BY RunsElement DEF IInv, TypeOK
  <2>2. CASE runs'[r] = runs[r]
    BY <2>2
  <2>3. CASE runs'[r] = [runs[r] EXCEPT !.status = "running"]
    BY <2>1, <2>3, PausedChanges
  <2>4. CASE runs'[r] = [runs[r] EXCEPT !.status = "paused"]
    BY <2>1, <2>4, PausedChanges
  <2> QED
    BY <2>2, <2>3, <2>4 DEF PauseRuns, ResumeRuns
<1> QED
  BY <1>1, <1>2 DEF KeepsRuns, KeepsSound, Sound, Steps

LEMMA RetryKeeps ==
    ASSUME IInv, NEW q \in DOMAIN runs, RetryFailedSteps(q)
    PROVE  KeepsRuns /\ KeepsSound
<1>1. runs' = [runs EXCEPT ![q] = Retried(runs[q])]
  BY DEF RetryFailedSteps
<1>2. runs[q] \in Run /\ RunInv(runs[q]) /\ Retryable(runs[q]) # {}
  BY RunsElement DEF IInv, TypeOK, RetryFailedSteps
<1>3. Retried(runs[q]).scenario = runs[q].scenario
  BY <1>2, RetriedInv
<1>4. Sound(Retried(runs[q]))
  BY <1>2, <1>3, RetriedChanges DEF Sound, Steps, Retryable
<1>5. \A r \in DOMAIN runs : runs'[r] = IF r = q THEN Retried(runs[q]) ELSE runs[r]
  BY <1>1
<1> QED
  BY <1>1, <1>3, <1>4, <1>5 DEF KeepsRuns, KeepsSound

LEMMA ReportKeeps ==
    ASSUME IInv, NEW a \in Agents, NEW ok \in BOOLEAN, ReportResult(a, ok)
    PROVE  KeepsRuns /\ KeepsSound
<1>1. PICK q, s : q = held[a][1] /\ s = held[a][2]
  OBVIOUS
<1>2. /\ runs' = [runs EXCEPT ![q] = Reported(runs[q], s, ok)]
      /\ q \in DOMAIN runs /\ s \in Steps(runs[q])
  BY <1>1 DEF ReportResult, IInv, TypeOK
<1>3. runs[q] \in Run /\ RunInv(runs[q])
  BY <1>2, RunsElement DEF IInv, TypeOK
<1>4. /\ Reported(runs[q], s, ok).scenario = runs[q].scenario
      /\ Reported(runs[q], s, ok).step = AfterResult(runs[q], s, ok)
  BY <1>2, <1>3, ReportedChanges
<1>5. ASSUME runs[q].scenario = SmokeRun, Sound(runs[q])
      PROVE  Sound(Reported(runs[q], s, ok))
  <2>1. \A i \in Steps(runs[q]) : AfterResult(runs[q], s, ok)[i] \notin {"skipped", "aborted"}
    BY <1>2, <1>3, <1>5, AfterResultSteps, SmokeSteps DEF Sound
  <2> QED
    BY <1>4, <2>1 DEF Sound, Steps
<1>6. \A r \in DOMAIN runs : runs'[r] = IF r = q THEN Reported(runs[q], s, ok) ELSE runs[r]
  BY <1>2
<1> QED
  BY <1>2, <1>4, <1>5, <1>6 DEF KeepsRuns, KeepsSound

LEMMA NextTaskKeeps ==
    ASSUME IInv, NEW a \in Agents, NextTaskForAgent(a)
    PROVE  /\ KeepsRuns /\ KeepsSound
           /\ held[a] = NoTask /\ held'[a] # NoTask
           /\ \A b \in Agents \ {a} : held'[b] = held[b]
<1>1. PICK q \in DOMAIN runs : \E s \in ReadyFor(a, q) :
        /\ runs' = [runs EXCEPT ![q] = Dispatched(@, s, a)]
        /\ held' = [held EXCEPT ![a] = <<q, s>>]
  BY DEF NextTaskForAgent
<1>2. PICK s \in ReadyFor(a, q) :
        /\ runs' = [runs EXCEPT ![q] = Dispatched(runs[q], s, a)]
        /\ held' = [held EXCEPT ![a] = <<q, s>>]
  BY <1>1
<1>3. /\ runs[q] \in Run /\ DOMAIN runs \subseteq Nat
      /\ held \in [Agents -> Task \cup {NoTask}]
  BY RunsElement DEF IInv, TypeOK
<1>4. s \in Steps(runs[q]) /\ held[a] = NoTask
  BY DEF ReadyFor, NextTaskForAgent
<1>5. /\ Dispatched(runs[q], s, a).scenario = runs[q].scenario
      /\ Dispatched(runs[q], s, a).step[s] = "dispatched"
      /\ \A i \in Steps(runs[q]) \ {s} : Dispatched(runs[q], s, a).step[i] = runs[q].step[i]
  BY <1>3, <1>4, DispatchedChanges
<1>6. Sound(runs[q]) => Sound(Dispatched(runs[q], s, a))
  BY <1>5 DEF Sound, Steps
<1>7. \A r \in DOMAIN runs : runs'[r] = IF r = q THEN Dispatched(runs[q], s, a) ELSE runs[r]
  BY <1>2
<1>8. KeepsRuns /\ KeepsSound
  BY <1>2, <1>5, <1>6, <1>7 DEF KeepsRuns, KeepsSound
<1>9. <<q, s>> \in Task
  <2>1. s \in Nat
    BY <1>3, <1>4, RunParts, PlanAssumption DEF Steps, StepsOf
  <2> QED
    BY <1>3, <2>1 DEF Task
<1> QED
  BY <1>2, <1>3, <1>4, <1>8, <1>9, NoTaskAssumption

LEMMA AbortAllKeeps ==
    ASSUME IInv, AbortAll
    PROVE  KeepsRuns
<1>1. ASSUME NEW r \in DOMAIN runs PROVE runs'[r].scenario = runs[r].scenario
  BY RunsElement, AbortedInv DEF IInv, TypeOK, AbortAll
<1> QED
  BY <1>1 DEF KeepsRuns, AbortAll

-----------------------------------------------------------------------------
(* Each step of the smoke. *)

SmokeKept == SmokeShape' /\ SmokeSound' /\ SmokeUndisturbed'

LEMMA SmokeStartsStep ==
    ASSUME SmokeIInv, SmokeStarts
    PROVE  SmokeKept
<1>1. PICK n : n = Len(runs) + 1
  OBVIOUS
<1>2. /\ smoke.at = "idle" /\ StartRun(SmokeRun) /\ held' = held
      /\ smoke' = [at |-> "asks", run |-> n, played |-> 0, won |-> {}, ok |-> FALSE]
      /\ meddled' = (\E r \in DOMAIN runs : runs[r].status = "running")
      /\ kept' = [status |-> "running", step |-> [i \in 1 .. 3 |-> "queued"]]
      /\ acts' = acts
  BY <1>1 DEF SmokeStarts, StartRun, NoSmoke, SmokePlan, StepsOf
<1>3. /\ n \in DOMAIN runs' /\ n \in Nat
      /\ DOMAIN runs' = DOMAIN runs \cup {n}
      /\ \A r \in DOMAIN runs : runs'[r] = runs[r] /\ r # n
      /\ runs'[n] = NewRun(SmokeRun)
  <2>1. IInv /\ runs \in Seq(Run) /\ SmokeRun \in Scenarios
    BY SmokePlanned DEF SmokeIInv, IInv, TypeOK
  <2>2. Len(runs) \in Nat
    BY <2>1, RunsElement
  <2>3. /\ Len(runs) + 1 \in DOMAIN runs' /\ runs'[Len(runs) + 1] = NewRun(SmokeRun)
        /\ DOMAIN runs' = DOMAIN runs \cup {Len(runs) + 1}
        /\ \A r \in DOMAIN runs : runs'[r] = runs[r] /\ r # Len(runs) + 1
    BY <1>2, <2>1, StartRunKeeps
  <2> QED
    BY <1>1, <2>2, <2>3
<1>4. /\ runs'[n].scenario = SmokeRun /\ runs'[n].status = "running"
      /\ Steps(runs'[n]) = 1 .. 3
      /\ \A i \in 1 .. 3 : runs'[n].step[i] = "queued"
  <2>1. runs'[n].scenario = SmokeRun /\ runs'[n].status = "running"
    BY <1>3 DEF NewRun
  <2>2. Steps(runs'[n]) = 1 .. 3
    BY <2>1, SmokeSteps
  <2>3. StepsOf(Plan[SmokeRun]) = 1 .. 3
    BY <2>1, <2>2 DEF Steps
  <2> QED
    BY <1>3, <2>1, <2>2, <2>3 DEF NewRun
<1>5. SmokeShape'
  <2>1. \A i \in 1 .. 3 : held'[LabAgents[i]] = NoTask
    BY <1>2 DEF SmokeIInv, SmokeShape, Playing
  <2>2. acts' \in 0 .. MaxMeddling
    BY <1>2 DEF SmokeIInv, SmokeShape
  <2> QED
    BY <1>2, <1>3, <1>4, <2>1, <2>2 DEF SmokeShape, SmokeRecord, SmokeStages, Playing
<1>6. SmokeSound'
  BY <1>2, <1>4 DEF SmokeSound, Sound
<1>7. ASSUME ~meddled' PROVE Alone'
  <2>1. \A r \in DOMAIN runs' : r # n => runs'[r].status # "running"
    BY <1>2, <1>3, <1>7
  <2>2. {LabAgents[i] : i \in 1 .. 0} = {}
    OBVIOUS
  <2>3. \A i \in 1 .. 3 : StepWhenAlone(i)' = "queued" /\ KeptWhenAlone(i)' = "queued"
    BY <1>2 DEF StepWhenAlone, KeptWhenAlone, Playing
  <2>4. kept' = [status |-> "running", step |-> [i \in 1 .. 3 |-> KeptWhenAlone(i)']]
    BY <1>2, <2>3
  <2> QED
    BY <1>2, <1>4, <2>1, <2>2, <2>3, <2>4 DEF Alone, Playing
<1> QED
  BY <1>5, <1>6, <1>7 DEF SmokeKept, SmokeUndisturbed
LEMMA SmokeAsksStep ==
    ASSUME SmokeIInv, SmokeAsks
    PROVE  SmokeKept
<1>1. PICK n, r : n = smoke.played + 1 /\ r = smoke.run
  OBVIOUS
<1>2. /\ smoke.at = "asks" /\ smoke.played \in 0 .. 2 /\ n \in 1 .. 3
      /\ Player = LabAgents[n] /\ Player \in Agents
      /\ kept' = kept /\ meddled' = meddled /\ cleared' = cleared /\ acts' = acts
      /\ r \in DOMAIN runs /\ runs[r].scenario = SmokeRun
      /\ smoke \in SmokeRecord
  <2>1. /\ smoke.at = "asks" /\ smoke.played < 3 /\ SmokeShape
        /\ kept' = kept /\ meddled' = meddled /\ cleared' = cleared /\ acts' = acts
    BY SmokeAgents DEF SmokeAsks, SmokeIInv
  <2>2. /\ r \in DOMAIN runs /\ runs[r].scenario = SmokeRun
        /\ smoke \in SmokeRecord
    BY <1>1, <2>1 DEF SmokeShape
  <2>3. smoke.played \in 0 .. 2
    BY <2>1, <2>2 DEF SmokeRecord
  <2> QED
    BY <1>1, <2>1, <2>2, <2>3, PlayerIsLabAgent
<1>3. CASE ~ \E q \in DOMAIN runs : ReadyFor(Player, q) # {}
  <2>1. smoke' = [smoke EXCEPT !.played = n] /\ runs' = runs /\ held' = held
    BY <1>1, <1>3 DEF SmokeAsks, vars
  <2>2. /\ smoke'.at = "asks" /\ smoke'.played = n /\ smoke'.run = r
        /\ smoke' \in SmokeRecord
    BY <1>1, <1>2, <2>1 DEF SmokeRecord
  <2>3. SmokeShape'
    BY <1>2, <2>1, <2>2 DEF SmokeIInv, SmokeShape, Playing
  <2>4. SmokeSound'
    BY <1>1, <1>2, <2>1, <2>2 DEF SmokeIInv, SmokeSound, Sound, Steps
  <2>5. meddled
    <3> SUFFICES ASSUME ~meddled PROVE FALSE
      OBVIOUS
    <3>1. Alone
      BY <1>2 DEF SmokeIInv, SmokeUndisturbed
    <3>2. runs[r].status = "running" /\ runs[r].step[n] = "queued"
      BY <1>1, <1>2, <3>1 DEF Alone, StepWhenAlone, Playing
    <3>3. n \in ReadyFor(Player, r)
      BY <1>2, <3>2, SmokeSteps DEF ReadyFor, IsStepReady
    <3> QED
      BY <1>2, <1>3, <3>3
  <2> QED
    BY <1>2, <2>3, <2>4, <2>5 DEF SmokeKept, SmokeUndisturbed
<1>4. CASE \E q \in DOMAIN runs : ReadyFor(Player, q) # {}
  <2>1. smoke' = [smoke EXCEPT !.at = "holds"] /\ NextTaskForAgent(Player)
    BY <1>4 DEF SmokeAsks
  <2>2. /\ smoke'.at = "holds" /\ smoke'.played = smoke.played /\ smoke'.run = r
        /\ smoke'.won = smoke.won /\ smoke'.ok = smoke.ok
        /\ smoke' \in SmokeRecord
    BY <1>1, <1>2, <2>1 DEF SmokeStages, SmokeRecord
  <2>3. /\ KeepsRuns /\ KeepsSound
        /\ held'[LabAgents[n]] # NoTask
        /\ \A b \in Agents \ {LabAgents[n]} : held'[b] = held[b]
    BY <1>2, <2>1, NextTaskKeeps DEF SmokeIInv
  <2>4. Player' = LabAgents[n]
    BY <1>1, <2>2 DEF Player
  <2>5. SmokeShape'
    <3>1. ASSUME NEW i \in 1 .. 3, i # n
          PROVE  held'[LabAgents[i]] = NoTask
      <4>1. held[LabAgents[i]] = NoTask
        BY <1>2 DEF SmokeIInv, SmokeShape, Playing
      <4>2. LabAgents[i] \in Agents /\ LabAgents[i] # LabAgents[n]
        BY <1>2, <3>1, LabAgent, SmokeAgents
      <4> QED
        BY <2>3, <4>1, <4>2
    <3>2. r \in DOMAIN runs' /\ runs'[r].scenario = SmokeRun
      BY <1>2, <2>3 DEF KeepsRuns
    <3>3. acts' \in 0 .. MaxMeddling
      BY <1>2 DEF SmokeIInv, SmokeShape
    <3>4. held'[Player'] # NoTask /\ smoke'.played < 3 /\ Playing'
      BY <1>2, <2>2, <2>3, <2>4 DEF Playing
    <3>5. \A i \in 1 .. 3 : held'[LabAgents[i]] # NoTask => i = smoke'.played + 1
      BY <1>1, <2>2, <3>1
    <3> QED
      BY <2>2, <3>2, <3>3, <3>4, <3>5 DEF SmokeShape
  <2>6. SmokeSound'
    <3>1. ~cleared => Sound(runs'[r])
      BY <1>1, <1>2, <2>3 DEF SmokeIInv, SmokeSound, KeepsSound
    <3>2. Sound(runs'[r]) => Sound(runs[smoke.run])'
      BY <2>2 DEF Sound, Steps
    <3> QED
      BY <1>2, <2>2, <3>1, <3>2 DEF SmokeSound
  <2>7. ASSUME ~meddled PROVE Alone'
    <3>1. Alone
      BY <1>2, <2>7 DEF SmokeIInv, SmokeUndisturbed
    <3>2. /\ \A q \in DOMAIN runs : q # r => runs[q].status # "running"
          /\ runs[r].status = "running"
          /\ \A i \in 1 .. 3 : runs[r].step[i] = IF i <= smoke.played THEN "success" ELSE "queued"
      BY <1>1, <1>2, <3>1 DEF Alone, StepWhenAlone, Playing
    <3>3. \A q \in DOMAIN runs : q # r => ReadyFor(Player, q) = {}
      BY <3>2 DEF ReadyFor
    <3>4. ReadyFor(Player, r) = n .. 3
      <4>1. Serves(Player, runs[r]) /\ Steps(runs[r]) = 1 .. 3
            /\ \A i \in 1 .. 3 : Deps(runs[r], i) = {}
        BY <1>2, SmokeSteps
      <4>2. ReadyFor(Player, r) = {i \in 1 .. 3 : runs[r].step[i] = "queued"}
        BY <3>2, <4>1 DEF ReadyFor, IsStepReady
      <4>3. \A i \in 1 .. 3 : runs[r].step[i] = "queued" <=> i \in n .. 3
        BY <1>1, <1>2, <3>2
      <4>4. n .. 3 \subseteq 1 .. 3
        BY <1>2
      <4> QED
        BY <4>2, <4>3, <4>4
    <3>5. PICK q \in DOMAIN runs : \E s \in ReadyFor(Player, q) :
            /\ \A t \in ReadyFor(Player, q) : s <= t
            /\ runs' = [runs EXCEPT ![q] = Dispatched(@, s, Player)]
            /\ held' = [held EXCEPT ![Player] = <<q, s>>]
      BY <2>1 DEF NextTaskForAgent
    <3>6. q = r
      BY <3>3, <3>5
    <3>7. PICK s \in n .. 3 :
            /\ \A t \in n .. 3 : s <= t
            /\ runs' = [runs EXCEPT ![r] = Dispatched(runs[r], s, Player)]
            /\ held' = [held EXCEPT ![Player] = <<r, s>>]
      BY <3>4, <3>5, <3>6
    <3>8. s = n
      BY <1>2, <3>7
    <3>9. /\ runs[r] \in Run /\ n \in Steps(runs[r])
          /\ held \in [Agents -> Task \cup {NoTask}]
      BY <1>2, SmokeSteps, RunsElement DEF SmokeIInv, IInv, TypeOK
    <3>10. /\ Dispatched(runs[r], n, Player).step[n] = "dispatched"
           /\ Dispatched(runs[r], n, Player).status = "running"
           /\ \A i \in 1 .. 3 \ {n} : Dispatched(runs[r], n, Player).step[i] = runs[r].step[i]
      BY <1>2, <3>2, <3>9, SmokeSteps, DispatchedChanges
    <3>11. /\ DOMAIN runs' = DOMAIN runs
           /\ runs'[r] = Dispatched(runs[r], n, Player)
           /\ \A p \in DOMAIN runs \ {r} : runs'[p] = runs[p]
           /\ held'[LabAgents[n]] = <<r, n>>
      BY <1>2, <3>7, <3>8, <3>9
    <3>12. \A p \in DOMAIN runs' : p # r => runs'[p].status # "running"
      BY <3>2, <3>11
    <3>13. \A i \in 1 .. 3 : runs'[r].step[i] = StepWhenAlone(i)'
      <4>1. \A i \in 1 .. 3 : StepWhenAlone(i)' = IF i <= smoke.played THEN "success"
                                                 ELSE IF i = n THEN "dispatched" ELSE "queued"
        BY <1>1, <2>2 DEF StepWhenAlone, Playing
      <4>2. \A i \in 1 .. 3 : runs'[r].step[i] = IF i = n THEN "dispatched" ELSE runs[r].step[i]
        BY <3>10, <3>11
      <4>3. \A i \in 1 .. 3 : i <= smoke.played => i # n
        BY <1>1, <1>2
      <4> QED
        BY <3>2, <4>1, <4>2, <4>3
    <3>14. kept' = [status |-> "running", step |-> [i \in 1 .. 3 |-> KeptWhenAlone(i)']]
      <4>1. \A i \in 1 .. 3 : KeptWhenAlone(i)' = KeptWhenAlone(i)
        BY <1>2, <2>2 DEF KeptWhenAlone
      <4>2. kept = [status |-> "running", step |-> [i \in 1 .. 3 |-> KeptWhenAlone(i)]]
        BY <1>2, <3>1 DEF Alone
      <4> QED
        BY <1>2, <4>1, <4>2
    <3>15. smoke'.won = {LabAgents[i] : i \in 1 .. smoke'.played}
      BY <2>2, <3>1 DEF Alone
    <3>16. runs'[r].status = "running" /\ smoke'.played # 3
      <4>1. runs'[r].status = "running"
        BY <3>10, <3>11
      <4>2. smoke.played # 3
        BY <1>2
      <4>3. smoke'.played # 3
        BY <2>2, <4>2
      <4> QED
        BY <4>1, <4>3
    <3>17. held'[Player'] = <<smoke'.run, smoke'.played + 1>>
      BY <1>1, <2>2, <2>4, <3>11
    <3> QED
      BY <2>2, <3>12, <3>13, <3>14, <3>15, <3>16, <3>17 DEF Alone
  <2> QED
    BY <1>2, <2>5, <2>6, <2>7 DEF SmokeKept, SmokeUndisturbed
<1> QED
  BY <1>3, <1>4
LEMMA SmokeMarksStep ==
    ASSUME SmokeIInv, SmokeMarks
    PROVE  SmokeKept
<1>1. PICK n, r : n = smoke.played + 1 /\ r = smoke.run
  OBVIOUS
<1>2. /\ smoke.at = "holds" /\ smoke.played \in 0 .. 2 /\ n \in 1 .. 3
      /\ Player = LabAgents[n]
      /\ runs' = runs /\ held' = held
      /\ meddled' = meddled /\ cleared' = cleared /\ acts' = acts
      /\ kept' = Written("dispatched")
      /\ smoke' = [smoke EXCEPT !.at = "marked"]
      /\ smoke \in SmokeRecord
  <2>1. /\ smoke.at = "holds" /\ SmokeShape
        /\ runs' = runs /\ held' = held
        /\ meddled' = meddled /\ cleared' = cleared /\ acts' = acts
        /\ kept' = Written("dispatched")
        /\ smoke' = [smoke EXCEPT !.at = "marked"]
    BY DEF SmokeMarks, SmokeIInv, vars
  <2>2. smoke \in SmokeRecord /\ smoke.played < 3
    BY <2>1 DEF SmokeShape, Playing
  <2>3. smoke.played \in 0 .. 2
    BY <2>2 DEF SmokeRecord
  <2> QED
    BY <1>1, <2>1, <2>2, <2>3, PlayerIsLabAgent
<1>3. /\ smoke'.at = "marked" /\ smoke'.played = smoke.played /\ smoke'.run = r
      /\ smoke'.won = smoke.won /\ smoke'.ok = smoke.ok
      /\ smoke' \in SmokeRecord
  BY <1>1, <1>2 DEF SmokeStages, SmokeRecord
<1>4. Player' = Player
  BY <1>3 DEF Player
<1>5. SmokeShape'
  BY <1>1, <1>2, <1>3, <1>4 DEF SmokeIInv, SmokeShape, Playing
<1>6. SmokeSound'
  BY <1>1, <1>2, <1>3 DEF SmokeIInv, SmokeSound, Sound, Steps
<1>7. ASSUME ~meddled PROVE Alone'
  <2>1. Alone
    BY <1>2, <1>7 DEF SmokeIInv, SmokeUndisturbed
  <2>2. \A i \in 1 .. 3 : StepWhenAlone(i)' = StepWhenAlone(i)
    BY <1>2, <1>3 DEF StepWhenAlone, Playing
  <2>3. kept = [status |-> "running", step |-> [i \in 1 .. 3 |-> KeptWhenAlone(i)]]
    BY <1>2, <2>1 DEF Alone
  <2>4. held[Player] = <<r, n>>
    BY <1>1, <1>2, <2>1 DEF Alone, Playing
  <2>5. kept' = [kept EXCEPT !.step[n] = "dispatched"]
    BY <1>1, <1>2, <2>4 DEF Written
  <2>6. \A i \in 1 .. 3 : KeptWhenAlone(i)' = IF i = n THEN "dispatched" ELSE KeptWhenAlone(i)
    BY <1>1, <1>2, <1>3 DEF KeptWhenAlone
  <2>7. kept' = [status |-> "running", step |-> [i \in 1 .. 3 |-> KeptWhenAlone(i)']]
    BY <1>2, <2>3, <2>5, <2>6
  <2>8. \A q \in DOMAIN runs' : q # smoke'.run => runs'[q].status # "running"
    BY <1>1, <1>2, <1>3, <2>1 DEF Alone
  <2>9. runs'[r].status = IF smoke'.played = 3 THEN "completed" ELSE "running"
    BY <1>1, <1>2, <1>3, <2>1 DEF Alone
  <2>10. \A i \in 1 .. 3 : runs'[r].step[i] = StepWhenAlone(i)'
    BY <1>1, <1>2, <2>1, <2>2 DEF Alone
  <2>11. /\ held'[Player'] = <<smoke'.run, smoke'.played + 1>>
         /\ smoke'.won = {LabAgents[i] : i \in 1 .. smoke'.played}
    BY <1>1, <1>2, <1>3, <1>4, <2>1, <2>4 DEF Alone
  <2> QED
    BY <1>3, <2>7, <2>8, <2>9, <2>10, <2>11 DEF Alone
<1> QED
  BY <1>2, <1>5, <1>6, <1>7 DEF SmokeKept, SmokeUndisturbed

\* A result closes a run when it settles the last of its steps.
LEMMA ReportedCompletes ==
    ASSUME NEW run \in Run, NEW s \in Steps(run),
           AllTerminal(AfterResult(run, s, TRUE)), ~HasFailure(AfterResult(run, s, TRUE))
    PROVE  Reported(run, s, TRUE).status = "completed"
<1>1. PICK sc \in Scenarios : run \in RunOf(sc)
  BY DEF Run
<1> QED
  BY <1>1 DEF Reported, RunOf

LEMMA SmokeReportsStep ==
    ASSUME SmokeIInv, SmokeReports
    PROVE  SmokeKept
<1>1. PICK n, r : n = smoke.played + 1 /\ r = smoke.run
  OBVIOUS
<1>2. /\ smoke.at = "marked" /\ smoke.played \in 0 .. 2 /\ n \in 1 .. 3
      /\ Player = LabAgents[n] /\ Player \in Agents
      /\ r \in DOMAIN runs /\ runs[r].scenario = SmokeRun
      /\ ReportResult(Player, TRUE)
      /\ meddled' = meddled /\ cleared' = cleared /\ acts' = acts
      /\ kept' = Written("success")
      /\ smoke' = [smoke EXCEPT !.at = "asks", !.played = @ + 1, !.won = @ \cup {Player}]
      /\ smoke \in SmokeRecord
  <2>1. /\ smoke.at = "marked" /\ SmokeShape
        /\ ReportResult(Player, TRUE)
        /\ meddled' = meddled /\ cleared' = cleared /\ acts' = acts
        /\ kept' = Written("success")
        /\ smoke' = [smoke EXCEPT !.at = "asks", !.played = @ + 1, !.won = @ \cup {Player}]
    BY DEF SmokeReports, SmokeIInv
  <2>2. smoke \in SmokeRecord /\ smoke.played < 3
    BY <2>1 DEF SmokeShape, Playing
  <2>3. smoke.played \in 0 .. 2
    BY <2>2 DEF SmokeRecord
  <2>4. r \in DOMAIN runs /\ runs[r].scenario = SmokeRun
    BY <1>1, <2>1 DEF SmokeShape
  <2> QED
    BY <1>1, <2>1, <2>2, <2>3, <2>4, PlayerIsLabAgent
<1>3. /\ smoke'.at = "asks" /\ smoke'.played = n /\ smoke'.run = r
      /\ smoke'.won = smoke.won \cup {LabAgents[n]} /\ smoke'.ok = smoke.ok
      /\ smoke' \in SmokeRecord
  <2>1. smoke.won \cup {LabAgents[n]} \in SUBSET Agents
    BY <1>2 DEF SmokeRecord
  <2>2. smoke' = [smoke EXCEPT !.at = "asks", !.played = n, !.won = smoke.won \cup {LabAgents[n]}]
    BY <1>1, <1>2
  <2>3. n \in 0 .. 3
    BY <1>2
  <2> QED
    BY <1>1, <1>2, <2>1, <2>2, <2>3 DEF SmokeStages, SmokeRecord
<1>4. KeepsRuns /\ KeepsSound
  BY <1>2, ReportKeeps DEF SmokeIInv
<1>5. \A b \in Agents : held'[b] = IF b = LabAgents[n] THEN NoTask ELSE held[b]
  BY <1>2 DEF ReportResult, SmokeIInv, IInv, TypeOK
<1>6. SmokeShape'
  <2>1. ASSUME NEW i \in 1 .. 3 PROVE held'[LabAgents[i]] = NoTask
    <3>1. LabAgents[i] \in Agents
      BY LabAgent
    <3>2. held[LabAgents[i]] # NoTask => i = n
      BY <1>1, <1>2 DEF SmokeIInv, SmokeShape
    <3> QED
      BY <1>5, <3>1, <3>2
  <2>2. r \in DOMAIN runs' /\ runs'[r].scenario = SmokeRun
    BY <1>2, <1>4 DEF KeepsRuns
  <2>3. acts' \in 0 .. MaxMeddling
    BY <1>2 DEF SmokeIInv, SmokeShape
  <2> QED
    BY <1>3, <2>1, <2>2, <2>3 DEF SmokeShape, Playing
<1>7. SmokeSound'
  <2>1. ~cleared => Sound(runs'[r])
    BY <1>1, <1>2, <1>4 DEF SmokeIInv, SmokeSound, KeepsSound
  <2>2. Sound(runs'[r]) => Sound(runs[smoke.run])'
    BY <1>3 DEF Sound, Steps
  <2> QED
    BY <1>2, <1>3, <2>1, <2>2 DEF SmokeSound
<1>8. ASSUME ~meddled PROVE Alone'
  <2>1. Alone
    BY <1>2, <1>8 DEF SmokeIInv, SmokeUndisturbed
  <2>2. held[Player] = <<r, n>>
    BY <1>1, <1>2, <2>1 DEF Alone, Playing
  <2>3. /\ \A q \in DOMAIN runs : q # r => runs[q].status # "running"
        /\ runs[r].status = "running"
        /\ \A i \in 1 .. 3 : runs[r].step[i] = IF i < n THEN "success"
                                             ELSE IF i = n THEN "dispatched" ELSE "queued"
    BY <1>1, <1>2, <2>1 DEF Alone, StepWhenAlone, Playing
  <2>4. runs' = [runs EXCEPT ![r] = Reported(runs[r], n, TRUE)]
    BY <1>2, <2>2 DEF ReportResult
  <2>5. runs[r] \in Run /\ Steps(runs[r]) = 1 .. 3
    BY <1>2, SmokeSteps, RunsElement DEF SmokeIInv, IInv, TypeOK
  <2>6. /\ DOMAIN runs' = DOMAIN runs
        /\ runs'[r] = Reported(runs[r], n, TRUE)
        /\ \A q \in DOMAIN runs \ {r} : runs'[q] = runs[q]
    BY <1>2, <2>4
  <2>7. \A q \in DOMAIN runs' : q # r => runs'[q].status # "running"
    BY <2>3, <2>6
  <2>8. PICK after : after = AfterResult(runs[r], n, TRUE)
    OBVIOUS
  <2>9. /\ after \in [1 .. 3 -> StepStatus]
        /\ \A i \in 1 .. 3 : after[i] = IF i <= n THEN "success" ELSE "queued"
    <3>1. n \in Steps(runs[r])
      BY <1>2, <2>5
    <3>2. /\ after \in [Steps(runs[r]) -> StepStatus]
          /\ after[n] = "success"
          /\ \A i \in Steps(runs[r]) \ {n} : after[i] = runs[r].step[i]
      BY <2>5, <2>8, <3>1, AfterResultSteps
    <3> QED
      BY <1>2, <2>3, <2>5, <3>2
  <2>10. \A i \in 1 .. 3 : runs'[r].step[i] = IF i <= n THEN "success" ELSE "queued"
    <3>1. n \in Steps(runs[r])
      BY <1>2, <2>5
    <3>2. Reported(runs[r], n, TRUE).step = after
      BY <2>5, <2>8, <3>1, ReportedChanges
    <3> QED
      BY <2>6, <2>9, <3>2
  <2>11. \A i \in 1 .. 3 : StepWhenAlone(i)' = IF i <= n THEN "success" ELSE "queued"
    BY <1>3 DEF StepWhenAlone, Playing
  <2>12. runs'[r].status = IF n = 3 THEN "completed" ELSE "running"
    <3>1. n \in Steps(runs[r])
      BY <1>2, <2>5
    <3>2. CASE n = 3
      <4>1. AllTerminal(after) /\ ~HasFailure(after)
        BY <2>9, <3>2 DEF AllTerminal, HasFailure, Terminal
      <4> QED
        BY <2>5, <2>6, <2>8, <3>1, <3>2, <4>1, ReportedCompletes
    <3>3. CASE n # 3
      <4>1. 3 \in DOMAIN after /\ after[3] = "queued"
        BY <1>2, <2>9, <3>3
      <4>2. ~AllTerminal(after)
        BY <4>1 DEF AllTerminal, Terminal
      <4>3. Reported(runs[r], n, TRUE).status = runs[r].status
        BY <2>5, <2>8, <3>1, <4>2, ReportedChanges
      <4> QED
        BY <2>3, <2>6, <3>3, <4>3
    <3> QED
      BY <3>2, <3>3
  <2>13. smoke'.won = {LabAgents[i] : i \in 1 .. smoke'.played}
    <3>1. smoke.won = {LabAgents[i] : i \in 1 .. smoke.played}
      BY <2>1 DEF Alone
    <3>2. PICK old, new : old = 1 .. smoke.played /\ new = 1 .. n
      OBVIOUS
    <3>3. \A i : i \in new <=> i \in old \/ i = n
      BY <1>1, <1>2, <3>2
    <3>4. {LabAgents[i] : i \in new} = {LabAgents[i] : i \in old} \cup {LabAgents[n]}
      BY <3>3
    <3> QED
      BY <1>3, <3>1, <3>2, <3>4
  <2>14. kept' = [status |-> "running", step |-> [i \in 1 .. 3 |-> KeptWhenAlone(i)']]
    <3>1. kept = [status |-> "running", step |-> [i \in 1 .. 3 |-> KeptWhenAlone(i)]]
      BY <1>2, <2>1 DEF Alone
    <3>2. kept' = [kept EXCEPT !.step[n] = "success"]
      BY <1>1, <1>2, <2>2 DEF Written
    <3>3. \A i \in 1 .. 3 : KeptWhenAlone(i)' = IF i = n THEN "success" ELSE KeptWhenAlone(i)
      BY <1>1, <1>2, <1>3 DEF KeptWhenAlone
    <3> QED
      BY <1>2, <3>1, <3>2, <3>3
  <2> QED
    BY <1>3, <2>7, <2>10, <2>11, <2>12, <2>13, <2>14 DEF Alone, Playing
<1> QED
  BY <1>2, <1>6, <1>7, <1>8 DEF SmokeKept, SmokeUndisturbed
LEMMA SmokeFinishesStep ==
    ASSUME SmokeIInv, SmokeFinishes
    PROVE  SmokeKept
<1>1. /\ smoke.at = "asks" /\ smoke.played = 3
      /\ runs' = runs /\ held' = held
      /\ meddled' = meddled /\ cleared' = cleared /\ acts' = acts
      /\ kept' = IF runs[smoke.run].status # "running"
                 THEN [kept EXCEPT !.status = runs[smoke.run].status] ELSE kept
      /\ smoke' = [smoke EXCEPT !.at = "answers"]
      /\ smoke \in SmokeRecord
  BY SmokeAgents DEF SmokeFinishes, SmokeIInv, SmokeShape, vars
<1>2. /\ smoke'.at = "answers" /\ smoke'.played = 3 /\ smoke'.run = smoke.run
      /\ smoke'.won = smoke.won /\ smoke'.ok = smoke.ok
      /\ smoke' \in SmokeRecord
  BY <1>1 DEF SmokeStages, SmokeRecord
<1>3. SmokeShape'
  BY <1>1, <1>2 DEF SmokeIInv, SmokeShape, Playing
<1>4. SmokeSound'
  BY <1>1, <1>2 DEF SmokeIInv, SmokeSound, Sound, Steps
<1>5. ASSUME ~meddled PROVE Alone'
  <2>1. Alone
    BY <1>1, <1>5 DEF SmokeIInv, SmokeUndisturbed
  <2>2. \A i \in 1 .. 3 : StepWhenAlone(i)' = StepWhenAlone(i) /\ KeptWhenAlone(i)' = KeptWhenAlone(i)
    BY <1>1, <1>2 DEF StepWhenAlone, KeptWhenAlone, Playing
  <2>3. kept = [status |-> "running", step |-> [i \in 1 .. 3 |-> KeptWhenAlone(i)]]
    BY <1>1, <2>1 DEF Alone
  <2>4. runs[smoke.run].status = "completed"
    BY <1>1, <2>1 DEF Alone
  <2>5. kept' = [status |-> "completed", step |-> [i \in 1 .. 3 |-> KeptWhenAlone(i)']]
    BY <1>1, <2>2, <2>3, <2>4
  <2> QED
    BY <1>1, <1>2, <2>1, <2>2, <2>4, <2>5 DEF Alone, Playing
<1> QED
  BY <1>1, <1>3, <1>4, <1>5 DEF SmokeKept, SmokeUndisturbed

\* The three agents of the smoke are three.
LEMMA ThreeAgents == Cardinality({LabAgents[i] : i \in 1 .. 3}) = 3
<1>1. PICK a, b, c : a = LabAgents[1] /\ b = LabAgents[2] /\ c = LabAgents[3]
  OBVIOUS
<1>2. a # b /\ a # c /\ b # c
  BY <1>1, SmokeAgents
<1>3. {LabAgents[i] : i \in 1 .. 3} = ({} \cup {a, b}) \cup {c}
  BY <1>1
<1>4. IsFiniteSet({a, b}) /\ Cardinality({a, b}) = 2
  <2>1. IsFiniteSet({a}) /\ Cardinality({a}) = 1
    BY FS_Singleton
  <2>2. {a, b} = {a} \cup {b} /\ b \notin {a}
    BY <1>2
  <2>3. IsFiniteSet({a} \cup {b}) /\ Cardinality({a} \cup {b}) = Cardinality({a}) + 1
    BY <2>1, <2>2, FS_AddElement
  <2> QED
    BY <2>1, <2>2, <2>3
<1>5. c \notin {a, b}
  BY <1>2
<1>6. Cardinality({a, b} \cup {c}) = Cardinality({a, b}) + 1
  BY <1>4, <1>5, FS_AddElement
<1>7. {LabAgents[i] : i \in 1 .. 3} = {a, b} \cup {c}
  BY <1>3
<1> QED
  BY <1>4, <1>6, <1>7

LEMMA SmokeAnswersStep ==
    ASSUME SmokeIInv, SmokeAnswers
    PROVE  SmokeKept
<1>1. PICK ok : ok = (runs[smoke.run].status = "completed" /\ Cardinality(smoke.won) >= 3)
  OBVIOUS
<1>2. /\ smoke.at = "answers"
      /\ runs' = runs /\ held' = held /\ kept' = kept
      /\ meddled' = meddled /\ cleared' = cleared /\ acts' = acts
      /\ smoke' = [smoke EXCEPT !.at = "done", !.ok = ok]
      /\ smoke \in SmokeRecord
  BY <1>1 DEF SmokeAnswers, SmokeIInv, SmokeShape, vars
<1>3. ok \in BOOLEAN
  BY <1>1
<1>4. smoke' \in SmokeRecord
  BY <1>2, <1>3 DEF SmokeStages, SmokeRecord
<1>5. /\ smoke'.at = "done" /\ smoke'.played = smoke.played /\ smoke'.run = smoke.run
      /\ smoke'.won = smoke.won /\ smoke'.ok = ok
  BY <1>2 DEF SmokeRecord
<1>6. SmokeShape'
  BY <1>2, <1>4, <1>5 DEF SmokeIInv, SmokeShape, Playing
<1>7. SmokeSound'
  <2>1. smoke'.ok => runs'[smoke'.run].status = "completed"
    BY <1>1, <1>2, <1>5, Zenon
  <2>2. ~cleared' => Sound(runs[smoke.run])
    BY <1>2 DEF SmokeIInv, SmokeSound
  <2>3. Sound(runs[smoke.run])' <=> Sound(runs[smoke.run])
    BY <1>2, <1>5 DEF Sound, Steps
  <2> QED
    BY <2>1, <2>2, <2>3, <1>2, <1>5 DEF SmokeSound
<1>8. ASSUME ~meddled PROVE Alone'
  <2>1. Alone
    BY <1>2, <1>8 DEF SmokeIInv, SmokeUndisturbed
  <2>2. smoke.played = 3 /\ runs[smoke.run].status = "completed"
    BY <1>2, <2>1 DEF Alone
  <2>3. smoke.won = {LabAgents[i] : i \in 1 .. 3}
    BY <2>1, <2>2 DEF Alone
  <2>4. Cardinality(smoke.won) >= 3
    <3>1. Cardinality(smoke.won) = 3
      BY <2>3, ThreeAgents
    <3> QED
      BY <3>1
  <2>5. ok
    BY <1>1, <2>2, <2>4, Zenon
  <2>6. smoke'.ok
    BY <1>5, <2>5, Zenon
  <2>7. \A i \in 1 .. 3 : StepWhenAlone(i)' = StepWhenAlone(i) /\ KeptWhenAlone(i)' = KeptWhenAlone(i)
    BY <1>2, <1>5 DEF StepWhenAlone, KeptWhenAlone, Playing
  <2>8. kept = [status |-> "completed", step |-> [i \in 1 .. 3 |-> KeptWhenAlone(i)]]
    BY <1>2, <2>1 DEF Alone
  <2>9. kept' = [status |-> "completed", step |-> [i \in 1 .. 3 |-> KeptWhenAlone(i)']]
    BY <1>2, <2>7, <2>8
  <2>10. \A i \in 1 .. 3 : runs'[smoke'.run].step[i] = StepWhenAlone(i)'
    BY <1>2, <1>5, <2>1, <2>7 DEF Alone
  <2>11. \A q \in DOMAIN runs' : q # smoke'.run => runs'[q].status # "running"
    BY <1>2, <1>5, <2>1 DEF Alone
  <2>12. smoke'.won = {LabAgents[i] : i \in 1 .. smoke'.played}
    BY <1>5, <2>1 DEF Alone
  <2> QED
    BY <1>2, <1>5, <2>2, <2>6, <2>9, <2>10, <2>11, <2>12 DEF Alone, Playing
<1> QED
  BY <1>2, <1>6, <1>7, <1>8 DEF SmokeKept, SmokeUndisturbed

\* Others never touch what the agents of the smoke hold, and once they have
\* acted the run of the smoke is no longer alone.
LEMMA OthersActStep ==
    ASSUME SmokeIInv, OthersAct
    PROVE  SmokeKept
<1>1. /\ smoke.at # "done" /\ acts' = acts + 1 /\ acts < MaxMeddling
      /\ meddled' = TRUE /\ smoke' = smoke /\ kept' = kept
      /\ IInv
  BY DEF OthersAct, SmokeIInv
<1>2. KeepsRuns /\ (cleared' \/ (KeepsSound /\ cleared' = cleared))
  <2>1. CASE AbortAll /\ cleared' = TRUE
    BY <1>1, <2>1, AbortAllKeeps
  <2>2. CASE /\ \E sc \in Scenarios \ {SmokeRun} : StartRun(sc)
             /\ cleared' = cleared
    BY <1>1, <2>2, StartRunKeeps
  <2>3. CASE /\ PauseRuns(DOMAIN runs) \/ ResumeRuns(DOMAIN runs)
             /\ cleared' = cleared
    BY <1>1, <2>3, PauseRunsKeeps
  <2>4. CASE /\ \E r \in DOMAIN runs : RetryFailedSteps(r)
             /\ cleared' = cleared
    BY <1>1, <2>4, RetryKeeps
  <2>5. CASE /\ \E a \in RealAgents : NextTaskForAgent(a)
             /\ cleared' = cleared
    BY <1>1, <2>5, NextTaskKeeps, SmokeAgents
  <2>6. CASE /\ \E a \in RealAgents, ok \in BOOLEAN : ReportResult(a, ok)
             /\ cleared' = cleared
    BY <1>1, <2>6, ReportKeeps, SmokeAgents
  <2> QED
    BY <2>1, <2>2, <2>3, <2>4, <2>5, <2>6 DEF OthersAct
<1>3. ASSUME NEW b \in Agents, b \notin RealAgents PROVE held'[b] = held[b]
  <2>1. held \in [Agents -> Task \cup {NoTask}]
    BY <1>1 DEF IInv, TypeOK
  <2>2. CASE held' = held
    BY <2>2
  <2>3. CASE \E a \in RealAgents : NextTaskForAgent(a)
    BY <1>3, <2>1, <2>3 DEF NextTaskForAgent
  <2>4. CASE \E a \in RealAgents, ok \in BOOLEAN : ReportResult(a, ok)
    BY <1>3, <2>1, <2>4 DEF ReportResult
  <2>5. held' = held \/ (\E a \in RealAgents : NextTaskForAgent(a))
        \/ (\E a \in RealAgents, ok \in BOOLEAN : ReportResult(a, ok))
    BY DEF OthersAct, AbortAll, StartRun, PauseRuns, ResumeRuns, RetryFailedSteps
  <2> QED
    BY <2>2, <2>3, <2>4, <2>5
<1>4. Player' = Player
  BY <1>1 DEF Player
<1>5. SmokeShape'
  <2>1. \A i \in 1 .. 3 : held'[LabAgents[i]] = held[LabAgents[i]]
    BY <1>3, LabAgent
  <2>2. Playing => held'[Player] = held[Player]
    <3>1. SmokeShape
      BY DEF SmokeIInv
    <3>2. Playing => \E i \in 1 .. 3 : Player = LabAgents[i]
      BY <3>1, PlayerIsLabAgent DEF SmokeShape
    <3> QED
      BY <2>1, <3>2
  <2>3. acts' \in 0 .. MaxMeddling
    BY <1>1, SmokeBound DEF SmokeIInv, SmokeShape
  <2>4. smoke.at # "idle" => smoke.run \in DOMAIN runs' /\ runs'[smoke.run].scenario = SmokeRun
    BY <1>2 DEF SmokeIInv, SmokeShape, KeepsRuns
  <2> QED
    BY <1>1, <1>4, <2>1, <2>2, <2>3, <2>4 DEF SmokeIInv, SmokeShape, Playing
<1>6. SmokeSound'
  <2>1. smoke.at # "idle" /\ ~cleared' => Sound(runs'[smoke.run])
    BY <1>2 DEF SmokeIInv, SmokeShape, SmokeSound, KeepsSound
  <2>2. Sound(runs'[smoke.run]) => Sound(runs[smoke.run])'
    BY <1>1 DEF Sound, Steps
  <2> QED
    BY <1>1, <2>1, <2>2 DEF SmokeSound
<1> QED
  BY <1>1, <1>5, <1>6 DEF SmokeKept, SmokeUndisturbed

-----------------------------------------------------------------------------
(* The theorems about the smoke. *)

LEMMA SmokeInitHolds == SmokeInit => SmokeIInv
<1> SUFFICES ASSUME SmokeInit PROVE SmokeIInv
  OBVIOUS
<1>1. IInv
  BY InitIInv DEF SmokeInit
<1>2. /\ smoke = NoSmoke /\ meddled = FALSE /\ acts = 0
      /\ \A a \in Agents : held[a] = NoTask
  BY DEF SmokeInit, Init
<1>3. NoSmoke \in SmokeRecord
  <2>1. {} \in SUBSET Agents /\ 0 \in 0 .. 3 /\ 0 \in Nat /\ FALSE \in BOOLEAN
    OBVIOUS
  <2> QED
    BY <2>1 DEF NoSmoke, SmokeRecord, SmokeStages
<1>4. SmokeShape
  BY <1>2, <1>3, SmokeBound, LabAgent DEF SmokeShape, NoSmoke, Playing
<1> QED
  BY <1>1, <1>2, <1>4 DEF SmokeIInv, SmokeSound, SmokeUndisturbed, NoSmoke

LEMMA SmokeNextHolds == SmokeIInv /\ SmokeNext => SmokeIInv'
<1> SUFFICES ASSUME SmokeIInv, SmokeNext PROVE SmokeIInv'
  OBVIOUS
<1>1. IInv'
  <2>1. IInv /\ SmokeShape
    BY DEF SmokeIInv
  <2> QED
    BY <2>1, SmokeIsPlannerStep, NextIInv, StutterIInv
<1>2. SmokeKept
  BY SmokeStartsStep, SmokeAsksStep, SmokeMarksStep, SmokeReportsStep, SmokeFinishesStep,
     SmokeAnswersStep, OthersActStep DEF SmokeNext
<1> QED
  BY <1>1, <1>2 DEF SmokeIInv, SmokeKept

LEMMA SmokeStutters == SmokeIInv /\ UNCHANGED smokeVars => SmokeIInv'
<1> SUFFICES ASSUME SmokeIInv, UNCHANGED smokeVars PROVE SmokeIInv'
  OBVIOUS
<1>1. /\ smoke' = smoke /\ kept' = kept /\ meddled' = meddled /\ cleared' = cleared
      /\ acts' = acts /\ UNCHANGED vars /\ runs' = runs /\ held' = held
  BY DEF smokeVars, vars
<1>2. IInv'
  BY <1>1, StutterIInv DEF SmokeIInv
<1>3. SmokeShape' /\ SmokeSound'
  BY <1>1 DEF SmokeIInv, SmokeShape, SmokeSound, Playing, Player, Sound, Steps
<1>4. SmokeUndisturbed'
  BY <1>1 DEF SmokeIInv, SmokeUndisturbed, Alone, StepWhenAlone, KeptWhenAlone, Playing, Player
<1> QED
  BY <1>2, <1>3, <1>4 DEF SmokeIInv

LEMMA SmokeVerdictFollows == SmokeIInv => SmokeVerdict
<1> SUFFICES ASSUME SmokeIInv, smoke.at = "done"
             PROVE  /\ ~meddled =>
                         /\ smoke.ok
                         /\ kept.status = "completed"
                         /\ \A s \in DOMAIN kept.step : kept.step[s] = "success"
                    /\ smoke.ok /\ ~cleared =>
                         \A s \in Steps(runs[smoke.run]) : runs[smoke.run].step[s] = "success"
  BY DEF SmokeVerdict
<1>1. ASSUME ~meddled
      PROVE  /\ smoke.ok
             /\ kept.status = "completed"
             /\ \A s \in DOMAIN kept.step : kept.step[s] = "success"
  <2>1. Alone
    BY <1>1 DEF SmokeIInv, SmokeUndisturbed
  <2>2. smoke.ok
    BY <2>1 DEF Alone
  <2>3. smoke.played = 3
    BY <2>1 DEF Alone
  <2>4. kept = [status |-> "completed", step |-> [i \in 1 .. 3 |-> KeptWhenAlone(i)]]
    BY <2>1 DEF Alone
  <2>5. \A i \in 1 .. 3 : KeptWhenAlone(i) = "success"
    BY <2>3 DEF KeptWhenAlone
  <2>6. kept.status = "completed" /\ \A s \in DOMAIN kept.step : kept.step[s] = "success"
    BY <2>4, <2>5
  <2> QED
    BY <2>2, <2>6
<1>2. ASSUME smoke.ok, ~cleared, NEW s \in Steps(runs[smoke.run])
      PROVE  runs[smoke.run].step[s] = "success"
  <2>1. PICK run : run = runs[smoke.run]
    OBVIOUS
  <2>2. run.status = "completed"
    BY <1>2, <2>1 DEF SmokeIInv, SmokeSound
  <2>3. run.step[s] \notin {"skipped", "aborted"}
    BY <1>2, <2>1 DEF SmokeIInv, SmokeSound, Sound
  <2>4. run \in Run /\ RunInv(run)
    BY <2>1, RunsElement DEF SmokeIInv, SmokeShape, IInv, TypeOK
  <2>5. DOMAIN run.step = Steps(run)
    BY <2>4, RunParts
  <2>6. AllTerminal(run.step) /\ ~HasFailure(run.step)
    BY <2>2, <2>4 DEF RunInv, StatusMatches
  <2>7. run.step[s] \in Terminal /\ run.step[s] # "failed"
    BY <1>2, <2>1, <2>5, <2>6 DEF AllTerminal, HasFailure
  <2> QED
    BY <2>1, <2>3, <2>7 DEF Terminal
<1> QED
  BY <1>1, <1>2

\* The inductive invariant of the smoke holds in every reachable state of the
\* laboratory (run_multi_agent_smoke over the planner, whoever calls it too).
THEOREM SmokeInvariant == LabSpec => []SmokeIInv
<1>1. LabInit => SmokeIInv
  BY SmokeInitHolds DEF LabInit
<1>2. SmokeIInv /\ [LabNext]_labVars => SmokeIInv'
  <2> SUFFICES ASSUME SmokeIInv, [LabNext]_labVars PROVE SmokeIInv'
    OBVIOUS
  <2>1. SmokeNext \/ UNCHANGED smokeVars
    BY DEF LabNext, HostWorks, LibraryWorks, BuilderWorks, MaturityWorks, SmokeWorks, labVars
  <2> QED
    BY <2>1, SmokeNextHolds, SmokeStutters
<1> QED
  BY <1>1, <1>2, PTL DEF LabSpec

\* A smoke nobody meddles with answers ok, and its run is stored as completed
\* with all of its steps; an answer ok means that every step of its run
\* succeeded, unless abort_all came in between.
THEOREM SmokeVerdictIsRight == LabSpec => []SmokeVerdict
BY SmokeInvariant, SmokeVerdictFollows, PTL

-----------------------------------------------------------------------------
(* The loader: greatest elements, as Max of the community modules chooses them. *)

LEMMA MaxOfBounded ==
    ASSUME NEW S, S \subseteq Nat, S # {}, NEW n \in Nat, \A x \in S : x <= n
    PROVE  Max(S) \in S /\ \A x \in S : x <= Max(S)
<1>1. PICK B : B = {m \in Nat : \A x \in S : x <= m}
  OBVIOUS
<1>2. PICK m \in B : \A k \in B : m <= k
  BY <1>1, SmallestNat
<1>3. m \in S
  <2> SUFFICES ASSUME m \notin S PROVE FALSE
    OBVIOUS
  <2>1. m \in Nat /\ \A x \in S : x < m
    BY <1>1, <1>2
  <2>2. m > 0
    <3>1. PICK x : x \in S
      OBVIOUS
    <3>2. x \in Nat /\ x < m
      BY <2>1, <3>1
    <3> QED
      BY <2>1, <3>2
  <2>3. m - 1 \in B
    BY <1>1, <2>1, <2>2
  <2> QED
    BY <1>2, <2>1, <2>3
<1>4. \E x \in S : \A y \in S : x >= y
  BY <1>1, <1>2, <1>3
<1>5. Max(S) \in S /\ \A y \in S : Max(S) >= y
  BY <1>4 DEF Max
<1> QED
  BY <1>5

LEMMA FiniteIsBounded ==
    ASSUME NEW S, S \subseteq Nat, IsFiniteSet(S)
    PROVE  \E n \in Nat : \A x \in S : x <= n
<1> DEFINE Free(T) == T \subseteq Nat /\ IsFiniteSet(T) /\ ~ \E n \in Nat : \A x \in T : x <= n
<1> SUFFICES ASSUME Free(S) PROVE FALSE
  OBVIOUS
<1>1. PICK C : C = {c \in Nat : \E T \in SUBSET S : Free(T) /\ Cardinality(T) = c}
  OBVIOUS
<1>2. Cardinality(S) \in C
  BY <1>1, FS_CardinalityType
<1>3. PICK c \in C : \A k \in C : c <= k
  BY <1>1, <1>2, SmallestNat
<1>4. PICK T \in SUBSET S : Free(T) /\ Cardinality(T) = c
  BY <1>1, <1>3
<1>5. T # {}
  BY <1>4
<1>6. PICK x : x \in T
  BY <1>5
<1>7. IsFiniteSet(T \ {x}) /\ Cardinality(T \ {x}) = c - 1
  BY <1>4, <1>6, FS_RemoveElement
<1>8. c - 1 \in Nat
  BY <1>7, FS_CardinalityType
<1>9. ~ Free(T \ {x})
  BY <1>1, <1>3, <1>4, <1>7, <1>8
<1>10. PICK n \in Nat : \A y \in T \ {x} : y <= n
  BY <1>4, <1>7, <1>9
<1>11. x \in Nat
  BY <1>4, <1>6
<1>12. \A y \in T : y <= n + x
  BY <1>4, <1>10, <1>11
<1>13. n + x \in Nat
  BY <1>10, <1>11
<1> QED
  BY <1>4, <1>12, <1>13

LEMMA MaxOfFinite ==
    ASSUME NEW S, S \subseteq Nat, S # {}, IsFiniteSet(S)
    PROVE  Max(S) \in S /\ \A x \in S : x <= Max(S)
BY FiniteIsBounded, MaxOfBounded

LEMMA MinOfNats ==
    ASSUME NEW S, S \subseteq Nat, S # {}
    PROVE  Min(S) \in S /\ \A x \in S : Min(S) <= x
<1>1. \E x \in S : \A y \in S : x <= y
  BY SmallestNat
<1> QED
  BY <1>1 DEF Min

LEMMA MaxIs ==
    ASSUME NEW S, S \subseteq Nat, NEW m \in S, \A x \in S : x <= m
    PROVE  Max(S) = m
<1>1. \E x \in S : \A y \in S : x >= y
  OBVIOUS
<1>2. PICK x : x = Max(S)
  OBVIOUS
<1>3. x \in S /\ \A y \in S : x >= y
  BY <1>1, <1>2 DEF Max
<1>4. x \in Nat /\ m \in Nat /\ x >= m /\ x <= m
  BY <1>3
<1> QED
  BY <1>2, <1>4

-----------------------------------------------------------------------------
(* The loop of load_scenarios_from_dir over the scenarios of one file. *)

NamesOf(body) == {s.name : s \in ToSet(body.scenarios)}
Places(seq, n) == {i \in DOMAIN seq : seq[i].name = n}

\* What out is after the scenarios at the places of s.
AddedAt(out, seq, s) ==
    [n \in DOMAIN out \cup {seq[i].name : i \in s} |->
        IF n \in {seq[i].name : i \in s} THEN seq[Max(s \cap Places(seq, n))].version ELSE out[n]]

AddedTurn(out, seq, iter, s) ==
    IF s = {} THEN out
    ELSE With(iter[s \ {Max(s)}], seq[Max(s)].name, seq[Max(s)].version)

LEMMA AddedIter ==
    ASSUME NEW out, NEW body
    PROVE  Added(out, body) =
             (CHOOSE g : g = [s \in SUBSET DOMAIN body.scenarios |->
                                 AddedTurn(out, body.scenarios, g, s)])[DOMAIN body.scenarios]
BY DEF Added, FoldLeft, MapThenFoldSet, AddedTurn

IsFun(f) == f = [x \in DOMAIN f |-> f[x]]

LEMMA AddedAtNext ==
    ASSUME NEW out, NEW seq, NEW s, s \subseteq Nat, NEW x \in s, \A i \in s : i <= x,
           s \subseteq DOMAIN seq
    PROVE  AddedAt(out, seq, s) = With(AddedAt(out, seq, s \ {x}), seq[x].name, seq[x].version)
<1>1. PICK r, new, old :
        /\ r = s \ {x}
        /\ new = {seq[i].name : i \in s} /\ old = {seq[i].name : i \in r}
  OBVIOUS
<1>2. new = old \cup {seq[x].name}
  BY <1>1
<1>3. AddedAt(out, seq, r) =
        [n \in DOMAIN out \cup old |->
            IF n \in old THEN seq[Max(r \cap Places(seq, n))].version ELSE out[n]]
  BY <1>1 DEF AddedAt
<1>4. AddedAt(out, seq, s) =
        [n \in DOMAIN out \cup new |->
            IF n \in new THEN seq[Max(s \cap Places(seq, n))].version ELSE out[n]]
  BY <1>1 DEF AddedAt
<1>5. Max(s \cap Places(seq, seq[x].name)) = x
  <2>1. s \cap Places(seq, seq[x].name) \subseteq Nat
    OBVIOUS
  <2>2. x \in s \cap Places(seq, seq[x].name)
    BY DEF Places
  <2>3. \A i \in s \cap Places(seq, seq[x].name) : i <= x
    OBVIOUS
  <2> QED
    BY <2>1, <2>2, <2>3, MaxIs
<1>6. \A n : n # seq[x].name => s \cap Places(seq, n) = r \cap Places(seq, n)
  BY <1>1 DEF Places
<1>7. With(AddedAt(out, seq, r), seq[x].name, seq[x].version) =
        [n \in DOMAIN out \cup new |->
            IF n = seq[x].name THEN seq[x].version
            ELSE IF n \in old THEN seq[Max(r \cap Places(seq, n))].version ELSE out[n]]
  BY <1>2, <1>3 DEF With
<1>8. ASSUME NEW n \in DOMAIN out \cup new
      PROVE  (IF n \in new THEN seq[Max(s \cap Places(seq, n))].version ELSE out[n])
             = IF n = seq[x].name THEN seq[x].version
               ELSE IF n \in old THEN seq[Max(r \cap Places(seq, n))].version ELSE out[n]
  <2>1. CASE n = seq[x].name
    BY <1>2, <1>5, <2>1
  <2>2. CASE n # seq[x].name
    BY <1>2, <1>6, <2>2
  <2> QED
    BY <2>1, <2>2
<1> QED
  BY <1>1, <1>4, <1>7, <1>8

LEMMA AddedIs ==
    ASSUME NEW out, IsFun(out), NEW body, body.scenarios \in Seq(ToSet(body.scenarios))
    PROVE  Added(out, body) = AddedAt(out, body.scenarios, DOMAIN body.scenarios)
<1>1. PICK seq, len : seq = body.scenarios /\ len = Len(seq)
  OBVIOUS
<1>2. len \in Nat /\ DOMAIN seq = 1 .. len
  BY <1>1, LenProperties
<1>3. \A s \in SUBSET DOMAIN seq : s # {} => s \subseteq Nat /\ Max(s) \in s /\ \A i \in s : i <= Max(s)
  BY <1>2, MaxOfBounded
<1>4. AddedAt(out, seq, {}) = out
  BY DEF AddedAt, IsFun
<1>5. PICK w : w = [s \in SUBSET DOMAIN seq |-> AddedAt(out, seq, s)]
  OBVIOUS
<1>6. ASSUME NEW s \in SUBSET DOMAIN seq
      PROVE  w[s] = AddedTurn(out, seq, w, s)
  <2>1. CASE s = {}
    BY <1>4, <1>5, <2>1 DEF AddedTurn
  <2>2. CASE s # {}
    <3>1. PICK x : x = Max(s)
      OBVIOUS
    <3>2. AddedAt(out, seq, s) = With(AddedAt(out, seq, s \ {x}), seq[x].name, seq[x].version)
      BY <1>3, <2>2, <3>1, AddedAtNext
    <3>3. w[s \ {x}] = AddedAt(out, seq, s \ {x}) /\ w[s] = AddedAt(out, seq, s)
      BY <1>5
    <3> QED
      BY <2>2, <3>1, <3>2, <3>3 DEF AddedTurn
  <2> QED
    BY <2>1, <2>2
<1>7. w = [s \in SUBSET DOMAIN seq |-> AddedTurn(out, seq, w, s)]
  BY <1>5, <1>6
<1>8. PICK iter : /\ iter = [s \in SUBSET DOMAIN seq |-> AddedTurn(out, seq, iter, s)]
                  /\ Added(out, body) = iter[DOMAIN seq]
  <2>1. PICK iter : iter = CHOOSE g : g = [s \in SUBSET DOMAIN seq |-> AddedTurn(out, seq, g, s)]
    OBVIOUS
  <2>2. iter = [s \in SUBSET DOMAIN seq |-> AddedTurn(out, seq, iter, s)]
    BY <1>7, <2>1, Zenon
  <2>3. Added(out, body) = iter[DOMAIN seq]
    BY <1>1, <2>1, AddedIter, Zenon
  <2> QED
    BY <2>2, <2>3
<1>9. ASSUME NEW k \in 0 .. len
      PROVE  iter[1 .. k] = AddedAt(out, seq, 1 .. k)
  <2> SUFFICES ASSUME iter[1 .. k] # AddedAt(out, seq, 1 .. k) PROVE FALSE
    OBVIOUS
  <2>1. PICK bad : bad = {j \in Nat : j <= len /\ iter[1 .. j] # AddedAt(out, seq, 1 .. j)}
    OBVIOUS
  <2>2. PICK j \in bad : \A i \in bad : j <= i
    <3>1. k \in bad /\ bad \subseteq Nat
      BY <1>2, <2>1
    <3> QED
      BY <3>1, SmallestNat
  <2>3. j \in Nat /\ j <= len /\ iter[1 .. j] # AddedAt(out, seq, 1 .. j)
    BY <2>1, <2>2
  <2>4. 1 .. j \in SUBSET DOMAIN seq
    BY <1>2, <2>3
  <2>5. iter[1 .. j] = AddedTurn(out, seq, iter, 1 .. j)
    BY <1>8, <2>4
  <2>6. CASE j = 0
    <3>1. 1 .. j = {}
      BY <2>6
    <3> QED
      BY <1>4, <2>3, <2>5, <3>1 DEF AddedTurn
  <2>7. CASE j # 0
    <3>1. j - 1 \in Nat /\ j - 1 <= len /\ j - 1 \notin bad
      BY <1>2, <2>2, <2>3, <2>7
    <3>2. iter[1 .. j - 1] = AddedAt(out, seq, 1 .. j - 1)
      BY <2>1, <3>1
    <3>3. (1 .. j) \ {j} = 1 .. j - 1 /\ j \in 1 .. j /\ 1 .. j \subseteq Nat
      BY <2>3, <2>7
    <3>4. Max(1 .. j) = j
      <4>1. \A i \in 1 .. j : i <= j
        BY <2>3
      <4> QED
        BY <3>3, <4>1, MaxIs
    <3>5. AddedAt(out, seq, 1 .. j) = With(AddedAt(out, seq, 1 .. j - 1), seq[j].name, seq[j].version)
      BY <2>4, <3>3, AddedAtNext
    <3>6. AddedTurn(out, seq, iter, 1 .. j) = With(iter[1 .. j - 1], seq[j].name, seq[j].version)
      BY <3>3, <3>4 DEF AddedTurn
    <3> QED
      BY <2>3, <2>5, <3>2, <3>5, <3>6
  <2> QED
    BY <2>6, <2>7
<1>10. len \in 0 .. len
  BY <1>2
<1> QED
  BY <1>1, <1>2, <1>8, <1>9, <1>10

-----------------------------------------------------------------------------
(* What a directory holds, file after file. *)

\* The files of R in d.
Part(d, R) == [f \in R |-> d[f]]

IsDir(d) ==
    /\ DOMAIN d \subseteq Files /\ IsFiniteSet(DOMAIN d)
    /\ \A f \in DOMAIN d : d[f].body \in Bodies

\* The file that a name comes from.
Holding(d, n) == {g \in DOMAIN d : InFile(d, g, n) # {}}
VersionIn(d, g, n) == d[g].body.scenarios[Max(InFile(d, g, n))].version

LEMMA ContentIs ==
    ASSUME NEW d
    PROVE  Content(d) = [n \in NamesIn(d) |-> VersionIn(d, Max(Holding(d, n)), n)]
BY DEF Content, Holding, VersionIn

LEMMA NamesAreNamed ==
    ASSUME NEW seq
    PROVE  /\ {s.name : s \in ToSet(seq)} = {seq[i].name : i \in DOMAIN seq}
           /\ \A n : n \in {s.name : s \in ToSet(seq)} <=> Places(seq, n) # {}
BY DEF ToSet, Places

LEMMA ContentGrows ==
    ASSUME NEW d, IsDir(d), NEW R, R \subseteq DOMAIN d,
           NEW f \in DOMAIN d, f \notin R, \A g \in R : g < f
    PROVE  Content(Part(d, R \cup {f})) = Added(Content(Part(d, R)), d[f].body)
<1>1. PICK e, h, seq, names :
        /\ e = Part(d, R) /\ h = Part(d, R \cup {f})
        /\ seq = d[f].body.scenarios /\ names = {seq[i].name : i \in DOMAIN seq}
  OBVIOUS
<1>2. /\ DOMAIN e = R /\ \A g \in R : e[g] = d[g]
      /\ DOMAIN h = R \cup {f} /\ \A g \in R \cup {f} : h[g] = d[g]
  BY <1>1 DEF Part
<1>3. /\ \A g \in R : \A n : InFile(h, g, n) = InFile(e, g, n)
      /\ \A n : InFile(h, f, n) = Places(seq, n)
      /\ \A g \in R : \A n : VersionIn(h, g, n) = VersionIn(e, g, n)
      /\ \A n : VersionIn(h, f, n) = seq[Max(Places(seq, n))].version
  <2>1. \A g \in R : \A n : InFile(h, g, n) = InFile(e, g, n)
    BY <1>2 DEF InFile
  <2>2. \A n : InFile(h, f, n) = Places(seq, n)
    BY <1>1, <1>2 DEF InFile, Places
  <2> QED
    BY <1>1, <1>2, <2>1, <2>2 DEF VersionIn
<1>4. names = {s.name : s \in ToSet(seq)} /\ \A n : n \in names <=> Places(seq, n) # {}
  <2>1. names = {s.name : s \in ToSet(seq)}
    BY <1>1, NamesAreNamed, Zenon
  <2>2. \A n : n \in {s.name : s \in ToSet(seq)} <=> Places(seq, n) # {}
    BY NamesAreNamed, Zenon
  <2> QED
    BY <2>1, <2>2, Zenon
<1>5. NamesIn(h) = NamesIn(e) \cup names
  <2>1. \A n : n \in NamesIn(h) <=>
                 \E g \in R \cup {f} : n \in {s.name : s \in ToSet(d[g].body.scenarios)}
    BY <1>2 DEF NamesIn
  <2>2. \A n : n \in NamesIn(e) <=>
                 \E g \in R : n \in {s.name : s \in ToSet(d[g].body.scenarios)}
    BY <1>2 DEF NamesIn
  <2> QED
    BY <1>1, <1>4, <2>1, <2>2
<1>6. Added(Content(e), d[f].body) =
        [n \in NamesIn(e) \cup names |->
            IF n \in names THEN seq[Max(Places(seq, n))].version ELSE Content(e)[n]]
  <2>1. IsFun(Content(e)) /\ DOMAIN Content(e) = NamesIn(e)
    BY DEF Content, IsFun
  <2>2. d[f].body.scenarios \in Seq(ToSet(d[f].body.scenarios))
    BY BodiesAssumption DEF IsDir
  <2>3. \A n : DOMAIN seq \cap Places(seq, n) = Places(seq, n)
    BY DEF Places
  <2>4. Added(Content(e), d[f].body) = AddedAt(Content(e), seq, DOMAIN seq)
    BY <1>1, <2>1, <2>2, AddedIs
  <2>5. PICK c : c = Content(e)
    OBVIOUS
  <2>6. AddedAt(c, seq, DOMAIN seq) =
          [n \in DOMAIN c \cup names |->
              IF n \in names THEN seq[Max(DOMAIN seq \cap Places(seq, n))].version ELSE c[n]]
    BY <1>1, Zenon DEF AddedAt
  <2>7. AddedAt(c, seq, DOMAIN seq) =
          [n \in DOMAIN c \cup names |->
              IF n \in names THEN seq[Max(Places(seq, n))].version ELSE c[n]]
    BY <2>3, <2>6
  <2> QED
    BY <2>1, <2>4, <2>5, <2>7, Zenon
<1>7. ASSUME NEW n \in names
      PROVE  Max(Holding(h, n)) = f
  <2>1. f \in Holding(h, n)
    BY <1>2, <1>3, <1>4, <1>7 DEF Holding
  <2>2. Holding(h, n) \subseteq R \cup {f}
    BY <1>2 DEF Holding
  <2>3. R \cup {f} \subseteq Nat
    BY LibraryBounds DEF IsDir
  <2>4. Holding(h, n) \subseteq Nat /\ \A g \in Holding(h, n) : g <= f
    BY <2>2, <2>3
  <2> QED
    BY <2>1, <2>4, MaxIs
<1>8. ASSUME NEW n \in NamesIn(e), n \notin names
      PROVE  Holding(h, n) = Holding(e, n) /\ Max(Holding(e, n)) \in R
  <2>1. Holding(h, n) = Holding(e, n)
    BY <1>2, <1>3, <1>4, <1>8 DEF Holding
  <2>2. Holding(e, n) # {}
    <3>1. PICK g \in R : n \in {s.name : s \in ToSet(e[g].body.scenarios)}
      BY <1>2, <1>8 DEF NamesIn
    <3>2. Places(e[g].body.scenarios, n) # {}
      BY <3>1, NamesAreNamed
    <3> QED
      BY <1>2, <3>2 DEF Places, InFile, Holding
  <2>3. Holding(e, n) \subseteq R
    BY <1>2 DEF Holding
  <2>4. Holding(e, n) \in SUBSET DOMAIN d /\ DOMAIN d \subseteq Nat
    BY <2>3, LibraryBounds DEF IsDir
  <2>5. IsFiniteSet(Holding(e, n))
    BY <2>4, FS_Subset DEF IsDir
  <2> QED
    BY <2>1, <2>2, <2>3, <2>4, <2>5, MaxOfFinite
<1>9. ASSUME NEW n \in NamesIn(e) \cup names
      PROVE  VersionIn(h, Max(Holding(h, n)), n) =
               IF n \in names THEN seq[Max(Places(seq, n))].version ELSE Content(e)[n]
  <2>1. CASE n \in names
    BY <1>3, <1>7, <2>1
  <2>2. CASE n \notin names
    <3>1. Content(e)[n] = VersionIn(e, Max(Holding(e, n)), n)
      BY <1>9, <2>2, ContentIs
    <3> QED
      BY <1>3, <1>8, <1>9, <2>2, <3>1
  <2> QED
    BY <2>1, <2>2
<1>10. Content(h) = [n \in NamesIn(e) \cup names |-> VersionIn(h, Max(Holding(h, n)), n)]
  BY <1>5, ContentIs
<1>11. Content(h) = Added(Content(e), d[f].body)
  BY <1>6, <1>9, <1>10
<1> QED
  BY <1>1, <1>11, Zenon

LEMMA ContentOfNothing ==
    ASSUME NEW d
    PROVE  Content(Part(d, {})) = << >>
<1>1. NamesIn(Part(d, {})) = {}
  BY DEF NamesIn, Part
<1> QED
  BY <1>1 DEF Content

-----------------------------------------------------------------------------
(* The loader's cache: its inductive invariant. *)

Entry == [body : Bodies, mtime : 0 .. MaxChanges]
Folders == UNION {[F -> Entry] : F \in SUBSET Files}

\* Since the directory was d, at tick t, no file has come with an old mtime:
\* those that are not as they were are newer than all of d.
Since(d, t) ==
    /\ t <= ticks
    /\ \A f \in DOMAIN d : d[f].mtime <= t
    /\ \A f \in DOMAIN folder :
          (f \in DOMAIN d /\ folder[f] = d[f]) \/ folder[f].mtime > t

\* All files of d are as they were.
Same(d) == \A f \in DOMAIN d : f \in DOMAIN folder /\ folder[f] = d[f]

\* The call under way took its signature when the directory was d, and has read
\* those of its files that are not left, which are the first of them.
Reading(d, t) ==
    /\ IsFiniteSet(DOMAIN d)
    /\ load = [at |-> "reading", sig |-> Signature(d), out |-> load.out, left |-> load.left]
    /\ load.left \subseteq DOMAIN d
    /\ \A f \in DOMAIN d \ load.left, g \in load.left : f < g
    /\ ~backdating => Since(d, t)
    /\ ~backdating /\ Same(d) =>
          /\ load.out = Content(Part(d, DOMAIN d \ load.left))
          /\ \A f \in DOMAIN d \ load.left : d[f].body.ok
    /\ quiet => folder = d

\* What is cached was read from the directory when it was d.
Cached(c, d, t) ==
    /\ IsFiniteSet(DOMAIN d)
    /\ c.sig = Signature(d)
    /\ ~backdated => Since(d, t)
    /\ ~backdated /\ Same(d) => c.out = Content(d) /\ \A f \in DOMAIN d : d[f].body.ok

FolderOK ==
    /\ folder \in Folders /\ IsFiniteSet(DOMAIN folder)
    /\ ticks \in 0 .. MaxChanges
    /\ \A f \in DOMAIN folder : folder[f].mtime <= ticks

LibIInv ==
    /\ FolderOK
    /\ quiet \in BOOLEAN /\ backdated \in BOOLEAN /\ backdating \in BOOLEAN
    /\ quiet => ~backdating
    /\ load # Idle => \E d \in Folders, t \in 0 .. MaxChanges : Reading(d, t)
    /\ \A c \in cache : \E d \in Folders, t \in 0 .. MaxChanges : Cached(c, d, t)
    /\ LoadIsFresh

LEMMA FolderParts ==
    ASSUME NEW d \in Folders
    PROVE  /\ DOMAIN d \subseteq Files /\ DOMAIN d \subseteq Nat
           /\ d \in [DOMAIN d -> Entry] /\ IsFun(d)
           /\ \A f \in DOMAIN d : d[f].body \in Bodies /\ d[f].mtime \in 0 .. MaxChanges
           /\ IsFiniteSet(DOMAIN d) => IsDir(d)
<1>1. PICK F \in SUBSET Files : d \in [F -> Entry]
  BY DEF Folders
<1>2. \A f \in DOMAIN d : d[f] \in Entry
  BY <1>1
<1> QED
  BY <1>1, <1>2, LibraryBounds DEF Entry, IsFun, IsDir

LEMMA FolderIs ==
    ASSUME NEW F, F \subseteq Files, NEW d \in [F -> Entry]
    PROVE  d \in Folders
BY DEF Folders

\* The key of the cache stands for the directory, unless a file came with an
\* old mtime.
LEMMA SameSignature ==
    ASSUME FolderOK, NEW d \in Folders, IsFiniteSet(DOMAIN d), NEW t \in 0 .. MaxChanges,
           Since(d, t), Signature(folder) = Signature(d)
    PROVE  folder = d
<1> DEFINE Times(e) == {e[f].mtime : f \in DOMAIN e} \cup {0}
<1>1. /\ Cardinality(DOMAIN folder) = Cardinality(DOMAIN d)
      /\ Max(Times(folder)) = Max(Times(d))
  <2>1. /\ Signature(folder).count = Cardinality(DOMAIN folder)
        /\ Signature(folder).newest = Max(Times(folder))
    BY DEF Signature
  <2>2. /\ Signature(d).count = Cardinality(DOMAIN d)
        /\ Signature(d).newest = Max(Times(d))
    BY DEF Signature
  <2> QED
    BY <2>1, <2>2
<1>2. ASSUME NEW e \in Folders, NEW n \in Nat, \A f \in DOMAIN e : e[f].mtime <= n
      PROVE  Max(Times(e)) <= n /\ Max(Times(e)) \in Nat /\ \A f \in DOMAIN e : e[f].mtime <= Max(Times(e))
  <2>1. PICK S : S = Times(e)
    OBVIOUS
  <2>2. S \subseteq Nat /\ S # {} /\ \A x \in S : x <= n
    BY <1>2, <2>1, FolderParts, LibraryBounds
  <2>3. Max(S) \in S /\ \A x \in S : x <= Max(S)
    BY <2>2, MaxOfBounded
  <2> QED
    BY <2>1, <2>2, <2>3
<1>3. folder \in Folders /\ ticks \in Nat /\ \A f \in DOMAIN folder : folder[f].mtime <= ticks
  BY LibraryBounds DEF FolderOK
<1>4. t \in Nat /\ \A f \in DOMAIN d : d[f].mtime <= t
  BY DEF Since
<1>5. Max(Times(d)) <= t /\ Max(Times(d)) \in Nat
  BY <1>2, <1>4
<1>6. \A f \in DOMAIN folder : folder[f].mtime <= Max(Times(folder))
  BY <1>2, <1>3
<1>7. PICK m : m = Max(Times(d)) /\ m = Max(Times(folder))
  BY <1>1
<1>8. ASSUME NEW f \in DOMAIN folder
      PROVE  f \in DOMAIN d /\ folder[f] = d[f]
  <2>1. folder[f].mtime <= m /\ m <= t /\ m \in Nat
    BY <1>5, <1>6, <1>7
  <2>2. folder[f].mtime \in Nat
    BY <1>3, FolderParts
  <2> QED
    BY <1>4, <2>1, <2>2 DEF Since
<1>9. DOMAIN folder \in SUBSET DOMAIN d
  BY <1>8
<1>10. DOMAIN folder = DOMAIN d
  BY <1>1, <1>9, FS_Subset
<1>11. IsFun(folder) /\ IsFun(d)
  BY <1>3, FolderParts
<1> QED
  BY <1>8, <1>10, <1>11 DEF IsFun

-----------------------------------------------------------------------------
(* Each step of the loader and of those who change the directory. *)

LEMMA LibInitHolds == LibInit => LibIInv
<1> SUFFICES ASSUME LibInit PROVE LibIInv
  OBVIOUS
<1>1. DOMAIN folder = {} /\ ticks = 0 /\ cache = {} /\ load = Idle /\ quiet = FALSE
      /\ backdated = FALSE /\ backdating = FALSE
  BY DEF LibInit
<1>2. folder \in [{} -> Entry]
  BY DEF LibInit
<1>3. folder \in Folders
  BY <1>2, FolderIs
<1>4. IsFiniteSet(DOMAIN folder)
  BY <1>1, FS_EmptySet
<1>5. FolderOK
  BY <1>1, <1>3, <1>4, LibraryBounds DEF FolderOK
<1> QED
  BY <1>1, <1>5 DEF LibIInv, LoadIsFresh

LEMMA StartLoadKeeps ==
    ASSUME LibIInv, StartLoad
    PROVE  LibIInv'
<1>1. /\ load = Idle /\ quiet' = TRUE /\ backdating' = FALSE
      /\ folder' = folder /\ ticks' = ticks /\ cache' = cache /\ backdated' = backdated
  BY DEF StartLoad
<1>2. FolderOK' /\ FolderOK
  BY <1>1 DEF LibIInv, FolderOK
<1>3. \A c \in cache' : \E d \in Folders, t \in 0 .. MaxChanges : Cached(c, d, t)'
  <2>1. \A c, d, t : Cached(c, d, t) => Cached(c, d, t)'
    BY <1>1 DEF Cached, Since, Same
  <2> QED
    BY <1>1, <2>1 DEF LibIInv
<1>4. CASE \E c \in cache : c.sig = Signature(folder)
  <2>1. PICK c \in cache : c.sig = Signature(folder) /\ answer' = Returns(c.out)
    BY <1>4 DEF StartLoad
  <2>2. load' = Idle
    BY <1>1, <1>4 DEF StartLoad
  <2>3. LoadIsFresh'
    <3> SUFFICES ASSUME ~backdated
                 PROVE  /\ answer'.kind = "returns" => answer'.out = Content(folder)
                        /\ answer'.kind = "raises" <=> \E f \in DOMAIN folder : ~folder[f].body.ok
      BY <1>1 DEF LoadIsFresh
    <3>1. PICK d \in Folders, t \in 0 .. MaxChanges : Cached(c, d, t)
      BY DEF LibIInv
    <3>2. folder = d
      BY <1>2, <2>1, <3>1, SameSignature DEF Cached
    <3>3. Same(d)
      BY <3>2 DEF Same
    <3>4. c.out = Content(folder) /\ \A f \in DOMAIN folder : folder[f].body.ok
      BY <3>1, <3>2, <3>3 DEF Cached
    <3>5. answer'.kind = "returns" /\ answer'.out = c.out
      BY <2>1 DEF Returns
    <3> QED
      BY <3>4, <3>5
  <2> QED
    BY <1>1, <1>2, <1>3, <2>2, <2>3 DEF LibIInv
<1>5. CASE ~ \E c \in cache : c.sig = Signature(folder)
  <2>1. load' = [at |-> "reading", sig |-> Signature(folder), out |-> << >>, left |-> DOMAIN folder]
    BY <1>5 DEF StartLoad
  <2>2. PICK d, t : d = folder /\ t = ticks
    OBVIOUS
  <2>3. /\ load'.left = DOMAIN d /\ load'.out = << >>
        /\ load' = [at |-> "reading", sig |-> Signature(d), out |-> load'.out, left |-> load'.left]
    BY <2>1, <2>2
  <2>4. Part(d, DOMAIN d \ load'.left) = Part(d, {}) /\ DOMAIN d \ load'.left = {}
    BY <2>3
  <2>5. load'.out = Content(Part(d, DOMAIN d \ load'.left))
    BY <2>3, <2>4, ContentOfNothing
  <2>6. Since(d, t)'
    BY <1>1, <1>2, <2>2, LibraryBounds DEF Since, FolderOK
  <2>7. IsFiniteSet(DOMAIN d) /\ d \in Folders /\ t \in 0 .. MaxChanges
    BY <1>2, <2>2 DEF FolderOK
  <2>8. Reading(d, t)'
    BY <1>1, <2>2, <2>3, <2>4, <2>5, <2>6, <2>7 DEF Reading
  <2>9. load' # Idle
    BY <2>1 DEF Idle
  <2> QED
    BY <1>1, <1>2, <1>3, <2>7, <2>8, <2>9 DEF LibIInv, LoadIsFresh
<1> QED
  BY <1>4, <1>5

LEMMA ReadFileKeeps ==
    ASSUME LibIInv, ReadFile
    PROVE  LibIInv'
<1>1. /\ load.at = "reading" /\ load.left # {} /\ load # Idle
      /\ folder' = folder /\ ticks' = ticks /\ cache' = cache
      /\ backdated' = backdated /\ backdating' = backdating /\ quiet' = quiet
  BY DEF ReadFile, Idle
<1>2. FolderOK' /\ FolderOK
  BY <1>1 DEF LibIInv, FolderOK
<1>3. \A c \in cache' : \E d \in Folders, t \in 0 .. MaxChanges : Cached(c, d, t)'
  <2>1. \A c, d, t : Cached(c, d, t) => Cached(c, d, t)'
    BY <1>1 DEF Cached, Since, Same
  <2> QED
    BY <1>1, <2>1 DEF LibIInv
<1>4. PICK d \in Folders, t \in 0 .. MaxChanges : Reading(d, t)
  BY <1>1 DEF LibIInv
<1>5. PICK f : f = Min(load.left)
  OBVIOUS
<1>6. PICK done : done = DOMAIN d \ load.left
  OBVIOUS
<1>7. /\ load.left \subseteq DOMAIN d /\ DOMAIN d \subseteq Nat
      /\ f \in load.left /\ \A g \in load.left : f <= g
      /\ IsDir(d) /\ IsFiniteSet(DOMAIN d)
  <2>1. load.left \subseteq DOMAIN d /\ IsFiniteSet(DOMAIN d)
    BY <1>4 DEF Reading
  <2>2. DOMAIN d \subseteq Nat /\ IsDir(d)
    BY <2>1, FolderParts
  <2>3. f \in load.left /\ \A g \in load.left : f <= g
    BY <1>1, <1>5, <2>1, <2>2, MinOfNats
  <2> QED
    BY <2>1, <2>2, <2>3
<1>8. CASE f \in DOMAIN folder /\ folder[f].body.ok
  <2>1. load' = [load EXCEPT !.out = Added(load.out, folder[f].body), !.left = load.left \ {f}]
    BY <1>5, <1>8 DEF ReadFile
  <2>2. load = [at |-> "reading", sig |-> Signature(d), out |-> load.out, left |-> load.left]
    BY <1>4 DEF Reading
  <2>3. /\ load'.out = Added(load.out, folder[f].body) /\ load'.left = load.left \ {f}
        /\ load' = [at |-> "reading", sig |-> Signature(d), out |-> load'.out, left |-> load'.left]
    <3>1. PICK sig, out, left, new, rest :
            /\ sig = Signature(d) /\ out = load.out /\ left = load.left
            /\ new = Added(load.out, folder[f].body) /\ rest = load.left \ {f}
      OBVIOUS
    <3>2. load' = [load EXCEPT !.out = new, !.left = rest]
      BY <2>1, <3>1
    <3>3. load = [at |-> "reading", sig |-> sig, out |-> out, left |-> left]
      BY <2>2, <3>1
    <3>4. load' = [at |-> "reading", sig |-> sig, out |-> new, left |-> rest]
      BY <3>2, <3>3
    <3> QED
      BY <3>1, <3>4
  <2>4. DOMAIN d \ load'.left = done \cup {f} /\ f \notin done /\ done \subseteq DOMAIN d
    BY <1>6, <1>7, <2>3
  <2>5. /\ load'.left \subseteq DOMAIN d
        /\ \A g \in DOMAIN d \ load'.left, h \in load'.left : g < h
    <3>1. \A g \in done, h \in load.left : g < h
      BY <1>4, <1>6 DEF Reading
    <3>2. \A h \in load.left \ {f} : f < h
      BY <1>7
    <3> QED
      BY <1>7, <2>3, <2>4, <3>1, <3>2
  <2>6. ASSUME ~backdating, Same(d)
        PROVE  /\ load'.out = Content(Part(d, DOMAIN d \ load'.left))
               /\ \A g \in DOMAIN d \ load'.left : d[g].body.ok
    <3>1. load.out = Content(Part(d, done)) /\ \A g \in done : d[g].body.ok
      BY <1>4, <1>6, <2>6 DEF Reading
    <3>2. folder[f] = d[f]
      BY <1>7, <2>6 DEF Same
    <3>3. \A g \in done : g < f
      BY <1>4, <1>6, <1>7 DEF Reading
    <3>4. Content(Part(d, done \cup {f})) = Added(Content(Part(d, done)), d[f].body)
      BY <1>7, <2>4, <3>3, ContentGrows
    <3> QED
      BY <1>8, <2>3, <2>4, <3>1, <3>2, <3>4
  <2>7. (~backdating => Since(d, t)) /\ (quiet => folder = d)
    BY <1>4 DEF Reading
  <2>8. Since(d, t) => Since(d, t)'
    BY <1>1 DEF Since
  <2>9. Same(d)' => Same(d)
    BY <1>1 DEF Same
  <2>10. Reading(d, t)'
    BY <1>1, <1>7, <2>3, <2>5, <2>6, <2>7, <2>8, <2>9 DEF Reading
  <2>11. load' # Idle
    BY <2>3 DEF Idle
  <2> QED
    BY <1>1, <1>2, <1>3, <2>10, <2>11 DEF LibIInv, LoadIsFresh
<1>9. CASE ~ (f \in DOMAIN folder /\ folder[f].body.ok)
  <2>1. load' = Idle /\ answer' = Raises
    BY <1>5, <1>9 DEF ReadFile
  <2>2. quiet => \E g \in DOMAIN folder : ~folder[g].body.ok
    <3>1. quiet => folder = d
      BY <1>4 DEF Reading
    <3> QED
      BY <1>7, <1>9, <3>1
  <2>3. answer'.kind = "raises" /\ answer'.kind # "returns"
    BY <2>1 DEF Raises
  <2> QED
    BY <1>1, <1>2, <1>3, <2>1, <2>2, <2>3 DEF LibIInv, LoadIsFresh
<1> QED
  BY <1>8, <1>9

LEMMA FinishLoadKeeps ==
    ASSUME LibIInv, FinishLoad
    PROVE  LibIInv'
<1>1. /\ load.at = "reading" /\ load.left = {} /\ load # Idle
      /\ cache' = {[sig |-> load.sig, out |-> load.out]}
      /\ answer' = Returns(load.out) /\ load' = Idle /\ backdated' = backdating
      /\ folder' = folder /\ ticks' = ticks /\ backdating' = backdating /\ quiet' = quiet
  BY DEF FinishLoad, Idle
<1>2. FolderOK' /\ FolderOK
  BY <1>1 DEF LibIInv, FolderOK
<1>3. PICK d \in Folders, t \in 0 .. MaxChanges : Reading(d, t)
  BY <1>1 DEF LibIInv
<1>4. Part(d, DOMAIN d \ load.left) = d /\ DOMAIN d \ load.left = DOMAIN d
  BY <1>1, FolderParts DEF Part, IsFun
<1>5. load.sig = Signature(d)
  BY <1>3 DEF Reading
<1>6. ~backdating /\ Same(d) => load.out = Content(d) /\ \A f \in DOMAIN d : d[f].body.ok
  BY <1>3, <1>4 DEF Reading
<1>7. ASSUME NEW c \in cache' PROVE Cached(c, d, t)'
  <2>1. c.sig = Signature(d) /\ c.out = load.out
    BY <1>1, <1>5, <1>7
  <2>2. (~backdating => Since(d, t)) /\ IsFiniteSet(DOMAIN d)
    BY <1>3 DEF Reading
  <2>3. Since(d, t) => Since(d, t)'
    BY <1>1 DEF Since
  <2>4. Same(d)' => Same(d)
    BY <1>1 DEF Same
  <2> QED
    BY <1>1, <1>6, <2>1, <2>2, <2>3, <2>4 DEF Cached
<1>8. LoadIsFresh'
  <2>1. quiet => folder = d /\ ~backdating
    BY <1>3 DEF Reading, LibIInv
  <2>2. folder = d => Same(d)
    BY DEF Same
  <2>3. answer'.kind = "returns" /\ answer'.out = load.out
    BY <1>1 DEF Returns
  <2> QED
    BY <1>1, <1>6, <2>1, <2>2, <2>3 DEF LoadIsFresh
<1> QED
  BY <1>1, <1>2, <1>7, <1>8 DEF LibIInv

\* A file that is written or removed now leaves the directory as it was then
\* changed for good.
LEMMA ChangeKeepsSince ==
    ASSUME FolderOK, NEW d \in Folders, NEW t \in 0 .. MaxChanges, Since(d, t),
           NEW f \in Files,
           (\E b \in Bodies : WriteFile(f, b)) \/ RemoveFile(f)
    PROVE  Since(d, t)' /\ (Same(d)' => Same(d))
<1>1. t \in Nat /\ ticks \in Nat /\ ticks' = ticks + 1 /\ t <= ticks
      /\ \A g \in DOMAIN d : d[g].mtime \in Nat /\ d[g].mtime <= t
  <2>1. t \in Nat /\ ticks \in Nat
    BY LibraryBounds DEF FolderOK
  <2>2. ticks' = ticks + 1
    BY DEF WriteFile, RemoveFile, Changed
  <2>3. t <= ticks /\ \A g \in DOMAIN d : d[g].mtime <= t
    BY DEF Since
  <2>4. \A g \in DOMAIN d : d[g].mtime \in Nat
    BY FolderParts, LibraryBounds
  <2> QED
    BY <2>1, <2>2, <2>3, <2>4
<1>2. CASE \E b \in Bodies : WriteFile(f, b)
  <2>1. PICK b \in Bodies : folder' = With(folder, f, [body |-> b, mtime |-> ticks + 1])
    BY <1>2 DEF WriteFile
  <2>2. /\ DOMAIN folder' = DOMAIN folder \cup {f}
        /\ folder'[f].mtime = ticks + 1
        /\ \A g \in DOMAIN folder : g # f => folder'[g] = folder[g]
    BY <2>1 DEF With
  <2>3. Since(d, t)'
    BY <1>1, <2>2 DEF Since
  <2>4. ASSUME Same(d)' PROVE Same(d)
    <3>1. f \notin DOMAIN d
      <4>1. f \in DOMAIN d => d[f].mtime = ticks + 1
        BY <2>2, <2>4 DEF Same
      <4>2. f \in DOMAIN d => d[f].mtime \in Nat /\ d[f].mtime <= t
        BY <1>1
      <4> QED
        BY <1>1, <4>1, <4>2
    <3> QED
      BY <2>2, <2>4, <3>1 DEF Same
  <2> QED
    BY <2>3, <2>4
<1>3. CASE RemoveFile(f)
  <2>1. /\ DOMAIN folder' = DOMAIN folder \ {f}
        /\ \A g \in DOMAIN folder \ {f} : folder'[g] = folder[g]
    BY <1>3 DEF RemoveFile
  <2>2. Since(d, t)'
    BY <1>1, <2>1 DEF Since
  <2>3. Same(d)' => Same(d)
    BY <2>1 DEF Same
  <2> QED
    BY <2>2, <2>3
<1> QED
  BY <1>2, <1>3

LEMMA ChangeKeepsFolder ==
    ASSUME FolderOK, NEW f \in Files,
           \/ \E b \in Bodies : WriteFile(f, b)
           \/ \E b \in Bodies, t \in 0 .. ticks : RestoreFile(f, b, t)
           \/ RemoveFile(f)
    PROVE  FolderOK'
<1>1. /\ folder \in [DOMAIN folder -> Entry] /\ DOMAIN folder \subseteq Files
      /\ IsFiniteSet(DOMAIN folder)
      /\ ticks \in Nat /\ ticks < MaxChanges /\ ticks' = ticks + 1 /\ MaxChanges \in Nat
      /\ \A g \in DOMAIN folder : folder[g].mtime \in Nat /\ folder[g].mtime <= ticks
  <2>1. folder \in Folders /\ IsFiniteSet(DOMAIN folder) /\ ticks \in 0 .. MaxChanges
        /\ \A g \in DOMAIN folder : folder[g].mtime <= ticks
    BY DEF FolderOK
  <2>2. /\ folder \in [DOMAIN folder -> Entry] /\ DOMAIN folder \subseteq Files
        /\ \A g \in DOMAIN folder : folder[g].mtime \in Nat
    BY <2>1, FolderParts, LibraryBounds
  <2>3. ticks < MaxChanges /\ ticks' = ticks + 1
    BY DEF WriteFile, RestoreFile, RemoveFile, Changed
  <2> QED
    BY <2>1, <2>2, <2>3, LibraryBounds
<1>2. ticks' \in 0 .. MaxChanges
  BY <1>1
<1>3. CASE RemoveFile(f)
  <2>1. folder' = [g \in DOMAIN folder \ {f} |-> folder[g]]
    BY <1>3 DEF RemoveFile
  <2>2. folder' \in [DOMAIN folder \ {f} -> Entry] /\ DOMAIN folder' = DOMAIN folder \ {f}
    BY <1>1, <2>1
  <2>3. folder' \in Folders
    BY <1>1, <2>2, FolderIs
  <2>4. IsFiniteSet(DOMAIN folder')
    BY <1>1, <2>2, FS_RemoveElement
  <2>5. \A g \in DOMAIN folder' : folder'[g].mtime <= ticks'
    BY <1>1, <2>1
  <2> QED
    BY <1>2, <2>3, <2>4, <2>5 DEF FolderOK
<1>4. CASE ~RemoveFile(f)
  <2>1. PICK b \in Bodies, t \in 0 .. ticks + 1 : folder' = With(folder, f, [body |-> b, mtime |-> t])
    <3>1. CASE \E b \in Bodies : WriteFile(f, b)
      <4>1. ticks + 1 \in 0 .. ticks + 1
        BY <1>1
      <4> QED
        BY <3>1, <4>1 DEF WriteFile
    <3>2. CASE \E b \in Bodies, t \in 0 .. ticks : RestoreFile(f, b, t)
      <4>1. PICK b \in Bodies, t \in 0 .. ticks : folder' = With(folder, f, [body |-> b, mtime |-> t])
        BY <3>2 DEF RestoreFile
      <4>2. t \in 0 .. ticks + 1
        BY <1>1
      <4> QED
        BY <4>1, <4>2
    <3> QED
      BY <1>4, <3>1, <3>2
  <2>2. [body |-> b, mtime |-> t] \in Entry
    BY <1>1 DEF Entry
  <2>3. folder' \in [DOMAIN folder \cup {f} -> Entry] /\ DOMAIN folder' = DOMAIN folder \cup {f}
    BY <1>1, <2>1, <2>2 DEF With
  <2>4. folder' \in Folders
    BY <1>1, <2>3, FolderIs
  <2>5. IsFiniteSet(DOMAIN folder')
    BY <1>1, <2>3, FS_AddElement
  <2>6. \A g \in DOMAIN folder' : folder'[g].mtime <= ticks'
    <3>1. ASSUME NEW g \in DOMAIN folder' PROVE folder'[g].mtime <= ticks'
      <4>1. CASE g = f
        <5>1. folder'[g].mtime = t
          BY <2>1, <4>1 DEF With
        <5> QED
          BY <1>1, <5>1
      <4>2. CASE g # f
        <5>1. g \in DOMAIN folder /\ folder'[g] = folder[g]
          BY <2>1, <2>3, <3>1, <4>2 DEF With
        <5> QED
          BY <1>1, <5>1
      <4> QED
        BY <4>1, <4>2
    <3> QED
      BY <3>1
  <2> QED
    BY <1>2, <2>4, <2>5, <2>6 DEF FolderOK
<1> QED
  BY <1>3, <1>4

LEMMA ChangeKeeps ==
    ASSUME LibIInv, NEW f \in Files,
           \/ \E b \in Bodies : WriteFile(f, b)
           \/ \E b \in Bodies, t \in 0 .. ticks : RestoreFile(f, b, t)
           \/ RemoveFile(f)
    PROVE  LibIInv'
<1>1. FolderOK /\ FolderOK'
  BY ChangeKeepsFolder DEF LibIInv
<1>2. /\ quiet' = FALSE /\ cache' = cache /\ load' = load /\ answer' = answer
      /\ backdated' \in BOOLEAN /\ backdating' \in BOOLEAN
      /\ ~backdated' => ~backdated
      /\ ~backdating' => ~backdating
  BY DEF LibIInv, WriteFile, RestoreFile, RemoveFile, Changed
<1>3. ASSUME ~backdated' \/ ~backdating', NEW d \in Folders, NEW t \in 0 .. MaxChanges, Since(d, t)
      PROVE  Since(d, t)' /\ (Same(d)' => Same(d))
  <2>1. (\E b \in Bodies : WriteFile(f, b)) \/ RemoveFile(f)
    BY <1>3 DEF RestoreFile
  <2> QED
    BY <1>1, <1>3, <2>1, ChangeKeepsSince
<1>4. load' # Idle => \E d \in Folders, t \in 0 .. MaxChanges : Reading(d, t)'
  <2> SUFFICES ASSUME load # Idle PROVE \E d \in Folders, t \in 0 .. MaxChanges : Reading(d, t)'
    BY <1>2
  <2>1. PICK d \in Folders, t \in 0 .. MaxChanges : Reading(d, t)
    BY DEF LibIInv
  <2>2. ~backdating' => Since(d, t)
    BY <1>2, <2>1 DEF Reading
  <2>3. ~backdating' => Since(d, t)' /\ (Same(d)' => Same(d))
    BY <1>3, <2>2
  <2>4. Reading(d, t)'
    BY <1>2, <2>1, <2>3 DEF Reading
  <2> QED
    BY <2>4
<1>5. ASSUME NEW c \in cache' PROVE \E d \in Folders, t \in 0 .. MaxChanges : Cached(c, d, t)'
  <2>1. PICK d \in Folders, t \in 0 .. MaxChanges : Cached(c, d, t)
    BY <1>2, <1>5 DEF LibIInv
  <2>2. ~backdated' => Since(d, t)
    BY <1>2, <2>1 DEF Cached
  <2>3. ~backdated' => Since(d, t)' /\ (Same(d)' => Same(d))
    BY <1>3, <2>2
  <2>4. Cached(c, d, t)'
    BY <1>2, <2>1, <2>3 DEF Cached
  <2> QED
    BY <2>4
<1>6. LoadIsFresh'
  BY <1>2 DEF LoadIsFresh
<1> QED
  BY <1>1, <1>2, <1>4, <1>5, <1>6 DEF LibIInv

LEMMA LibStutters == LibIInv /\ UNCHANGED libVars => LibIInv'
BY DEF LibIInv, libVars, FolderOK, Reading, Cached, Since, Same, LoadIsFresh

LEMMA LibNextHolds == LibIInv /\ LibNext => LibIInv'
BY StartLoadKeeps, ReadFileKeeps, FinishLoadKeeps, ChangeKeeps DEF LibNext

-----------------------------------------------------------------------------
(* The theorems about the loader. *)

\* The inductive invariant of load_scenarios_from_dir and its cache, while
\* others write, remove and restore files.
THEOREM LoaderInvariant == LabSpec => []LibIInv
<1>1. LabInit => LibIInv
  BY LibInitHolds DEF LabInit
<1>2. LibIInv /\ [LabNext]_labVars => LibIInv'
  <2> SUFFICES ASSUME LibIInv, [LabNext]_labVars PROVE LibIInv'
    OBVIOUS
  <2>1. LibNext \/ UNCHANGED libVars
    BY DEF LabNext, HostWorks, LibraryWorks, BuilderWorks, MaturityWorks, SmokeWorks, labVars
  <2> QED
    BY <2>1, LibNextHolds, LibStutters
<1> QED
  BY <1>1, <1>2, PTL DEF LabSpec

\* A call of load_scenarios_from_dir during which nothing changes answers what
\* the directory holds, and raises just when a file cannot be loaded, unless a
\* file came with an old mtime since the cached call began.
THEOREM LoadsAreFresh == LabSpec => []LoadIsFresh
<1>1. LibIInv => LoadIsFresh
  BY DEF LibIInv
<1> QED
  BY <1>1, LoaderInvariant, PTL

-----------------------------------------------------------------------------
(* Rounded averages. *)

LEMMA Divided ==
    ASSUME NEW n \in Nat, NEW d \in Nat \ {0}
    PROVE  /\ n \div d \in Nat /\ n % d \in Nat /\ n % d < d
           /\ n = d * (n \div d) + (n % d)
OBVIOUS

LEMMA ProductsKeepOrder ==
    ASSUME NEW x \in Nat, NEW y \in Nat, NEW k \in Nat, x <= y
    PROVE  x * k <= y * k /\ k * x <= k * y
OBVIOUS

\* What round answers, by the quotient and the rest.
LEMMA RoundedIs ==
    ASSUME NEW n \in Nat, NEW d \in Nat \ {0}
    PROVE  \E q \in Nat, r \in Nat :
              /\ n = d * q + r /\ r < d
              /\ Rounded(n, d) = IF 2 * r > d \/ (2 * r = d /\ q % 2 = 1) THEN q + 1 ELSE q
<1>1. PICK q, r : q = n \div d /\ r = n % d
  OBVIOUS
<1>2. q \in Nat /\ r \in Nat /\ n = d * q + r /\ r < d
  BY <1>1, Divided
<1>3. Rounded(n, d) = IF 2 * r > d \/ (2 * r = d /\ q % 2 = 1) THEN q + 1 ELSE q
  BY <1>1 DEF Rounded
<1> QED
  BY <1>2, <1>3

\* A half goes to the even neighbour, so that rounding keeps the order of two
\* fractions, whatever they are fractions of.
LEMMA RoundedKeepsOrder ==
    ASSUME NEW a \in Nat, NEW b \in Nat \ {0}, NEW c \in Nat, NEW d \in Nat \ {0}, a * d <= c * b
    PROVE  Rounded(a, b) \in Nat /\ Rounded(c, d) \in Nat /\ Rounded(a, b) <= Rounded(c, d)
<1>1. PICK q \in Nat, r \in Nat :
              /\ a = b * q + r /\ r < b
              /\ Rounded(a, b) = IF 2 * r > b \/ (2 * r = b /\ q % 2 = 1) THEN q + 1 ELSE q
  BY RoundedIs
<1>2. PICK p \in Nat, s \in Nat :
              /\ c = d * p + s /\ s < d
              /\ Rounded(c, d) = IF 2 * s > d \/ (2 * s = d /\ p % 2 = 1) THEN p + 1 ELSE p
  BY RoundedIs
<1>3. PICK m : m = b * d /\ m \in Nat
  OBVIOUS
<1>4. a * d = m * q + r * d /\ c * b = m * p + s * b
  <2>1. (b * q + r) * d = (b * d) * q + r * d
    OBVIOUS
  <2>2. (d * p + s) * b = (b * d) * p + s * b
    OBVIOUS
  <2> QED
    BY <1>1, <1>2, <1>3, <2>1, <2>2
<1>5. s * b < m
  <2>1. s + 1 <= d /\ s + 1 \in Nat
    BY <1>2
  <2>2. (s + 1) * b <= d * b
    BY <2>1, ProductsKeepOrder
  <2>3. (s + 1) * b = s * b + b /\ d * b = b * d
    OBVIOUS
  <2> QED
    BY <1>3, <2>2, <2>3
<1>6. q <= p
  <2> SUFFICES ASSUME p + 1 <= q PROVE FALSE
    OBVIOUS
  <2>1. (p + 1) * m <= q * m
    BY <1>3, ProductsKeepOrder
  <2>2. (p + 1) * m = m * p + m /\ q * m = m * q
    BY <1>3
  <2>3. PICK u, v, w, z : /\ u = m * p /\ v = m * q /\ w = s * b /\ z = r * d
                          /\ u \in Nat /\ v \in Nat /\ w \in Nat /\ z \in Nat
    BY <1>3
  <2>4. u + m <= v /\ v + z <= u + w /\ w < m
    BY <1>4, <1>5, <2>1, <2>2, <2>3
  <2> QED
    BY <1>3, <2>3, <2>4
<1>7. CASE q < p
  BY <1>1, <1>2, <1>7
<1>8. CASE q = p
  <2>1. r * d <= s * b
    <3>1. PICK u : u = m * p /\ u \in Nat
      BY <1>3
    <3>2. PICK x, y : x = r * d /\ y = s * b /\ x \in Nat /\ y \in Nat
      OBVIOUS
    <3>3. a * d = u + x /\ c * b = u + y
      BY <1>4, <1>8, <3>1, <3>2
    <3> QED
      BY <3>1, <3>2, <3>3
  <2>2. ASSUME 2 * r >= b, 2 * s <= d
        PROVE  2 * r = b /\ 2 * s = d
    <3>1. b * d <= (2 * r) * d /\ (2 * s) * b <= d * b
      BY <2>2, ProductsKeepOrder
    <3>2. PICK x, y : x = r * d /\ y = s * b /\ x \in Nat /\ y \in Nat
      OBVIOUS
    <3>3. (2 * r) * d = 2 * x /\ (2 * s) * b = 2 * y /\ d * b = b * d
      BY <3>2
    <3>4. m <= 2 * x /\ 2 * y <= m /\ x <= y
      BY <1>3, <2>1, <3>1, <3>2, <3>3
    <3>5. (2 * r) * d = b * d /\ (2 * s) * b = d * b
      BY <1>3, <3>2, <3>3, <3>4
    <3>6. \A i, j, k \in Nat : k # 0 /\ i * k = j * k => i = j
      OBVIOUS
    <3> QED
      BY <3>5, <3>6
  <2> QED
    BY <1>1, <1>2, <1>8, <2>2
<1> QED
  BY <1>1, <1>2, <1>6, <1>7, <1>8

-----------------------------------------------------------------------------
(* The score. *)

Scored == [actor : BOOLEAN, tags : SUBSET Tags, platforms : Nat,
           steps : Nat, ruled : Nat, edges : Nat, tactics : Nat]
Counts(s) == s \in Scored /\ s.ruled <= s.steps /\ s.tactics <= s.steps
Proves(e) == e = NoEvidence \/ e \subseteq EvidenceFields

LEMMA LesserOfTwo ==
    ASSUME NEW a \in Nat, NEW b \in Nat
    PROVE  Min({a, b}) = IF a <= b THEN a ELSE b
<1>1. PICK m : m = Min({a, b})
  OBVIOUS
<1>2. m \in {a, b} /\ m <= a /\ m <= b
  <2>1. {a, b} \subseteq Nat /\ {a, b} # {}
    OBVIOUS
  <2> QED
    BY <1>1, <2>1, MinOfNats
<1> QED
  BY <1>1, <1>2

LEMMA PercentIs ==
    ASSUME NEW s, Counts(s)
    PROVE  DetectionPercent(s) \in Nat
<1>1. s.steps \in Nat /\ s.ruled \in Nat
  BY DEF Counts, Scored
<1>2. CASE s.steps = 0
  BY <1>2 DEF DetectionPercent
<1>3. CASE s.steps # 0
  <2>1. 10000 * s.ruled \in Nat /\ (10000 * s.ruled) * s.steps <= (10000 * s.ruled) * s.steps
    BY <1>1
  <2>2. Rounded(10000 * s.ruled, s.steps) \in Nat
    BY <1>1, <1>3, <2>1, RoundedKeepsOrder
  <2> QED
    BY <1>3, <2>2 DEF DetectionPercent
<1> QED
  BY <1>2, <1>3

LEMMA EvidenceIs ==
    ASSUME NEW e, Proves(e)
    PROVE  EvidencePoints(e) \in Nat
BY DEF EvidencePoints, FieldPoints

\* Another field, or an entry where there was none, counts for more.
LEMMA EvidenceCounts ==
    ASSUME NEW e, NEW f, Proves(e), Proves(f), f # NoEvidence, e = NoEvidence \/ e \subseteq f
    PROVE  EvidencePoints(e) <= EvidencePoints(f)
<1>1. CASE e = NoEvidence
  BY <1>1, EvidenceIs DEF EvidencePoints
<1>2. CASE e # NoEvidence
  <2>1. e \subseteq f
    BY <1>2
  <2>2. FieldPoints(e) <= FieldPoints(f)
    BY <2>1 DEF FieldPoints
  <2>3. FieldPoints(e) \in Nat /\ FieldPoints(f) \in Nat
    BY DEF FieldPoints
  <2> QED
    BY <1>2, <2>2, <2>3 DEF EvidencePoints
<1> QED
  BY <1>1, <1>2

LEMMA PointsAre ==
    ASSUME NEW s, NEW e, Counts(s), Proves(e)
    PROVE  Points(s, e) \in Nat
<1>1. PICK a, b, c, d, k, l, p :
        /\ a = (IF s.actor THEN 8 ELSE 0) /\ b = (IF "validated" \in s.tags THEN 12 ELSE 0)
        /\ c = Min({s.steps, 12}) /\ d = Min({s.edges, 12}) /\ k = Min({3 * s.tactics, 18})
        /\ l = EvidencePoints(e) /\ p = (IF s.platforms > 1 THEN 6 ELSE 0)
  OBVIOUS
<1>2. s.steps \in Nat /\ s.edges \in Nat /\ 3 * s.tactics \in Nat
  BY DEF Counts, Scored
<1>3. c \in Nat /\ d \in Nat /\ k \in Nat
  BY <1>1, <1>2, LesserOfTwo
<1>4. a \in Nat /\ b \in Nat /\ p \in Nat
  BY <1>1
<1>5. l \in Nat /\ DetectionPercent(s) \in Nat
  BY <1>1, EvidenceIs, PercentIs
<1>6. Points(s, e) = 10000 * (a + b + c + d + k + l + p) + 18 * DetectionPercent(s)
  BY <1>1 DEF Points
<1> QED
  BY <1>3, <1>4, <1>5, <1>6

\* What is at least as good in everything has at least as many points.
AsGood(s, e, t, f) ==
    /\ s.actor => t.actor
    /\ "validated" \in s.tags => "validated" \in t.tags
    /\ s.steps <= t.steps /\ s.edges <= t.edges /\ s.tactics <= t.tactics
    /\ s.platforms <= t.platforms
    /\ EvidencePoints(e) <= EvidencePoints(f)
    /\ DetectionPercent(s) <= DetectionPercent(t)

LEMMA PointsGrow ==
    ASSUME NEW s, NEW e, NEW t, NEW f, Counts(s), Proves(e), Counts(t), Proves(f), AsGood(s, e, t, f)
    PROVE  Points(s, e) <= Points(t, f)
<1>1. PICK a, b, c, d, k, l, p :
        /\ a = (IF s.actor THEN 8 ELSE 0) /\ b = (IF "validated" \in s.tags THEN 12 ELSE 0)
        /\ c = Min({s.steps, 12}) /\ d = Min({s.edges, 12}) /\ k = Min({3 * s.tactics, 18})
        /\ l = EvidencePoints(e) /\ p = (IF s.platforms > 1 THEN 6 ELSE 0)
  OBVIOUS
<1>2. PICK a2, b2, c2, d2, k2, l2, p2 :
        /\ a2 = (IF t.actor THEN 8 ELSE 0) /\ b2 = (IF "validated" \in t.tags THEN 12 ELSE 0)
        /\ c2 = Min({t.steps, 12}) /\ d2 = Min({t.edges, 12}) /\ k2 = Min({3 * t.tactics, 18})
        /\ l2 = EvidencePoints(f) /\ p2 = (IF t.platforms > 1 THEN 6 ELSE 0)
  OBVIOUS
<1>3. /\ s.steps \in Nat /\ s.edges \in Nat /\ s.tactics \in Nat /\ s.platforms \in Nat
      /\ t.steps \in Nat /\ t.edges \in Nat /\ t.tactics \in Nat /\ t.platforms \in Nat
  BY DEF Counts, Scored
<1>4. /\ c = (IF s.steps <= 12 THEN s.steps ELSE 12) /\ c2 = (IF t.steps <= 12 THEN t.steps ELSE 12)
      /\ d = (IF s.edges <= 12 THEN s.edges ELSE 12) /\ d2 = (IF t.edges <= 12 THEN t.edges ELSE 12)
  BY <1>1, <1>2, <1>3, LesserOfTwo
<1>5. /\ k = (IF 3 * s.tactics <= 18 THEN 3 * s.tactics ELSE 18)
      /\ k2 = (IF 3 * t.tactics <= 18 THEN 3 * t.tactics ELSE 18)
  <2>1. 3 * s.tactics \in Nat /\ 3 * t.tactics \in Nat
    BY <1>3
  <2> QED
    BY <1>1, <1>2, <2>1, LesserOfTwo
<1>6. c <= c2 /\ d <= d2 /\ k <= k2 /\ p <= p2
  <2>1. s.steps <= t.steps /\ s.edges <= t.edges /\ s.tactics <= t.tactics /\ s.platforms <= t.platforms
    BY DEF AsGood
  <2>2. c <= c2 /\ d <= d2
    BY <1>3, <1>4, <2>1
  <2>3. k <= k2
    BY <1>3, <1>5, <2>1
  <2>4. p <= p2
    BY <1>1, <1>2, <1>3, <2>1
  <2> QED
    BY <2>2, <2>3, <2>4
<1>7. a <= a2 /\ b <= b2
  BY <1>1, <1>2 DEF AsGood
<1>8. l <= l2 /\ DetectionPercent(s) <= DetectionPercent(t)
  BY <1>1, <1>2 DEF AsGood
<1>9. /\ {a, b, c, d, k, l, p} \subseteq Nat /\ {a2, b2, c2, d2, k2, l2, p2} \subseteq Nat
      /\ DetectionPercent(s) \in Nat /\ DetectionPercent(t) \in Nat
  <2>1. {c, d, k} \subseteq Nat /\ {c2, d2, k2} \subseteq Nat
    BY <1>3, <1>4, <1>5
  <2>2. {a, b, p} \subseteq Nat /\ {a2, b2, p2} \subseteq Nat
    BY <1>1, <1>2
  <2>3. l \in Nat /\ l2 \in Nat /\ DetectionPercent(s) \in Nat /\ DetectionPercent(t) \in Nat
    BY <1>1, <1>2, EvidenceIs, PercentIs
  <2> QED
    BY <2>1, <2>2, <2>3
<1>10. Points(s, e) = 10000 * (a + b + c + d + k + l + p) + 18 * DetectionPercent(s)
  BY <1>1 DEF Points
<1>11. Points(t, f) = 10000 * (a2 + b2 + c2 + d2 + k2 + l2 + p2) + 18 * DetectionPercent(t)
  BY <1>2 DEF Points
<1>12. a + b + c + d + k + l + p <= a2 + b2 + c2 + d2 + k2 + l2 + p2
  BY <1>6, <1>7, <1>8, <1>9
<1> QED
  BY <1>8, <1>9, <1>10, <1>11, <1>12

\* A kind that is capped is not left for one that is capped lower.
LEMMA ScoreGrows ==
    ASSUME NEW s, NEW e, NEW t, NEW f, Counts(s), Proves(e), Counts(t), Proves(f), AsGood(s, e, t, f),
           Kind(t) = "generated" => Kind(s) = "generated",
           Kind(t) = "emulation" => Kind(s) \in {"generated", "emulation"},
           f = NoEvidence => e = NoEvidence
    PROVE  /\ Score(s, e) \in 0 .. 100 /\ Score(t, f) \in 0 .. 100
           /\ Score(s, e) <= Score(t, f)
<1>1. PICK x, y : x = Points(s, e) /\ y = Points(t, f)
  OBVIOUS
<1>2. x \in Nat /\ y \in Nat /\ x <= y
  BY <1>1, PointsAre, PointsGrow
<1>3. PICK u, v : u = Capped(x, Kind(s), e) /\ v = Capped(y, Kind(t), f)
  OBVIOUS
<1>4. /\ Min({x, 550000}) = (IF x <= 550000 THEN x ELSE 550000)
      /\ Min({y, 550000}) = (IF y <= 550000 THEN y ELSE 550000)
      /\ Min({x, 750000}) = (IF x <= 750000 THEN x ELSE 750000)
      /\ Min({y, 750000}) = (IF y <= 750000 THEN y ELSE 750000)
  BY <1>2, LesserOfTwo
<1>5. u \in Nat /\ v \in Nat /\ u <= v
  BY <1>2, <1>3, <1>4 DEF Capped
<1>6. u * 10000 <= v * 10000
  BY <1>5
<1>7. PICK g, h : g = Rounded(u, 10000) /\ h = Rounded(v, 10000)
  OBVIOUS
<1>8. g \in Nat /\ h \in Nat /\ g <= h
  BY <1>5, <1>6, <1>7, RoundedKeepsOrder
<1>9. Score(s, e) = Min({g, 100}) /\ Score(t, f) = Min({h, 100})
  BY <1>1, <1>3, <1>7 DEF Score
<1>10. Min({g, 100}) = (IF g <= 100 THEN g ELSE 100) /\ Min({h, 100}) = (IF h <= 100 THEN h ELSE 100)
  BY <1>8, LesserOfTwo
<1> QED
  BY <1>8, <1>9, <1>10

LEMMA LabelRises ==
    ASSUME NEW s, NEW e, NEW t, NEW f, Counts(s), Proves(e), Counts(t), Proves(f), AsGood(s, e, t, f),
           Kind(t) = "generated" => Kind(s) = "generated",
           Kind(t) = "emulation" => Kind(s) \in {"generated", "emulation"},
           f = NoEvidence => e = NoEvidence,
           Kind(s) # "generated"
    PROVE  Rank(Label(s, e)) <= Rank(Label(t, f))
<1>1. PICK x, y : x = Score(s, e) /\ y = Score(t, f)
  OBVIOUS
<1>2. x \in Nat /\ y \in Nat /\ x <= y
  BY <1>1, ScoreGrows
<1>3. Kind(t) # "generated"
  OBVIOUS
<1>4. PICK l, m : l = Label(s, e) /\ m = Label(t, f)
  OBVIOUS
<1>5. l = IF x >= 85 /\ e # NoEvidence THEN "fixture-backed"
          ELSE IF x >= 70 THEN "operational"
          ELSE IF x >= 50 THEN "coverage" ELSE "draft"
  BY <1>1, <1>2, <1>4 DEF Label
<1>6. m = IF y >= 85 /\ f # NoEvidence THEN "fixture-backed"
          ELSE IF y >= 70 THEN "operational"
          ELSE IF y >= 50 THEN "coverage" ELSE "draft"
  BY <1>1, <1>2, <1>3, <1>4 DEF Label
<1>7. /\ Rank("draft") = 1 /\ Rank("coverage") = 2
      /\ Rank("operational") = 3 /\ Rank("fixture-backed") = 4
  BY DEF Rank
<1> QED
  BY <1>2, <1>4, <1>5, <1>6, <1>7

-----------------------------------------------------------------------------
(* The improvements. *)

MatIInv ==
    /\ Counts(scen) /\ Proves(proof)
    /\ grown \in [steps : Nat, edges : Nat]

LEMMA MatInitHolds == MatInit => MatIInv
BY DraftsAssumption DEF MatInit, MatIInv, Counts, Scored, Proves

\* More rules for as many steps, or one more of both, cover no less.
LEMMA PercentGrows ==
    ASSUME NEW s, NEW t, Counts(s), Counts(t), s.steps = 0 => s.ruled = 0,
           \/ t.steps = s.steps /\ t.ruled \in {s.ruled, s.ruled + 1}
           \/ t.steps = s.steps + 1 /\ t.ruled = s.ruled + 1
    PROVE  DetectionPercent(s) <= DetectionPercent(t)
<1>1. s.steps \in Nat /\ s.ruled \in Nat /\ t.steps \in Nat /\ t.ruled \in Nat /\ s.ruled <= s.steps
  BY DEF Counts, Scored
<1>2. CASE s.steps = 0
  BY <1>2, PercentIs DEF DetectionPercent
<1>3. CASE s.steps # 0
  <2>1. PICK r, n, r2, n2 : r = s.ruled /\ n = s.steps /\ r2 = t.ruled /\ n2 = t.steps
    OBVIOUS
  <2>2. r \in Nat /\ n \in Nat /\ r2 \in Nat /\ n2 \in Nat /\ n # 0 /\ n2 # 0 /\ r <= n
    BY <1>1, <1>3, <2>1
  <2>3. r * n2 <= r2 * n
    <3>1. CASE n2 = n
      <4>1. r <= r2
        BY <2>1, <2>2, <3>1
      <4> QED
        BY <2>2, <3>1, <4>1, ProductsKeepOrder
    <3>2. CASE n2 = n + 1 /\ r2 = r + 1
      <4>1. r * (n + 1) = r * n + r /\ (r + 1) * n = r * n + n
        BY <2>2
      <4>2. PICK p : p = r * n /\ p \in Nat
        BY <2>2
      <4> QED
        BY <2>2, <3>2, <4>1, <4>2
    <3> QED
      BY <2>1, <2>2, <3>1, <3>2
  <2>4. (10000 * r) * n2 <= (10000 * r2) * n
    <3>1. PICK p, q : p = r * n2 /\ q = r2 * n /\ p \in Nat /\ q \in Nat
      BY <2>2
    <3>2. (10000 * r) * n2 = 10000 * (r * n2) /\ (10000 * r2) * n = 10000 * (r2 * n)
      BY <2>2
    <3> QED
      BY <2>3, <3>1, <3>2
  <2>5. Rounded(10000 * r, n) <= Rounded(10000 * r2, n2)
    BY <2>2, <2>4, RoundedKeepsOrder
  <2> QED
    BY <2>1, <2>2, <2>5 DEF DetectionPercent
<1> QED
  BY <1>2, <1>3

\* What an improvement makes of a scenario.
Improved(s, t) ==
    /\ s.actor => t.actor
    /\ t.tags \in {s.tags, s.tags \cup {"validated"}}
    /\ \/ t.steps = s.steps /\ t.ruled \in {s.ruled, s.ruled + 1}
       \/ t.steps = s.steps + 1 /\ t.ruled = s.ruled + 1
    /\ s.edges <= t.edges /\ s.tactics <= t.tactics /\ s.platforms <= t.platforms

LEMMA ImprovedIsAsGood ==
    ASSUME NEW s, NEW e, NEW t, NEW f, Counts(s), Proves(e), Counts(t), Proves(f),
           Improved(s, t), f = e \/ (f # NoEvidence /\ (e = NoEvidence \/ e \subseteq f))
    PROVE  /\ AsGood(s, e, t, f)
           /\ Kind(t) = "generated" => Kind(s) = "generated"
           /\ Kind(t) = "emulation" => Kind(s) \in {"generated", "emulation"}
           /\ f = NoEvidence => e = NoEvidence
<1>1. s.steps \in Nat /\ s.ruled \in Nat /\ s.ruled <= s.steps /\ t.steps \in Nat
  BY DEF Counts, Scored
<1>2. s.steps <= t.steps
  BY <1>1 DEF Improved
<1>3. DetectionPercent(s) <= DetectionPercent(t)
  BY <1>1, PercentGrows DEF Improved
<1>4. EvidencePoints(e) <= EvidencePoints(f)
  <2>1. CASE f = e
    BY <2>1, EvidenceIs
  <2>2. CASE f # e
    BY <2>2, EvidenceCounts
  <2> QED
    BY <2>1, <2>2
<1>5. "validated" \in s.tags => "validated" \in t.tags
  BY DEF Improved
<1>6. AsGood(s, e, t, f)
  BY <1>2, <1>3, <1>4, <1>5 DEF Improved, AsGood
<1>7. /\ Kind(t) = "generated" => Kind(s) = "generated"
      /\ Kind(t) = "emulation" => Kind(s) \in {"generated", "emulation"}
  <2>1. CASE t.tags = s.tags
    BY <2>1 DEF Kind
  <2>2. CASE t.tags = s.tags \cup {"validated"}
    BY <2>2 DEF Kind
  <2> QED
    BY <2>1, <2>2 DEF Improved
<1> QED
  BY <1>6, <1>7

LEMMA MatStep ==
    MatIInv /\ MatNext =>
        /\ MatIInv'
        /\ Improved(scen, scen')
        /\ proof' = proof \/ (proof' # NoEvidence /\ (proof = NoEvidence \/ proof \subseteq proof'))
<1> SUFFICES ASSUME MatIInv, MatNext
             PROVE  /\ MatIInv'
                    /\ Improved(scen, scen')
                    /\ \/ proof' = proof
                       \/ proof' # NoEvidence /\ (proof = NoEvidence \/ proof \subseteq proof')
  OBVIOUS
<1>1. PICK a, g, p, n, r, d, c :
         /\ scen = [actor |-> a, tags |-> g, platforms |-> p, steps |-> n, ruled |-> r,
                    edges |-> d, tactics |-> c]
         /\ a \in BOOLEAN /\ g \in SUBSET Tags /\ p \in Nat /\ n \in Nat /\ r \in Nat /\ d \in Nat /\ c \in Nat
         /\ r <= n /\ c <= n
  BY DEF MatIInv, Counts, Scored
<1>2. PICK i, j : grown = [steps |-> i, edges |-> j] /\ i \in Nat /\ j \in Nat
  BY DEF MatIInv
<1>3. Proves(proof)
  BY DEF MatIInv
<1>4. CASE AddRuledStep
  <2>1. PICK new \in {0, 1} :
           scen' = [scen EXCEPT !.steps = @ + 1, !.ruled = @ + 1, !.tactics = @ + new]
    BY <1>4 DEF AddRuledStep
  <2>2. scen' = [actor |-> a, tags |-> g, platforms |-> p, steps |-> n + 1, ruled |-> r + 1,
                 edges |-> d, tactics |-> c + new]
    BY <1>1, <2>1
  <2>3. grown' = [steps |-> i + 1, edges |-> j] /\ proof' = proof
    BY <1>2, <1>4 DEF AddRuledStep
  <2>4. n + 1 \in Nat /\ r + 1 \in Nat /\ c + new \in Nat /\ r + 1 <= n + 1 /\ c + new <= n + 1
    BY <1>1
  <2>5. Counts(scen') /\ Improved(scen, scen')
    BY <1>1, <2>2, <2>4 DEF Counts, Scored, Improved
  <2> QED
    BY <1>2, <1>3, <2>3, <2>5 DEF MatIInv
<1>5. CASE AddRule
  <2>1. scen' = [actor |-> a, tags |-> g, platforms |-> p, steps |-> n, ruled |-> r + 1,
                 edges |-> d, tactics |-> c]
    BY <1>1, <1>5 DEF AddRule
  <2>2. r + 1 \in Nat /\ r + 1 <= n
    BY <1>1, <1>5 DEF AddRule
  <2>3. Counts(scen') /\ Improved(scen, scen')
    BY <1>1, <2>1, <2>2 DEF Counts, Scored, Improved
  <2> QED
    BY <1>2, <1>3, <1>5, <2>3 DEF MatIInv, AddRule
<1>6. CASE AddEdge
  <2>1. scen' = [actor |-> a, tags |-> g, platforms |-> p, steps |-> n, ruled |-> r,
                 edges |-> d + 1, tactics |-> c]
    BY <1>1, <1>6 DEF AddEdge
  <2>2. grown' = [steps |-> i, edges |-> j + 1] /\ proof' = proof
    BY <1>2, <1>6 DEF AddEdge
  <2>3. Counts(scen') /\ Improved(scen, scen')
    BY <1>1, <2>1 DEF Counts, Scored, Improved
  <2> QED
    BY <1>2, <1>3, <2>2, <2>3 DEF MatIInv
<1>7. CASE AddPlatform
  <2>1. scen' = [actor |-> a, tags |-> g, platforms |-> p + 1, steps |-> n, ruled |-> r,
                 edges |-> d, tactics |-> c]
    BY <1>1, <1>7 DEF AddPlatform
  <2>2. Counts(scen') /\ Improved(scen, scen')
    BY <1>1, <2>1 DEF Counts, Scored, Improved
  <2> QED
    BY <1>2, <1>3, <1>7, <2>2 DEF MatIInv, AddPlatform
<1>8. CASE NameActor
  <2>1. scen' = [actor |-> TRUE, tags |-> g, platforms |-> p, steps |-> n, ruled |-> r,
                 edges |-> d, tactics |-> c]
    BY <1>1, <1>8 DEF NameActor
  <2>2. Counts(scen') /\ Improved(scen, scen')
    BY <1>1, <2>1 DEF Counts, Scored, Improved
  <2> QED
    BY <1>2, <1>3, <1>8, <2>2 DEF MatIInv, NameActor
<1>9. CASE MarkValidated
  <2>1. scen' = [actor |-> a, tags |-> g \cup {"validated"}, platforms |-> p, steps |-> n, ruled |-> r,
                 edges |-> d, tactics |-> c]
    BY <1>1, <1>9 DEF MarkValidated
  <2>2. g \cup {"validated"} \in SUBSET Tags
    BY <1>1 DEF Tags
  <2>3. Counts(scen') /\ Improved(scen, scen')
    BY <1>1, <2>1, <2>2 DEF Counts, Scored, Improved
  <2> QED
    BY <1>2, <1>3, <1>9, <2>3 DEF MatIInv, MarkValidated
<1>10. CASE AddEvidence
  <2>1. scen' = scen /\ grown' = grown
    BY <1>10 DEF AddEvidence
  <2>2. Counts(scen') /\ Improved(scen, scen')
    BY <1>1, <2>1 DEF MatIInv, Improved
  <2>3. proof' \subseteq EvidenceFields /\ (proof = NoEvidence \/ proof \subseteq proof')
    BY <1>3, <1>10 DEF AddEvidence, Proves
  <2>4. proof' # NoEvidence
    BY <2>3 DEF NoEvidence, EvidenceFields
  <2>5. Proves(proof')
    BY <2>3 DEF Proves
  <2> QED
    BY <1>2, <2>1, <2>2, <2>3, <2>4, <2>5 DEF MatIInv
<1> QED
  BY <1>4, <1>5, <1>6, <1>7, <1>8, <1>9, <1>10 DEF MatNext

LEMMA MatStutters == MatIInv /\ UNCHANGED matVars => MatIInv'
BY DEF MatIInv, matVars

LEMMA MatStepNeverDrops ==
    MatIInv /\ MatNext =>
        (<<scen, proof>>' # <<scen, proof>> =>
         /\ Score(scen, proof)' >= Score(scen, proof)
         /\ Kind(scen) # "generated" =>
              Rank(Label(scen, proof)') >= Rank(Label(scen, proof)))
<1> SUFFICES ASSUME MatIInv, MatNext
             PROVE  /\ Score(scen, proof)' >= Score(scen, proof)
                    /\ Kind(scen) # "generated" =>
                         Rank(Label(scen, proof)') >= Rank(Label(scen, proof))
  OBVIOUS
<1>1. PICK s, e, t, f : s = scen /\ e = proof /\ t = scen' /\ f = proof'
  OBVIOUS
<1>2. /\ Counts(s) /\ Proves(e) /\ Counts(t) /\ Proves(f) /\ Improved(s, t)
      /\ f = e \/ (f # NoEvidence /\ (e = NoEvidence \/ e \subseteq f))
  BY <1>1, MatStep DEF MatIInv
<1>3. /\ AsGood(s, e, t, f)
      /\ Kind(t) = "generated" => Kind(s) = "generated"
      /\ Kind(t) = "emulation" => Kind(s) \in {"generated", "emulation"}
      /\ f = NoEvidence => e = NoEvidence
  BY <1>2, ImprovedIsAsGood
<1>4. Score(s, e) \in Int /\ Score(t, f) \in Int /\ Score(s, e) <= Score(t, f)
  BY <1>2, <1>3, ScoreGrows
<1>5. Kind(s) # "generated" => Rank(Label(s, e)) <= Rank(Label(t, f))
  BY <1>2, <1>3, LabelRises
<1> QED
  BY <1>1, <1>4, <1>5

-----------------------------------------------------------------------------
(* The theorems about the maturity of a scenario. *)

\* What is scored keeps its shape: no more rules than steps, no evidence but
\* of the fields there are.
THEOREM MaturityInvariant == LabSpec => []MatIInv
<1>1. LabInit => MatIInv
  BY MatInitHolds DEF LabInit
<1>2. MatIInv /\ [LabNext]_labVars => MatIInv'
  <2> SUFFICES ASSUME MatIInv, [LabNext]_labVars PROVE MatIInv'
    OBVIOUS
  <2>1. MatNext \/ UNCHANGED matVars
    BY DEF LabNext, HostWorks, LibraryWorks, BuilderWorks, MaturityWorks, SmokeWorks, labVars
  <2> QED
    BY <2>1, MatStep, MatStutters
<1> QED
  BY <1>1, <1>2, PTL DEF LabSpec

\* No improvement of a scenario, its techniques or its evidence lowers the
\* score of _score_scenario, nor the label unless it is a generated variant:
\* whatever its counts are, the two roundings and the caps by kind keep their
\* order.
THEOREM MaturityOnlyRises == LabSpec => MaturityNeverDrops
<1>1. MatIInv /\ [LabNext]_labVars =>
        [<<scen, proof>>' # <<scen, proof>> =>
           /\ Score(scen, proof)' >= Score(scen, proof)
           /\ Kind(scen) # "generated" =>
                Rank(Label(scen, proof)') >= Rank(Label(scen, proof))]_matVars
  <2> SUFFICES ASSUME MatIInv, [LabNext]_labVars
               PROVE  [<<scen, proof>>' # <<scen, proof>> =>
                         /\ Score(scen, proof)' >= Score(scen, proof)
                         /\ Kind(scen) # "generated" =>
                              Rank(Label(scen, proof)') >= Rank(Label(scen, proof))]_matVars
    OBVIOUS
  <2>1. MatNext \/ UNCHANGED matVars
    BY DEF LabNext, HostWorks, LibraryWorks, BuilderWorks, MaturityWorks, SmokeWorks, labVars
  <2>2. CASE MatNext
    BY <2>2, MatStepNeverDrops, Zenon
  <2> QED
    BY <2>1, <2>2
<1> QED
  BY <1>1, MaturityInvariant, PTL DEF LabSpec, MaturityNeverDrops
-----------------------------------------------------------------------------
(* platform_sets: the combinations in their order. *)

PlatformChoices == (SUBSET (1 .. Len(PlatformPool))) \ {{}}

\* An element of s alone before all those of t alone.
Decides(i, s, t) == i \in s \ t /\ \A j \in t \ s : i < j

\* Up to the least number that one of them has alone, two sets agree.
LEMMA FirstDifference ==
    ASSUME NEW s, NEW t, s \subseteq Nat, t \subseteq Nat, NEW i, Decides(i, s, t)
    PROVE  \E m : Decides(m, s, t) /\ \A x \in Nat : x < m => (x \in s <=> x \in t)
<1>0. i \in s \ t /\ \A j \in t \ s : i < j
  BY DEF Decides
<1>1. s \ t # {} /\ s \ t \subseteq Nat
  BY <1>0
<1>2. PICK m \in s \ t : \A k \in s \ t : m <= k
  BY <1>1, SmallestNat
<1>3. m \in Nat /\ i \in Nat /\ m <= i
  BY <1>0, <1>2
<1>4. \A j \in t \ s : m < j
  <2> SUFFICES ASSUME NEW j \in t \ s PROVE m < j
    OBVIOUS
  <2>1. i < j /\ j \in Nat
    BY <1>0
  <2> QED
    BY <1>3, <2>1
<1>5. ASSUME NEW x \in Nat, x < m PROVE x \in s <=> x \in t
  <2>1. x \in s \ t => FALSE
    <3> SUFFICES ASSUME x \in s \ t PROVE FALSE
      OBVIOUS
    <3>1. m <= x
      BY <1>2
    <3> QED
      BY <1>3, <1>5, <3>1
  <2>2. x \in t \ s => FALSE
    <3> SUFFICES ASSUME x \in t \ s PROVE FALSE
      OBVIOUS
    <3>1. m < x
      BY <1>4
    <3> QED
      BY <1>3, <1>5, <3>1
  <2> QED
    BY <2>1, <2>2
<1> QED
  BY <1>2, <1>4, <1>5 DEF Decides

LEMMA ShorterIsOrder ==
    ASSUME NEW s, NEW t, NEW u, s \subseteq Nat, t \subseteq Nat, u \subseteq Nat,
           Cardinality(s) \in Nat, Cardinality(t) \in Nat, Cardinality(u) \in Nat
    PROVE  /\ ~Shorter(s, s)
           /\ s = t \/ Shorter(s, t) \/ Shorter(t, s)
           /\ Shorter(s, t) /\ Shorter(t, u) => Shorter(s, u)
<1>1. ~Shorter(s, s)
  BY DEF Shorter
<1>2. s = t \/ Shorter(s, t) \/ Shorter(t, s)
  <2> SUFFICES ASSUME s # t, Cardinality(s) = Cardinality(t)
               PROVE  Shorter(s, t) \/ Shorter(t, s)
    BY DEF Shorter
  <2>1. (s \ t) \cup (t \ s) # {} /\ (s \ t) \cup (t \ s) \subseteq Nat
    OBVIOUS
  <2>2. PICK m \in (s \ t) \cup (t \ s) : \A k \in (s \ t) \cup (t \ s) : m <= k
    BY <2>1, SmallestNat
  <2>3. CASE m \in s \ t
    <3>1. ASSUME NEW j \in t \ s PROVE m < j
      <4>1. m <= j /\ m # j /\ m \in Nat /\ j \in Nat
        BY <2>2, <2>3
      <4> QED
        BY <4>1
    <3> QED
      BY <2>3, <3>1 DEF Shorter
  <2>4. CASE m \in t \ s
    <3>1. ASSUME NEW j \in s \ t PROVE m < j
      <4>1. m <= j /\ m # j /\ m \in Nat /\ j \in Nat
        BY <2>2, <2>4
      <4> QED
        BY <4>1
    <3> QED
      BY <2>4, <3>1 DEF Shorter
  <2> QED
    BY <2>2, <2>3, <2>4
<1>3. ASSUME Shorter(s, t), Shorter(t, u) PROVE Shorter(s, u)
  <2>1. CASE Cardinality(s) < Cardinality(u)
    BY <2>1 DEF Shorter
  <2>2. CASE ~(Cardinality(s) < Cardinality(u))
    <3>1. PICK a, b, c : a = Cardinality(s) /\ b = Cardinality(t) /\ c = Cardinality(u)
      OBVIOUS
    <3>2. a <= b /\ b <= c /\ ~(a < c) /\ a \in Nat /\ b \in Nat /\ c \in Nat
      BY <1>3, <2>2, <3>1 DEF Shorter
    <3>3. a = b /\ b = c
      BY <3>2
    <3>4. (\E i : Decides(i, s, t)) /\ (\E i : Decides(i, t, u))
      BY <1>3, <3>1, <3>2, <3>3 DEF Shorter, Decides
    <3>5. PICK i : Decides(i, s, t) /\ \A x \in Nat : x < i => (x \in s <=> x \in t)
      BY <3>4, FirstDifference
    <3>6. PICK k : Decides(k, t, u) /\ \A x \in Nat : x < k => (x \in t <=> x \in u)
      BY <3>4, FirstDifference
    <3>7. i \in Nat /\ k \in Nat /\ i # k /\ i \in s \ t /\ k \in t \ u
      BY <3>5, <3>6 DEF Decides
    <3>8. CASE i < k
      <4>1. i \in s \ u
        BY <3>5, <3>6, <3>7, <3>8
      <4>2. ASSUME NEW j \in u \ s PROVE i < j
        <5>1. j \in Nat /\ (j < i => (j \in s <=> j \in t)) /\ (j < k => (j \in t <=> j \in u))
          BY <3>5, <3>6
        <5>2. ~(j < i)
          BY <3>7, <3>8, <5>1
        <5> QED
          BY <3>7, <4>1, <5>1, <5>2
      <4> QED
        BY <3>1, <3>3, <4>1, <4>2 DEF Shorter
    <3>9. CASE k < i
      <4>1. k \in s \ u
        BY <3>5, <3>6, <3>7, <3>9
      <4>2. ASSUME NEW j \in u \ s PROVE k < j
        <5>1. j \in Nat /\ (j < i => (j \in s <=> j \in t)) /\ (j < k => (j \in t <=> j \in u))
          BY <3>5, <3>6
        <5>2. ~(j < k)
          BY <3>7, <3>9, <5>1
        <5> QED
          BY <3>7, <4>1, <5>1, <5>2
      <4> QED
        BY <3>1, <3>3, <4>1, <4>2 DEF Shorter
    <3> QED
      BY <3>7, <3>8, <3>9
  <2> QED
    BY <2>1, <2>2
<1> QED
  BY <1>1, <1>2, <1>3

LEMMA ChoicesAreFinite ==
    /\ IsFiniteSet(PlatformChoices) /\ Cardinality(PlatformChoices) \in Nat \ {0}
    /\ \A s \in PlatformChoices : s \subseteq Nat /\ Cardinality(s) \in Nat
<1>1. PICK n : n = Len(PlatformPool)
  OBVIOUS
<1>2. n \in Nat /\ n # 0
  BY <1>1, ChoicesAssumption, LenProperties
<1>3. IsFiniteSet(1 .. n)
  <2>1. 1 \in Int /\ n \in Int
    BY <1>2
  <2> QED
    BY <2>1, FS_Interval
<1>4. PlatformChoices = (SUBSET (1 .. n)) \ {{}}
  BY <1>1 DEF PlatformChoices
<1>5. IsFiniteSet(PlatformChoices)
  <2>1. IsFiniteSet(SUBSET (1 .. n))
    BY <1>3, FS_SUBSET
  <2>2. PlatformChoices \in SUBSET (SUBSET (1 .. n))
    BY <1>4
  <2> QED
    BY <2>1, <2>2, FS_Subset
<1>6. PlatformChoices # {}
  <2>1. 1 \in 1 .. n
    BY <1>2
  <2>2. PICK one : one = {1}
    OBVIOUS
  <2>3. one \in SUBSET (1 .. n) /\ one # {}
    BY <2>1, <2>2
  <2> QED
    BY <1>4, <2>3
<1>7. Cardinality(PlatformChoices) \in Nat /\ Cardinality(PlatformChoices) # 0
  BY <1>5, <1>6, FS_CardinalityType, FS_EmptySet
<1>8. ASSUME NEW s \in PlatformChoices PROVE s \subseteq Nat /\ Cardinality(s) \in Nat
  <2>1. s \in SUBSET (1 .. n)
    BY <1>4
  <2>2. IsFiniteSet(s)
    BY <1>3, <2>1, FS_Subset
  <2> QED
    BY <1>2, <2>1, <2>2, FS_CardinalityType
<1> QED
  BY <1>5, <1>7, <1>8

Earlier(s) == {t \in PlatformChoices : Shorter(t, s)}

\* Each place of the order is taken.
LEMMA PlacesAreTaken ==
    ASSUME NEW n \in 1 .. Cardinality(PlatformChoices)
    PROVE  \E s \in PlatformChoices : Cardinality(Earlier(s)) = n - 1
<1>1. PICK all, size : all = PlatformChoices /\ size = Cardinality(all)
  OBVIOUS
<1>2. IsFiniteSet(all) /\ size \in Nat \ {0} /\ n \in 1 .. size
  BY <1>1, ChoicesAreFinite
<1>3. \A s \in all : Earlier(s) \in SUBSET all /\ IsFiniteSet(Earlier(s)) /\ Cardinality(Earlier(s)) \in Nat
  <2> SUFFICES ASSUME NEW s \in all
               PROVE  Earlier(s) \in SUBSET all /\ IsFiniteSet(Earlier(s)) /\ Cardinality(Earlier(s)) \in Nat
    OBVIOUS
  <2>1. Earlier(s) \in SUBSET all
    BY <1>1 DEF Earlier
  <2> QED
    BY <1>2, <2>1, FS_Subset, FS_CardinalityType
<1>4. ASSUME NEW s \in all, NEW t \in all, Shorter(s, t)
      PROVE  Cardinality(Earlier(s)) < Cardinality(Earlier(t))
  <2>a. \A u \in all : u \subseteq Nat /\ Cardinality(u) \in Nat
    BY <1>1, ChoicesAreFinite
  <2>1. Earlier(s) \subseteq Earlier(t)
    <3> SUFFICES ASSUME NEW u \in all, Shorter(u, s) PROVE Shorter(u, t)
      BY <1>1 DEF Earlier
    <3> QED
      BY <1>4, <2>a, ShorterIsOrder
  <2>2. s \in Earlier(t) /\ s \notin Earlier(s)
    <3>1. ~Shorter(s, s)
      BY <2>a, ShorterIsOrder
    <3> QED
      BY <1>1, <1>4, <3>1 DEF Earlier
  <2>3. PICK e, f : e = Earlier(s) /\ f = Earlier(t)
    OBVIOUS
  <2>4. IsFiniteSet(f) /\ e \in SUBSET f /\ e # f
    BY <1>3, <2>1, <2>2, <2>3
  <2>5. Cardinality(e) <= Cardinality(f) /\ Cardinality(f) # Cardinality(e)
    BY <2>4, FS_Subset
  <2>6. Cardinality(e) \in Nat /\ Cardinality(f) \in Nat
    BY <1>3, <2>3
  <2> QED
    BY <2>3, <2>5, <2>6
<1>5. ASSUME NEW s \in all PROVE Cardinality(Earlier(s)) \in 0 .. size - 1
  <2>1. s \notin Earlier(s)
    BY <1>1, ChoicesAreFinite, ShorterIsOrder DEF Earlier
  <2>2. PICK e : e = Earlier(s)
    OBVIOUS
  <2>3. e \in SUBSET all /\ e # all
    BY <1>3, <2>1, <2>2
  <2>4. Cardinality(e) <= size /\ size # Cardinality(e)
    BY <1>1, <1>2, <2>3, FS_Subset
  <2>5. Cardinality(e) \in Nat
    BY <1>3, <2>2
  <2> QED
    BY <1>2, <2>2, <2>4, <2>5
<1>6. PICK f : f = [s \in all |-> Cardinality(Earlier(s))]
  OBVIOUS
<1>7. PICK T : T = 0 .. size - 1
  OBVIOUS
<1>8. IsFiniteSet(T) /\ Cardinality(T) = size
  <2>1. 0 \in Int /\ size - 1 \in Int /\ ~(0 > size - 1)
    BY <1>2
  <2>2. IsFiniteSet(T) /\ Cardinality(T) = (size - 1) - 0 + 1
    BY <1>7, <2>1, FS_Interval
  <2> QED
    BY <1>2, <2>2
<1>9. f \in Injection(all, T)
  <2>1. f \in [all -> T]
    BY <1>5, <1>6, <1>7
  <2>2. ASSUME NEW s \in all, NEW t \in all, f[s] = f[t] PROVE s = t
    <3>1. s = t \/ Shorter(s, t) \/ Shorter(t, s)
      BY <1>1, ChoicesAreFinite, ShorterIsOrder
    <3>2. ~Shorter(s, t) /\ ~Shorter(t, s)
      <4>1. Cardinality(Earlier(s)) = Cardinality(Earlier(t))
        BY <1>6, <2>2
      <4>2. Cardinality(Earlier(s)) \in Nat /\ Cardinality(Earlier(t)) \in Nat
        BY <1>3
      <4>3. ~(Cardinality(Earlier(s)) < Cardinality(Earlier(t)))
        BY <4>1, <4>2
      <4>4. ~(Cardinality(Earlier(t)) < Cardinality(Earlier(s)))
        BY <4>1, <4>2
      <4> QED
        BY <1>4, <4>3, <4>4
    <3> QED
      BY <3>1, <3>2
  <2> QED
    BY <2>1, <2>2 DEF Injection, IsInjective
<1>10. f \in Surjection(all, T)
  BY <1>1, <1>8, <1>9, FS_Injection
<1>11. n - 1 \in T
  BY <1>2, <1>7
<1>12. PICK s \in all : f[s] = n - 1
  BY <1>10, <1>11 DEF Surjection
<1> QED
  BY <1>1, <1>6, <1>12

\* platform_sets is a list of all combinations without repetition.
LEMMA PlatformSetsAre ==
    /\ PlatformSets \in Seq(PlatformChoices)
    /\ Len(PlatformSets) = Cardinality(PlatformChoices) /\ Len(PlatformSets) \in Nat \ {0}
    /\ IsInjective(PlatformSets)
<1>1. PICK size : size = Cardinality(PlatformChoices) /\ size \in Nat \ {0}
  BY ChoicesAreFinite
<1>2. PlatformSets =
        [n \in 1 .. size |-> CHOOSE s \in PlatformChoices : Cardinality(Earlier(s)) = n - 1]
  BY <1>1 DEF PlatformSets, PlatformChoices, Earlier
<1>3. PICK p : p = PlatformSets
  OBVIOUS
<1>4. ASSUME NEW n \in 1 .. size
      PROVE  p[n] \in PlatformChoices /\ Cardinality(Earlier(p[n])) = n - 1
  <2>1. p[n] = CHOOSE s \in PlatformChoices : Cardinality(Earlier(s)) = n - 1
    BY <1>2, <1>3
  <2>2. \E s \in PlatformChoices : Cardinality(Earlier(s)) = n - 1
    BY <1>1, PlacesAreTaken
  <2> QED
    BY <2>1, <2>2, Zenon
<1>5. DOMAIN p = 1 .. size /\ p \in [1 .. size -> PlatformChoices]
  BY <1>2, <1>3, <1>4
<1>6. p \in Seq(PlatformChoices) /\ Len(p) = size
  <2>1. p \in Seq(PlatformChoices)
    BY <1>1, <1>5, SeqDef
  <2> QED
    BY <1>1, <1>5, <2>1, LenProperties
<1>7. IsInjective(p)
  <2>1. ASSUME NEW i \in 1 .. size, NEW j \in 1 .. size, p[i] = p[j] PROVE i = j
    <3>1. i - 1 = j - 1
      BY <1>4, <2>1
    <3> QED
      BY <1>1, <3>1
  <2> QED
    BY <1>5, <2>1 DEF IsInjective
<1> QED
  BY <1>1, <1>3, <1>6, <1>7
-----------------------------------------------------------------------------
(* The variant space: an index is a number whose digits are the choices. *)

\* A number below n times d is below n when d is divided out.
LEMMA DigitDividedOut ==
    ASSUME NEW x \in Nat, NEW d \in Nat \ {0}, NEW n \in Nat, x < d * n
    PROVE  x \div d < n
<1>0. PICK q, r : q = x \div d /\ r = x % d
  OBVIOUS
<1>1. q = x \div d /\ q \in Nat /\ r \in Nat /\ r < d /\ x = d * q + r
  BY <1>0, Divided
<1> SUFFICES ASSUME n <= q PROVE FALSE
  BY <1>1
<1>2. d * n <= d * q
  BY <1>1, ProductsKeepOrder
<1>3. PICK u, v : u = d * n /\ v = d * q /\ u \in Nat /\ v \in Nat
  BY <1>1
<1> QED
  BY <1>1, <1>2, <1>3

LEMMA SameDigits ==
    ASSUME NEW x \in Nat, NEW y \in Nat, NEW d \in Nat \ {0}, x % d = y % d, x \div d = y \div d
    PROVE  x = y
BY Divided

\* The five digits of an index.
Quotient(x, n) ==
    IF n = 1 THEN x \div Len(PlatformSets)
    ELSE IF n = 2 THEN (x \div Len(PlatformSets)) \div SeedValues
    ELSE IF n = 3 THEN ((x \div Len(PlatformSets)) \div SeedValues) \div MaxSteps
    ELSE (((x \div Len(PlatformSets)) \div SeedValues) \div MaxSteps) \div Len(Difficulties)

LEMMA TableSizes ==
    /\ Len(PlatformSets) \in Nat \ {0} /\ SeedValues \in Nat \ {0} /\ MaxSteps \in Nat \ {0}
    /\ Len(Difficulties) \in Nat \ {0} /\ Len(ActorPacks) \in Nat \ {0}
<1>1. Len(PlatformSets) \in Nat \ {0}
  BY PlatformSetsAre
<1>2. SeedValues \in Nat \ {0} /\ MaxSteps \in Nat \ {0}
  BY BuilderBounds DEF SeedValues
<1>3. Len(Difficulties) \in Nat \ {0}
  <2>1. Difficulties \in Seq(ToSet(Difficulties)) /\ Difficulties # << >>
    BY ChoicesAssumption
  <2> QED
    BY <2>1, EmptySeq, LenProperties
<1>4. Len(ActorPacks) \in Nat \ {0}
  <2>1. ActorPacks \in Seq(ToSet(ActorPacks)) /\ ActorPacks # << >>
    BY ChoicesAssumption
  <2> QED
    BY <2>1, EmptySeq, LenProperties
<1> QED
  BY <1>1, <1>2, <1>3, <1>4

LEMMA Quotients ==
    ASSUME NEW x \in Nat
    PROVE  /\ \A n \in 1 .. 4 : Quotient(x, n) \in Nat
           /\ x < TotalVariants => Quotient(x, 4) < Len(ActorPacks)
           /\ TotalVariants \in Nat
<1>1. PICK a, b, c, d, e :
        /\ a = Len(PlatformSets) /\ b = SeedValues /\ c = MaxSteps
        /\ d = Len(Difficulties) /\ e = Len(ActorPacks)
        /\ a \in Nat \ {0} /\ b \in Nat \ {0} /\ c \in Nat \ {0} /\ d \in Nat \ {0} /\ e \in Nat \ {0}
  BY TableSizes
<1>2. PICK x1, x2, x3, x4 :
        x1 = x \div a /\ x2 = x1 \div b /\ x3 = x2 \div c /\ x4 = x3 \div d
  OBVIOUS
<1>3. x1 \in Nat /\ x2 \in Nat /\ x3 \in Nat /\ x4 \in Nat
  <2>1. x1 \in Nat
    BY <1>1, <1>2, Divided
  <2>2. x2 \in Nat
    BY <1>1, <1>2, <2>1, Divided
  <2>3. x3 \in Nat
    BY <1>1, <1>2, <2>2, Divided
  <2>4. x4 \in Nat
    BY <1>1, <1>2, <2>3, Divided
  <2> QED
    BY <2>1, <2>2, <2>3, <2>4
<1>4. Quotient(x, 1) = x1 /\ Quotient(x, 2) = x2 /\ Quotient(x, 3) = x3 /\ Quotient(x, 4) = x4
  <2>1. x1 = x \div Len(PlatformSets)
    BY <1>1, <1>2
  <2>2. x2 = (x \div Len(PlatformSets)) \div SeedValues
    BY <1>1, <1>2, <2>1
  <2>3. x3 = ((x \div Len(PlatformSets)) \div SeedValues) \div MaxSteps
    BY <1>1, <1>2, <2>2
  <2>4. x4 = (((x \div Len(PlatformSets)) \div SeedValues) \div MaxSteps) \div Len(Difficulties)
    BY <1>1, <1>2, <2>3
  <2> QED
    BY <2>1, <2>2, <2>3, <2>4 DEF Quotient
<1>5. PICK de, cde, bcde : /\ de = d * e /\ cde = c * de /\ bcde = b * cde
                           /\ de \in Nat /\ cde \in Nat /\ bcde \in Nat
  BY <1>1
<1>6. TotalVariants = a * bcde
  <2>1. TotalVariants = e * d * a * c * b
    BY <1>1 DEF TotalVariants
  <2>2. e * d * a * c * b = a * (b * (c * (d * e)))
    BY <1>1
  <2> QED
    BY <1>5, <2>1, <2>2
<1>7. ASSUME x < TotalVariants PROVE x4 < e
  <2>1. x1 < bcde
    BY <1>1, <1>2, <1>5, <1>6, <1>7, DigitDividedOut
  <2>2. x2 < cde
    BY <1>1, <1>2, <1>3, <1>5, <2>1, DigitDividedOut
  <2>3. x3 < de
    BY <1>1, <1>2, <1>3, <1>5, <2>2, DigitDividedOut
  <2> QED
    BY <1>1, <1>2, <1>3, <1>5, <2>3, DigitDividedOut
<1>8. \A n \in 1 .. 4 : n = 1 \/ n = 2 \/ n = 3 \/ n = 4
  OBVIOUS
<1>9. TotalVariants \in Nat
  BY <1>1, <1>5, <1>6
<1> QED
  BY <1>1, <1>3, <1>4, <1>7, <1>8, <1>9

LEMMA VariantIs ==
    ASSUME NEW x \in Nat
    PROVE  /\ Variant(x).platforms = PlatformsOf(PlatformSets[(x % Len(PlatformSets)) + 1])
           /\ Variant(x).seed = Quotient(x, 1) % SeedValues
           /\ Variant(x).steps = (Quotient(x, 2) % MaxSteps) + 1
           /\ Variant(x).difficulty = Difficulties[(Quotient(x, 3) % Len(Difficulties)) + 1]
           /\ Variant(x).actor = ActorPacks[(Quotient(x, 4) % Len(ActorPacks)) + 1]
BY DEF Variant, Quotient

LEMMA VariantSteps ==
    ASSUME NEW x \in Nat
    PROVE  Variant(x).steps \in 1 .. MaxSteps
<1>0. PICK q, m : q = Quotient(x, 2) /\ m = MaxSteps
  OBVIOUS
<1>1. q = Quotient(x, 2) /\ m = MaxSteps /\ q \in Nat /\ m \in Nat \ {0}
  <2>1. 2 \in 1 .. 4
    OBVIOUS
  <2>2. Quotient(x, 2) \in Nat
    BY <2>1, Quotients
  <2> QED
    BY <1>0, <2>2, TableSizes
<1>2. q % m \in Nat /\ q % m < m
  BY <1>1, Divided
<1>3. Variant(x).steps = (q % m) + 1
  BY <1>1, VariantIs
<1> QED
  BY <1>1, <1>2, <1>3

\* Different choices of platforms are different sets of them.
LEMMA PlatformsTellChoices ==
    ASSUME NEW s \in PlatformChoices, NEW t \in PlatformChoices, PlatformsOf(s) = PlatformsOf(t)
    PROVE  s = t
<1>1. PICK n : n = Len(PlatformPool)
  OBVIOUS
<1>2. /\ DOMAIN PlatformPool = 1 .. n
      /\ \A i, j \in 1 .. n : PlatformPool[i] = PlatformPool[j] => i = j
  <2>1. DOMAIN PlatformPool = 1 .. n
    BY <1>1, ChoicesAssumption, LenProperties
  <2> QED
    BY <2>1, ChoicesAssumption DEF IsInjective
<1>3. s \in SUBSET (1 .. n) /\ t \in SUBSET (1 .. n)
  BY <1>1 DEF PlatformChoices
<1>4. \A i \in 1 .. n : i \in s <=> PlatformPool[i] \in PlatformsOf(s)
  BY <1>2, <1>3 DEF PlatformsOf
<1>5. \A i \in 1 .. n : i \in t <=> PlatformPool[i] \in PlatformsOf(t)
  BY <1>2, <1>3 DEF PlatformsOf
<1>6. \A i \in 1 .. n : i \in s <=> i \in t
  BY <1>4, <1>5
<1> QED
  BY <1>3, <1>6

\* The element of a sequence without repetitions tells the digit that chose it.
LEMMA ChosenTellsDigit ==
    ASSUME NEW S, NEW seq \in Seq(S), Len(seq) \in Nat \ {0}, IsInjective(seq),
           NEW i \in Nat, NEW j \in Nat, seq[(i % Len(seq)) + 1] = seq[(j % Len(seq)) + 1]
    PROVE  i % Len(seq) = j % Len(seq)
<1>1. PICK n, u, v : n = Len(seq) /\ u = i % n /\ v = j % n
  OBVIOUS
<1>2. n \in Nat \ {0} /\ u \in Nat /\ v \in Nat /\ u < n /\ v < n
  BY <1>1, Divided
<1>3. u + 1 \in DOMAIN seq /\ v + 1 \in DOMAIN seq
  <2>1. DOMAIN seq = 1 .. n
    BY <1>1, LenProperties
  <2> QED
    BY <1>2, <2>1
<1>4. u + 1 = v + 1
  BY <1>1, <1>3 DEF IsInjective
<1> QED
  BY <1>1, <1>2, <1>4

\* No two indices of the space stand for variants of one name.
LEMMA NamesAreDistinct ==
    ASSUME NEW x \in Nat, NEW y \in Nat, x < TotalVariants, y < TotalVariants,
           VariantName(Variant(x)) = VariantName(Variant(y))
    PROVE  x = y
<1>1. /\ Variant(x).actor[1] = Variant(y).actor[1]
      /\ Variant(x).difficulty = Variant(y).difficulty
      /\ Variant(x).steps = Variant(y).steps
      /\ Variant(x).seed = Variant(y).seed
      /\ Variant(x).platforms = Variant(y).platforms
  BY DEF VariantName
<1>2. \A n \in 1 .. 4 : Quotient(x, n) \in Nat /\ Quotient(y, n) \in Nat
  BY Quotients
<1>3. Quotient(x, 4) = Quotient(y, 4)
  <2>1. PICK i, j, n : i = Quotient(x, 4) /\ j = Quotient(y, 4) /\ n = Len(ActorPacks)
    OBVIOUS
  <2>2. i \in Nat /\ j \in Nat /\ n \in Nat \ {0} /\ i < n /\ j < n
    BY <1>2, <2>1, Quotients, TableSizes
  <2>3. i % n = i /\ j % n = j
    BY <2>2
  <2>4. ActorPacks[i + 1][1] = ActorPacks[j + 1][1]
    BY <1>1, <2>1, <2>3, VariantIs
  <2>5. i + 1 \in DOMAIN ActorPacks /\ j + 1 \in DOMAIN ActorPacks
    <3>1. DOMAIN ActorPacks = 1 .. n
      BY <2>1, ChoicesAssumption, LenProperties
    <3> QED
      BY <2>2, <3>1
  <2>6. i + 1 = j + 1
    BY <2>4, <2>5, ChoicesAssumption
  <2> QED
    BY <2>1, <2>2, <2>6
<1>4. Quotient(x, 3) = Quotient(y, 3)
  <2>1. PICK i, j, n : i = Quotient(x, 3) /\ j = Quotient(y, 3) /\ n = Len(Difficulties)
    OBVIOUS
  <2>2. i \in Nat /\ j \in Nat /\ n \in Nat \ {0}
    BY <1>2, <2>1, TableSizes
  <2>3. Difficulties[(i % n) + 1] = Difficulties[(j % n) + 1]
    BY <1>1, <2>1, VariantIs
  <2>4. i % n = j % n
    BY <2>1, <2>2, <2>3, ChoicesAssumption, ChosenTellsDigit
  <2>5. i \div n = j \div n
    BY <1>3, <2>1 DEF Quotient
  <2> QED
    BY <2>1, <2>2, <2>4, <2>5, SameDigits
<1>5. Quotient(x, 2) = Quotient(y, 2)
  <2>1. PICK i, j, n : i = Quotient(x, 2) /\ j = Quotient(y, 2) /\ n = MaxSteps
    OBVIOUS
  <2>2. i \in Nat /\ j \in Nat /\ n \in Nat \ {0}
    BY <1>2, <2>1, TableSizes
  <2>3. (i % n) + 1 = (j % n) + 1
    BY <1>1, <2>1, VariantIs
  <2>4. i % n \in Nat /\ j % n \in Nat
    BY <2>2, Divided
  <2>5. i % n = j % n
    BY <2>3, <2>4
  <2>6. i \div n = j \div n
    BY <1>4, <2>1 DEF Quotient
  <2> QED
    BY <2>1, <2>2, <2>5, <2>6, SameDigits
<1>6. Quotient(x, 1) = Quotient(y, 1)
  <2>1. PICK i, j, n : i = Quotient(x, 1) /\ j = Quotient(y, 1) /\ n = SeedValues
    OBVIOUS
  <2>2. i \in Nat /\ j \in Nat /\ n \in Nat \ {0}
    BY <1>2, <2>1, TableSizes
  <2>3. i % n = j % n
    BY <1>1, <2>1, VariantIs
  <2>4. i \div n = j \div n
    BY <1>5, <2>1 DEF Quotient
  <2> QED
    BY <2>1, <2>2, <2>3, <2>4, SameDigits
<1>7. PICK p, n : p = PlatformSets /\ n = Len(p)
  OBVIOUS
<1>8. p \in Seq(PlatformChoices) /\ n \in Nat \ {0} /\ IsInjective(p)
  BY <1>7, PlatformSetsAre
<1>9. x % n = y % n
  <2>1. x % n \in Nat /\ x % n < n /\ y % n \in Nat /\ y % n < n
    BY <1>8, Divided
  <2>2. (x % n) + 1 \in 1 .. n /\ (y % n) + 1 \in 1 .. n
    BY <1>8, <2>1
  <2>3. p[(x % n) + 1] \in PlatformChoices /\ p[(y % n) + 1] \in PlatformChoices
    BY <1>7, <1>8, <2>2, ElementOfSeq
  <2>4. PlatformsOf(p[(x % n) + 1]) = PlatformsOf(p[(y % n) + 1])
    BY <1>1, <1>7, VariantIs
  <2>5. p[(x % n) + 1] = p[(y % n) + 1]
    BY <2>3, <2>4, PlatformsTellChoices
  <2> QED
    BY <1>7, <1>8, <2>5, ChosenTellsDigit
<1>10. x \div n = y \div n
  BY <1>6, <1>7 DEF Quotient
<1> QED
  BY <1>8, <1>9, <1>10, SameDigits
-----------------------------------------------------------------------------
(* A scenario that is being built. *)

\* A plan whose steps depend on earlier ones only is one validate_dag accepts.
LEMMA BackwardIsValid ==
    ASSUME NEW p, p.steps \in Nat, \A s \in 1 .. p.steps : p.deps[s] \subseteq 1 .. s - 1
    PROVE  ValidDag(p)
<1>1. DependenciesKnown(p)
  <2>1. \A s \in 1 .. p.steps : 1 .. s - 1 \subseteq 1 .. p.steps
    OBVIOUS
  <2> QED
    BY <2>1 DEF DependenciesKnown, StepsOf
<1>2. Acyclic(p)
  <2> SUFFICES ASSUME ~Acyclic(p) PROVE FALSE
    OBVIOUS
  <2>1. PICK Q \in SUBSET StepsOf(p) : Q # {} /\ \A s \in Q : p.deps[s] \cap Q # {}
    BY CyclicHasKnot
  <2>2. Q \subseteq 1 .. p.steps /\ Q \subseteq Nat
    BY <2>1 DEF StepsOf
  <2>3. PICK m \in Q : \A k \in Q : m <= k
    BY <2>1, <2>2, SmallestNat
  <2>4. PICK x : x \in p.deps[m] /\ x \in Q
    BY <2>1, <2>3
  <2>5. x \in 1 .. m - 1 /\ m \in Nat
    BY <2>2, <2>3, <2>4
  <2>6. m <= x /\ x \in Nat
    BY <2>2, <2>3, <2>4
  <2> QED
    BY <2>5, <2>6
<1> QED
  BY <1>1, <1>2 DEF ValidDag

LEMMA EligibleAreCounted ==
    ASSUME NEW packs, NEW platforms
    PROVE  Cardinality(Eligible(packs, platforms)) \in Nat
<1>1. PICK n : n = Len(Registered)
  OBVIOUS
<1>2. n \in Nat /\ DOMAIN Registered = 1 .. n
  BY <1>1, ChoicesAssumption, LenProperties
<1>3. IsFiniteSet(1 .. n)
  <2>1. 1 \in Int /\ n \in Int
    BY <1>2
  <2> QED
    BY <2>1, FS_Interval
<1>4. PICK pool : pool = Eligible(packs, platforms)
  OBVIOUS
<1>5. pool \in SUBSET (1 .. n)
  BY <1>2, <1>4 DEF Eligible
<1>6. IsFiniteSet(pool)
  BY <1>3, <1>5, FS_Subset
<1> QED
  BY <1>4, <1>6, FS_CardinalityType

LEMMA StepCountInRange ==
    ASSUME NEW v, v.steps \in 1 .. MaxSteps, NEW pool, Cardinality(pool) \in Nat
    PROVE  StepCount(v, pool) \in 1 .. MaxSteps
<1>1. PICK a, c, m : a = v.steps /\ c = Cardinality(pool) /\ m = Min({a, c})
  OBVIOUS
<1>2. MaxSteps \in Nat /\ a \in Nat /\ a <= MaxSteps /\ c \in Nat /\ 1 <= MaxSteps
  BY <1>1, BuilderBounds
<1>3. m \in Nat /\ m <= MaxSteps
  <2>1. m = IF a <= c THEN a ELSE c
    BY <1>1, <1>2, LesserOfTwo
  <2> QED
    BY <1>2, <2>1
<1>4. PICK S : S = {1, m}
  OBVIOUS
<1>5. S \subseteq Nat /\ S # {} /\ \A x \in S : x <= MaxSteps
  BY <1>2, <1>3, <1>4
<1>6. Max(S) \in S /\ \A x \in S : x <= Max(S)
  BY <1>2, <1>5, MaxOfBounded
<1>7. Max(S) \in Nat /\ Max(S) <= MaxSteps /\ 1 <= Max(S)
  BY <1>4, <1>5, <1>6
<1>8. StepCount(v, pool) = Max(S)
  BY <1>1, <1>4 DEF StepCount
<1> QED
  BY <1>2, <1>7, <1>8

LEMMA ParentsAreEarlier ==
    ASSUME NEW i \in Nat, NEW difficulty, NEW parents \in Parents(i, difficulty)
    PROVE  parents \subseteq 1 .. i - 1
<1>1. CASE i = 1
  <2>1. parents = {}
    BY <1>1 DEF Parents
  <2> QED
    BY <2>1
<1>2. CASE i # 1
  <2>1. PICK most : parents \in UNION {kSubset(k, 1 .. i - 1) : k \in 1 .. most}
    BY <1>2 DEF Parents
  <2>2. \A k : kSubset(k, 1 .. i - 1) \subseteq SUBSET (1 .. i - 1)
    BY DEF kSubset
  <2>3. parents \in SUBSET (1 .. i - 1)
    BY <2>1, <2>2
  <2> QED
    BY <2>3
<1> QED
  BY <1>1, <1>2

-----------------------------------------------------------------------------
(* The axes of a scale pack: the number of an item in a mixed radix. *)

Turns(n, f) == f = [axes \in 0 .. n |-> IF axes = 0 THEN 1 ELSE f[axes - 1] * PackAxes[axes]]

LEMMA TurnsExist ==
    ASSUME NEW n \in Nat
    PROVE  \E f : Turns(n, f)
<1> SUFFICES ASSUME ~\E f : Turns(n, f) PROVE FALSE
  OBVIOUS
<1> DEFINE None == {m \in Nat : ~\E f : Turns(m, f)}
<1>1. n \in None
  OBVIOUS
<1>2. PICK m \in None : \A k \in None : m <= k
  <2>1. None \subseteq Nat /\ None # {}
    BY <1>1
  <2> HIDE DEF None
  <2> QED
    BY <2>1, SmallestNat
<1>3. m # 0
  <2> DEFINE f == [k \in 0 .. 0 |-> 1]
  <2>1. Turns(0, f)
    BY DEF Turns
  <2> QED
    BY <2>1
<1>4. m - 1 \in Nat /\ m - 1 \notin None
  BY <1>2, <1>3
<1>5. PICK f : Turns(m - 1, f)
  BY <1>4
<1> DEFINE g == [k \in 0 .. m |-> IF k = m THEN f[m - 1] * PackAxes[m] ELSE f[k]]
<1>6. ASSUME NEW k \in 0 .. m
      PROVE  g[k] = IF k = 0 THEN 1 ELSE g[k - 1] * PackAxes[k]
  <2>1. CASE k = m
    <3>1. m - 1 \in 0 .. m /\ m - 1 # m
      BY <1>4
    <3> QED
      BY <1>3, <2>1, <3>1
  <2>2. CASE k # m
    <3>1. k \in 0 .. m - 1 /\ (k # 0 => k - 1 \in 0 .. m /\ k - 1 # m)
      BY <1>4, <2>2
    <3>2. f[k] = IF k = 0 THEN 1 ELSE f[k - 1] * PackAxes[k]
      BY <1>5, <3>1 DEF Turns
    <3>3. g[k] = f[k] /\ (k # 0 => g[k - 1] = f[k - 1])
      BY <2>2, <3>1
    <3> QED
      BY <3>2, <3>3
  <2> QED
    BY <2>1, <2>2
<1>7. Turns(m, g)
  <2>1. g = [k \in 0 .. m |-> g[k]]
    OBVIOUS
  <2> HIDE DEF g
  <2> QED
    BY <1>6, <2>1 DEF Turns
<1> QED
  BY <1>7

LEMMA AxesAre ==
    /\ Len(PackAxes) \in Nat /\ DOMAIN PackAxes = 1 .. Len(PackAxes)
    /\ \A a \in 1 .. Len(PackAxes) : PackAxes[a] \in Nat \ {0}
BY ChoicesAssumption, LenProperties, ElementOfSeq

\* A full turn of the first axes is the product of their lengths.
LEMMA FullTurnIs ==
    /\ FullTurn[0] = 1
    /\ \A a \in 1 .. Len(PackAxes) : FullTurn[a] = FullTurn[a - 1] * PackAxes[a]
    /\ \A a \in 0 .. Len(PackAxes) : FullTurn[a] \in Nat \ {0}
<1>1. PICK n, f : n = Len(PackAxes) /\ f = FullTurn
  OBVIOUS
<1>2. n \in Nat /\ \A a \in 1 .. n : PackAxes[a] \in Nat \ {0}
  BY <1>1, AxesAre
<1>3. Turns(n, f)
  <2>1. f = CHOOSE g : Turns(n, g)
    BY <1>1 DEF FullTurn, Turns
  <2>2. \E g : Turns(n, g)
    BY <1>2, TurnsExist
  <2> QED
    BY <2>1, <2>2, Zenon
<1>4. \A a \in 0 .. n : f[a] = IF a = 0 THEN 1 ELSE f[a - 1] * PackAxes[a]
  BY <1>3 DEF Turns
<1>5. \A a \in 0 .. n : f[a] \in Nat \ {0}
  <2> DEFINE Bad == {a \in 0 .. n : f[a] \notin Nat \ {0}}
  <2> SUFFICES ASSUME Bad # {} PROVE FALSE
    OBVIOUS
  <2>1. PICK a \in Bad : \A k \in Bad : a <= k
    <3>1. Bad \subseteq Nat
      OBVIOUS
    <3> HIDE DEF Bad
    <3> QED
      BY <3>1, SmallestNat
  <2>2. a # 0
    BY <1>2, <1>4, <2>1
  <2>3. a \in 1 .. n /\ a - 1 \in 0 .. n /\ a - 1 \notin Bad
    BY <1>2, <2>1, <2>2
  <2>4. PICK x, y : x = f[a - 1] /\ y = PackAxes[a]
    OBVIOUS
  <2>5. x \in Nat \ {0} /\ y \in Nat \ {0}
    BY <1>2, <2>3, <2>4
  <2>6. f[a] = x * y
    BY <1>4, <2>2, <2>3, <2>4
  <2>7. x * y \in Nat \ {0}
    BY <2>5
  <2> QED
    BY <2>1, <2>6, <2>7
<1> QED
  BY <1>1, <1>2, <1>4, <1>5

\* The rest of a number by the product of two lengths, by its digit.
LEMMA RestByProduct ==
    ASSUME NEW x \in Nat, NEW f \in Nat \ {0}, NEW p \in Nat \ {0}
    PROVE  x % (f * p) = f * ((x \div f) % p) + (x % f)
<1>0. PICK q, r : q = x \div f /\ r = x % f
  OBVIOUS
<1>1. q \in Nat /\ r \in Nat /\ r < f /\ x = f * q + r
  BY <1>0, Divided
<1>2. PICK u, v : u = q \div p /\ v = q % p
  OBVIOUS
<1>3. u \in Nat /\ v \in Nat /\ v < p /\ q = p * u + v
  BY <1>1, <1>2, Divided
<1>4. PICK d, rest : d = f * p /\ rest = f * v + r
  OBVIOUS
<1>5. d \in Nat \ {0} /\ rest \in Nat
  BY <1>1, <1>3, <1>4
<1>6. x = d * u + rest
  <2>1. x = f * (p * u + v) + r
    BY <1>1, <1>3
  <2>2. f * (p * u + v) + r = (f * p) * u + (f * v + r)
    BY <1>1, <1>3
  <2> QED
    BY <1>4, <2>1, <2>2
<1>7. rest < d
  <2>1. f * (v + 1) <= f * p
    BY <1>3, ProductsKeepOrder
  <2>2. f * (v + 1) = f * v + f
    BY <1>3
  <2>3. PICK w : w = f * v /\ w \in Nat
    BY <1>3
  <2> QED
    BY <1>1, <1>4, <1>5, <2>1, <2>2, <2>3
<1>8. x % d = rest
  BY <1>3, <1>5, <1>6, <1>7
<1> QED
  BY <1>0, <1>2, <1>4, <1>8

\* Two items that agree in every axis are a multiple of the full turn apart.
LEMMA AxesTellTheItem ==
    ASSUME NEW n \in Nat \ {0}, NEW m \in Nat \ {0},
           n <= FullTurn[Len(PackAxes)], m <= FullTurn[Len(PackAxes)],
           \A a \in 1 .. Len(PackAxes) : Turned(n, a) = Turned(m, a)
    PROVE  n = m
<1>1. PICK k, f, x, y : k = Len(PackAxes) /\ f = FullTurn /\ x = n - 1 /\ y = m - 1
  OBVIOUS
<1>2. /\ k \in Nat /\ x \in Nat /\ y \in Nat /\ f[0] = 1
      /\ \A a \in 1 .. k : f[a] = f[a - 1] * PackAxes[a] /\ PackAxes[a] \in Nat \ {0}
      /\ \A a \in 0 .. k : f[a] \in Nat \ {0}
  BY <1>1, AxesAre, FullTurnIs
<1>3. \A a \in 0 .. k : x % f[a] = y % f[a]
  <2> DEFINE Bad == {a \in 0 .. k : x % f[a] # y % f[a]}
  <2> SUFFICES ASSUME Bad # {} PROVE FALSE
    OBVIOUS
  <2>1. PICK a \in Bad : \A b \in Bad : a <= b
    <3>1. Bad \subseteq Nat
      OBVIOUS
    <3> HIDE DEF Bad
    <3> QED
      BY <3>1, SmallestNat
  <2>2. a # 0
    <3>1. x % 1 = y % 1
      BY <1>2
    <3> QED
      BY <1>2, <2>1, <3>1
  <2>3. a \in 1 .. k /\ a - 1 \in 0 .. k /\ a - 1 \notin Bad
    BY <1>2, <2>1, <2>2
  <2>4. PICK g, p : g = f[a - 1] /\ p = PackAxes[a]
    OBVIOUS
  <2>5. g \in Nat \ {0} /\ p \in Nat \ {0} /\ f[a] = g * p
    BY <1>2, <2>3, <2>4
  <2>6. x % g = y % g
    BY <2>3, <2>4
  <2>7. (x \div g) % p = (y \div g) % p
    <3>1. Turned(n, a) = (x \div g) % p /\ Turned(m, a) = (y \div g) % p
      BY <1>1, <2>4 DEF Turned
    <3> QED
      BY <1>1, <2>3, <3>1
  <2>8. x % (g * p) = g * ((x \div g) % p) + (x % g)
    BY <1>2, <2>5, RestByProduct
  <2>9. y % (g * p) = g * ((y \div g) % p) + (y % g)
    BY <1>2, <2>5, RestByProduct
  <2>10. x % (g * p) = y % (g * p)
    BY <2>6, <2>7, <2>8, <2>9
  <2> QED
    BY <2>1, <2>5, <2>10
<1>4. PICK d : d = f[k]
  OBVIOUS
<1>5. d \in Nat \ {0} /\ x < d /\ y < d /\ x % d = y % d
  BY <1>1, <1>2, <1>3, <1>4
<1>6. x % d = x /\ y % d = y
  BY <1>2, <1>5
<1> QED
  BY <1>1, <1>5, <1>6
-----------------------------------------------------------------------------
(* The generators: their inductive invariant. *)

Batches == [count : 0 .. MaxCount, offset : Nat, stride : Nat \ {0}]
IndexAfter(n, call) == call.offset + n * call.stride
VariantNames == {VariantName(Variant(x)) : x \in Nat}

\* The variants that are done are those of the indices of the call, in order.
DoneInOrder(done, call) ==
    /\ done \in Seq(VariantNames) /\ Len(done) <= call.count
    /\ \A i \in 1 .. Len(done) :
         /\ IndexAfter(i - 1, call) < TotalVariants
         /\ done[i] = VariantName(Variant(IndexAfter(i - 1, call)))

\* The steps so far of the next one depend on earlier ones only.
SoundDraft(d, done, call) ==
    /\ \E size \in 1 .. MaxSteps, deps \in Seq(SUBSET Nat) :
         /\ d = [size |-> size, variant |-> Variant(IndexAfter(Len(done), call)), deps |-> deps]
         /\ Len(deps) <= size
         /\ \A i \in 1 .. Len(deps) : deps[i] \subseteq 1 .. i - 1
    /\ IndexAfter(Len(done), call) < TotalVariants
    /\ Len(done) < call.count

Items == [base : Nat, id : Nat, axes : [DOMAIN PackAxes -> Nat]]
ExpandedInOrder(items) ==
    /\ items \in Seq(Items) /\ Len(items) <= PackCount
    /\ \A n \in 1 .. Len(items) : items[n].axes = [a \in DOMAIN PackAxes |-> Turned(n, a)]

BuilderIInv ==
    /\ batch \in Batches
    /\ draft # NoDraft => SoundDraft(draft, built, batch)
    /\ DoneInOrder(built, batch)
    /\ invalid = FALSE
    /\ ExpandedInOrder(pack)

LEMMA IndexIsNat ==
    ASSUME NEW call \in Batches, NEW n \in Nat
    PROVE  IndexAfter(n, call) \in Nat
<1>1. PICK o, s : o = call.offset /\ s = call.stride
  OBVIOUS
<1>2. o \in Nat /\ s \in Nat
  BY <1>1 DEF Batches
<1>3. n * s \in Nat
  BY <1>2
<1> QED
  BY <1>1, <1>2, <1>3 DEF IndexAfter

\* A stride of at least 1 never comes back to an index.
LEMMA IndicesAreDistinct ==
    ASSUME NEW call \in Batches, NEW n \in Nat, NEW m \in Nat,
           IndexAfter(n, call) = IndexAfter(m, call)
    PROVE  n = m
<1>1. PICK o, s : o = call.offset /\ s = call.stride
  OBVIOUS
<1>2. o \in Nat /\ s \in Nat \ {0}
  BY <1>1 DEF Batches
<1>3. PICK u, v : u = n * s /\ v = m * s /\ u \in Nat /\ v \in Nat
  BY <1>2
<1>4. o + u = o + v
  BY <1>1, <1>3 DEF IndexAfter
<1>5. u = v
  BY <1>2, <1>3, <1>4
<1>6. ~(n < m)
  <2> SUFFICES ASSUME n + 1 <= m PROVE FALSE
    OBVIOUS
  <2>1. (n + 1) * s <= m * s
    BY <1>2, ProductsKeepOrder
  <2>2. (n + 1) * s = n * s + s
    BY <1>2
  <2> QED
    BY <1>2, <1>3, <1>5, <2>1, <2>2
<1>7. ~(m < n)
  <2> SUFFICES ASSUME m + 1 <= n PROVE FALSE
    OBVIOUS
  <2>1. (m + 1) * s <= n * s
    BY <1>2, ProductsKeepOrder
  <2>2. (m + 1) * s = m * s + s
    BY <1>2
  <2> QED
    BY <1>2, <1>3, <1>5, <2>1, <2>2
<1> QED
  BY <1>6, <1>7

LEMMA DoneAreDistinct ==
    ASSUME NEW call \in Batches, NEW done, DoneInOrder(done, call)
    PROVE  IsInjective(done)
<1>1. PICK n : n = Len(done)
  OBVIOUS
<1>2. done \in Seq(VariantNames) /\ n \in Nat /\ DOMAIN done = 1 .. n
  BY <1>1, LenProperties DEF DoneInOrder
<1>3. ASSUME NEW i \in 1 .. n, NEW j \in 1 .. n, done[i] = done[j] PROVE i = j
  <2>1. PICK x, y : x = IndexAfter(i - 1, call) /\ y = IndexAfter(j - 1, call)
    OBVIOUS
  <2>2. i - 1 \in Nat /\ j - 1 \in Nat
    BY <1>2
  <2>3. x \in Nat /\ y \in Nat
    BY <2>1, <2>2, IndexIsNat
  <2>4. /\ x < TotalVariants /\ y < TotalVariants
        /\ VariantName(Variant(x)) = VariantName(Variant(y))
    BY <1>1, <1>3, <2>1 DEF DoneInOrder
  <2>5. x = y
    BY <2>3, <2>4, NamesAreDistinct
  <2>6. i - 1 = j - 1
    BY <2>1, <2>2, <2>5, IndicesAreDistinct
  <2> QED
    BY <1>2, <2>6
<1> QED
  BY <1>2, <1>3 DEF IsInjective

LEMMA ItemsAreDistinct ==
    ASSUME NEW items, ExpandedInOrder(items), Len(items) <= FullTurn[Len(PackAxes)]
    PROVE  IsInjective([n \in DOMAIN items |-> items[n].axes])
<1>1. PICK k : k = Len(items)
  OBVIOUS
<1>2. k \in Nat /\ DOMAIN items = 1 .. k
  BY <1>1, LenProperties DEF ExpandedInOrder
<1>3. ASSUME NEW n \in 1 .. k, NEW m \in 1 .. k, items[n].axes = items[m].axes PROVE n = m
  <2>1. [a \in DOMAIN PackAxes |-> Turned(n, a)] = [a \in DOMAIN PackAxes |-> Turned(m, a)]
    BY <1>1, <1>3 DEF ExpandedInOrder
  <2>2. ASSUME NEW a \in DOMAIN PackAxes PROVE Turned(n, a) = Turned(m, a)
    BY <2>1
  <2>3. \A a \in 1 .. Len(PackAxes) : Turned(n, a) = Turned(m, a)
    BY <2>2, AxesAre
  <2>4. PICK d : d = FullTurn[Len(PackAxes)] /\ d \in Nat
    BY AxesAre, FullTurnIs
  <2>5. n \in Nat \ {0} /\ m \in Nat \ {0} /\ n <= d /\ m <= d
    BY <1>1, <1>2, <2>4
  <2> QED
    BY <2>3, <2>4, <2>5, AxesTellTheItem
<1> QED
  BY <1>2, <1>3 DEF IsInjective

\* A draft that is finished is a plan validate_dag accepts.
LEMMA FinishedIsValid ==
    ASSUME NEW d, NEW done, NEW call, SoundDraft(d, done, call), Len(d.deps) = d.size
    PROVE  ValidDag(PlanOf(d))
<1>1. PICK size \in 1 .. MaxSteps, deps \in Seq(SUBSET Nat) :
        /\ d.size = size /\ d.deps = deps
        /\ \A i \in 1 .. Len(deps) : deps[i] \subseteq 1 .. i - 1
  BY DEF SoundDraft
<1>2. PICK p : p = PlanOf(d)
  OBVIOUS
<1>3. p.steps = size /\ p.deps = deps
  BY <1>1, <1>2 DEF PlanOf
<1>4. size \in Nat /\ Len(deps) = size
  BY <1>1, BuilderBounds
<1> QED
  BY <1>1, <1>2, <1>3, <1>4, BackwardIsValid

LEMMA AddedIsSound ==
    ASSUME NEW d, NEW done, NEW call, SoundDraft(d, done, call), Len(d.deps) < d.size,
           NEW parents \in Parents(Len(d.deps) + 1, d.variant.difficulty)
    PROVE  SoundDraft([d EXCEPT !.deps = Append(@, parents)], done, call)
<1>1. PICK size \in 1 .. MaxSteps, deps \in Seq(SUBSET Nat) :
        /\ d = [size |-> size, variant |-> Variant(IndexAfter(Len(done), call)), deps |-> deps]
        /\ Len(deps) <= size
        /\ \A i \in 1 .. Len(deps) : deps[i] \subseteq 1 .. i - 1
  BY DEF SoundDraft
<1>2. PICK v, k : v = Variant(IndexAfter(Len(done), call)) /\ k = Len(deps)
  OBVIOUS
<1>3. d = [size |-> size, variant |-> v, deps |-> deps]
  BY <1>1, <1>2
<1>4. d.size = size /\ d.deps = deps /\ d.variant = v
  BY <1>3
<1>5. k \in Nat /\ size \in Nat /\ k < size
  BY <1>2, <1>4, BuilderBounds, LenProperties
<1>6. parents \subseteq 1 .. k
  <2>1. k + 1 \in Nat /\ (k + 1) - 1 = k
    BY <1>5
  <2>2. parents \in Parents(k + 1, v.difficulty)
    BY <1>2, <1>4
  <2>3. parents \subseteq 1 .. (k + 1) - 1
    BY <2>1, <2>2, ParentsAreEarlier
  <2> QED
    BY <2>1, <2>3
<1>7. PICK more : more = Append(deps, parents)
  OBVIOUS
<1>8. parents \in SUBSET Nat
  BY <1>5, <1>6
<1>9. /\ more \in Seq(SUBSET Nat) /\ Len(more) = k + 1 /\ more[k + 1] = parents
      /\ \A i \in 1 .. k : more[i] = deps[i]
  BY <1>2, <1>7, <1>8, AppendProperties
<1>10. \A i \in 1 .. k + 1 : more[i] \subseteq 1 .. i - 1
  <2> SUFFICES ASSUME NEW i \in 1 .. k + 1 PROVE more[i] \subseteq 1 .. i - 1
    OBVIOUS
  <2>1. CASE i = k + 1
    <3>1. i - 1 = k
      BY <1>5, <2>1
    <3> QED
      BY <1>6, <1>9, <2>1, <3>1
  <2>2. CASE i # k + 1
    <3>1. i \in 1 .. k
      BY <1>5, <2>2
    <3> QED
      BY <1>1, <1>2, <1>9, <3>1
  <2> QED
    BY <2>1, <2>2
<1>11. [d EXCEPT !.deps = Append(@, parents)] = [size |-> size, variant |-> v, deps |-> more]
  <2>1. d.deps = deps
    BY <1>4
  <2>2. [d EXCEPT !.deps = Append(@, parents)] = [d EXCEPT !.deps = more]
    BY <1>7, <2>1
  <2> QED
    BY <1>3, <2>2
<1>12. Len(more) <= size
  BY <1>5, <1>9
<1>13. IndexAfter(Len(done), call) < TotalVariants /\ Len(done) < call.count
  BY DEF SoundDraft
<1> QED
  BY <1>1, <1>2, <1>9, <1>10, <1>11, <1>12, <1>13 DEF SoundDraft

LEMMA FinishedIsDone ==
    ASSUME NEW d, NEW done, NEW call \in Batches, SoundDraft(d, done, call), DoneInOrder(done, call)
    PROVE  DoneInOrder(Append(done, VariantName(d.variant)), call)
<1>1. PICK n, x : n = Len(done) /\ x = IndexAfter(n, call)
  OBVIOUS
<1>2. done \in Seq(VariantNames) /\ n \in Nat
  BY <1>1, LenProperties DEF DoneInOrder
<1>3. d.variant = Variant(x) /\ x < TotalVariants /\ n < call.count
  BY <1>1 DEF SoundDraft
<1>4. x \in Nat
  BY <1>1, <1>2, IndexIsNat
<1>5. PICK name, more : name = VariantName(Variant(x)) /\ more = Append(done, name)
  OBVIOUS
<1>6. name \in VariantNames
  BY <1>4, <1>5 DEF VariantNames
<1>7. /\ more \in Seq(VariantNames) /\ Len(more) = n + 1 /\ more[n + 1] = name
      /\ \A i \in 1 .. n : more[i] = done[i]
  BY <1>1, <1>2, <1>5, <1>6, AppendProperties
<1>8. call.count \in Nat
  BY BuilderBounds DEF Batches
<1>9. Len(more) <= call.count
  BY <1>2, <1>3, <1>7, <1>8
<1>10. ASSUME NEW i \in 1 .. n + 1
       PROVE  /\ IndexAfter(i - 1, call) < TotalVariants
              /\ more[i] = VariantName(Variant(IndexAfter(i - 1, call)))
  <2>1. CASE i = n + 1
    <3>1. i - 1 = n
      BY <1>2, <2>1
    <3> QED
      BY <1>1, <1>3, <1>5, <1>7, <2>1, <3>1
  <2>2. CASE i # n + 1
    <3>1. i \in 1 .. n
      BY <1>2, <2>2
    <3> QED
      BY <1>1, <1>7, <3>1 DEF DoneInOrder
  <2> QED
    BY <2>1, <2>2
<1>11. DoneInOrder(more, call)
  BY <1>7, <1>9, <1>10 DEF DoneInOrder
<1> QED
  BY <1>3, <1>5, <1>11

LEMMA ExpandedIsInOrder ==
    ASSUME NEW items, ExpandedInOrder(items), PackBases > 0, NEW n, n = Len(items) + 1, n <= PackCount
    PROVE  ExpandedInOrder(Append(items, [base |-> (n - 1) % PackBases, id |-> n,
                                          axes |-> [a \in DOMAIN PackAxes |-> Turned(n, a)]]))
<1>1. PICK k : k = Len(items)
  OBVIOUS
<1>2. k \in Nat /\ items \in Seq(Items) /\ n = k + 1
  BY <1>1, LenProperties DEF ExpandedInOrder
<1>3. PICK b : b = (n - 1) % PackBases
  OBVIOUS
<1>4. b \in Nat
  BY <1>2, <1>3, BuilderBounds
<1>5. ASSUME NEW a \in DOMAIN PackAxes PROVE Turned(n, a) \in Nat
  <2>1. a \in 1 .. Len(PackAxes) /\ a - 1 \in 0 .. Len(PackAxes)
    BY AxesAre
  <2>2. PICK f, p, x : f = FullTurn[a - 1] /\ p = PackAxes[a] /\ x = n - 1
    OBVIOUS
  <2>3. f \in Nat \ {0} /\ p \in Nat \ {0} /\ x \in Nat
    BY <1>2, <2>1, <2>2, AxesAre, FullTurnIs
  <2>4. (x \div f) % p \in Nat
    BY <2>3
  <2> QED
    BY <2>2, <2>4 DEF Turned
<1>6. PICK axes : axes = [a \in DOMAIN PackAxes |-> Turned(n, a)]
  OBVIOUS
<1>7. axes \in [DOMAIN PackAxes -> Nat]
  BY <1>5, <1>6
<1>8. PICK item, more : item = [base |-> b, id |-> n, axes |-> axes] /\ more = Append(items, item)
  OBVIOUS
<1>9. item \in Items
  BY <1>2, <1>4, <1>7, <1>8 DEF Items
<1>10. /\ more \in Seq(Items) /\ Len(more) = n /\ more[n] = item
       /\ \A i \in 1 .. k : more[i] = items[i]
  BY <1>1, <1>2, <1>8, <1>9, AppendProperties
<1>11. ASSUME NEW m \in 1 .. n PROVE more[m].axes = [a \in DOMAIN PackAxes |-> Turned(m, a)]
  <2>1. CASE m = n
    BY <1>6, <1>8, <1>10, <2>1
  <2>2. CASE m # n
    <3>1. m \in 1 .. k
      BY <1>2, <2>2
    <3> QED
      BY <1>1, <1>10, <3>1 DEF ExpandedInOrder
  <2> QED
    BY <2>1, <2>2
<1>12. ExpandedInOrder(more)
  BY <1>10, <1>11 DEF ExpandedInOrder
<1> QED
  BY <1>3, <1>6, <1>8, <1>12

LEMMA BegunIsSound ==
    ASSUME NEW done, NEW call \in Batches, DoneInOrder(done, call), Len(done) < call.count,
           IndexAfter(Len(done), call) < TotalVariants, NEW packs, NEW platforms, NEW v,
           v = Variant(IndexAfter(Len(done), call))
    PROVE  SoundDraft([size |-> StepCount(v, Eligible(packs, platforms)), variant |-> v,
                       deps |-> << >>], done, call)
<1>1. PICK x : x = IndexAfter(Len(done), call)
  OBVIOUS
<1>2. x \in Nat
  <2>1. Len(done) \in Nat
    BY LenProperties DEF DoneInOrder
  <2> QED
    BY <1>1, <2>1, IndexIsNat
<1>3. v.steps \in 1 .. MaxSteps
  BY <1>1, <1>2, VariantSteps
<1>4. PICK size : size = StepCount(v, Eligible(packs, platforms))
  OBVIOUS
<1>5. size \in 1 .. MaxSteps
  BY <1>3, <1>4, EligibleAreCounted, StepCountInRange
<1>6. PICK deps : deps = << >>
  OBVIOUS
<1>7. deps \in Seq(SUBSET Nat) /\ Len(deps) = 0
  BY <1>6, EmptySeq
<1>8. size \in Nat /\ Len(deps) <= size /\ \A i \in 1 .. Len(deps) : deps[i] \subseteq 1 .. i - 1
  BY <1>5, <1>7
<1> QED
  BY <1>4, <1>5, <1>6, <1>7, <1>8 DEF SoundDraft

LEMMA BuilderInitHolds == BuilderInit => BuilderIInv
<1> SUFFICES ASSUME BuilderInit PROVE BuilderIInv
  OBVIOUS
<1>1. batch \in Batches
  <2>1. 0 \in Nat
    OBVIOUS
  <2>2. TotalVariants \in Nat
    BY <2>1, Quotients
  <2>3. PICK c \in 1 .. MaxCount, o \in 0 .. TotalVariants, s \in Strides :
          batch = [count |-> c, offset |-> o, stride |-> s]
    BY DEF BuilderInit
  <2>4. c \in 0 .. MaxCount /\ o \in Nat /\ s \in Nat \ {0}
    BY <2>2, BuilderBounds
  <2> QED
    BY <2>3, <2>4 DEF Batches
<1>2. DoneInOrder(built, batch)
  <2>1. built = << >> /\ built \in Seq(VariantNames) /\ Len(built) = 0
    BY EmptySeq DEF BuilderInit
  <2>2. batch.count \in Nat
    BY <1>1, BuilderBounds DEF Batches
  <2> QED
    BY <2>1, <2>2 DEF DoneInOrder
<1>3. ExpandedInOrder(pack)
  <2>1. pack = << >> /\ pack \in Seq(Items) /\ Len(pack) = 0
    BY EmptySeq DEF BuilderInit
  <2> QED
    BY <2>1, BuilderBounds DEF ExpandedInOrder
<1> QED
  BY <1>1, <1>2, <1>3 DEF BuilderInit, BuilderIInv

LEMMA NextIndexIs == NextIndex = IndexAfter(Len(built), batch)
BY DEF NextIndex, IndexAfter

LEMMA BuilderStep == BuilderIInv /\ BuilderNext => BuilderIInv'
<1> SUFFICES ASSUME BuilderIInv, BuilderNext PROVE BuilderIInv'
  OBVIOUS
<1>1. CASE BeginVariant
  <2>1. PICK v, pool : v = Variant(NextIndex) /\ pool = Eligible(v.actor[2], v.platforms)
    OBVIOUS
  <2>2. draft' = [size |-> StepCount(v, pool), variant |-> v, deps |-> << >>]
    BY <1>1, <2>1 DEF BeginVariant
  <2>3. SoundDraft(draft', built, batch)
    BY <1>1, <2>1, <2>2, NextIndexIs, BegunIsSound DEF BuilderIInv, BeginVariant
  <2> QED
    BY <1>1, <2>3 DEF BuilderIInv, BeginVariant
<1>2. CASE AddStep
  <2>1. PICK parents \in Parents(Len(draft.deps) + 1, draft.variant.difficulty) :
          draft' = [draft EXCEPT !.deps = Append(@, parents)]
    BY <1>2 DEF AddStep
  <2>2. SoundDraft(draft', built, batch)
    BY <1>2, <2>1, AddedIsSound DEF BuilderIInv, AddStep
  <2> QED
    BY <1>2, <2>2 DEF BuilderIInv, AddStep
<1>3. CASE FinishVariant
  <2>1. ValidDag(PlanOf(draft))
    BY <1>3, FinishedIsValid DEF BuilderIInv, FinishVariant
  <2>2. invalid' = FALSE
    BY <1>3, <2>1 DEF BuilderIInv, FinishVariant
  <2>3. DoneInOrder(built', batch)
    BY <1>3, FinishedIsDone DEF BuilderIInv, FinishVariant
  <2> QED
    BY <1>3, <2>2, <2>3 DEF BuilderIInv, FinishVariant
<1>4. CASE BatchRaises
  <2>1. batch' = [batch EXCEPT !.count = 0]
    BY <1>4 DEF BatchRaises
  <2>2. batch' \in Batches /\ batch'.count = 0
    BY <2>1, BuilderBounds DEF BuilderIInv, Batches
  <2>3. built' = << >> /\ built' \in Seq(VariantNames) /\ Len(built') = 0
    BY <1>4, EmptySeq DEF BatchRaises
  <2>4. DoneInOrder(built', batch')
    BY <2>2, <2>3 DEF DoneInOrder
  <2> QED
    BY <1>4, <2>2, <2>4 DEF BuilderIInv, BatchRaises
<1>5. CASE ExpandItem
  <2>1. PICK n : n = Len(pack) + 1
    OBVIOUS
  <2>2. n <= PackCount
    <3>1. Len(pack) \in Nat
      BY LenProperties DEF BuilderIInv, ExpandedInOrder
    <3> QED
      BY <1>5, <2>1, <3>1, BuilderBounds DEF ExpandItem
  <2>3. pack' = Append(pack, [base |-> (n - 1) % PackBases, id |-> n,
                              axes |-> [a \in DOMAIN PackAxes |-> Turned(n, a)]])
    BY <1>5, <2>1 DEF ExpandItem
  <2>4. ExpandedInOrder(pack')
    BY <1>5, <2>1, <2>2, <2>3, ExpandedIsInOrder DEF BuilderIInv, ExpandItem
  <2> QED
    BY <1>5, <2>4 DEF BuilderIInv, ExpandItem
<1> QED
  BY <1>1, <1>2, <1>3, <1>4, <1>5 DEF BuilderNext

LEMMA BuilderStutters == BuilderIInv /\ UNCHANGED builderVars => BuilderIInv'
BY DEF BuilderIInv, builderVars

LEMMA InOrderLoadsInFull == BuilderIInv => GeneratedLoadsInFull
<1> SUFFICES ASSUME BuilderIInv PROVE GeneratedLoadsInFull
  OBVIOUS
<1>1. IsInjective(built)
  BY DoneAreDistinct DEF BuilderIInv
<1>2. ASSUME Len(pack) <= FullTurn[Len(PackAxes)]
      PROVE  IsInjective([n \in DOMAIN pack |-> pack[n].axes])
  BY <1>2, ItemsAreDistinct DEF BuilderIInv
<1> QED
  BY <1>1, <1>2 DEF BuilderIInv, GeneratedLoadsInFull
-----------------------------------------------------------------------------
(* The theorems about the generators. *)

\* The variants of a batch are those of its indices, in their order, the next
\* one depends on earlier steps only, and the items of a scale pack count
\* through its axes.
THEOREM BuilderInvariant == LabSpec => []BuilderIInv
<1>1. LabInit => BuilderIInv
  BY BuilderInitHolds DEF LabInit
<1>2. BuilderIInv /\ [LabNext]_labVars => BuilderIInv'
  <2> SUFFICES ASSUME BuilderIInv, [LabNext]_labVars PROVE BuilderIInv'
    OBVIOUS
  <2>1. BuilderNext \/ UNCHANGED builderVars
    BY DEF LabNext, HostWorks, LibraryWorks, BuilderWorks, MaturityWorks, SmokeWorks, labVars
  <2> QED
    BY <2>1, BuilderStep, BuilderStutters
<1> QED
  BY <1>1, <1>2, PTL DEF LabSpec

\* What build_scenario_batch writes, the loader takes in full, for tables and
\* strides of any size: validate_dag accepts every variant, no two of them have
\* one name; and no two items of a scale pack have the same axes before these
\* have gone round.
THEOREM BatchesLoadInFull == LabSpec => []GeneratedLoadsInFull
BY BuilderInvariant, InOrderLoadsInFull, PTL
-----------------------------------------------------------------------------
(* The techniques: what a run leaves, by technique. *)

\* The technique a marker belongs to: registry values, tasks and the key file
\* have no ending and are told by their place, all others by their stem.
TechniqueOf(f) ==
    IF f.ext = ""
    THEN CASE f.dir = "Test\\Modify" -> "T1112"
           [] f.dir = "Test\\Run" -> "T1547.001"
           [] f.dir = "tasks" -> "T1053.005"
           [] f.dir = "/.ssh/" -> "T1098.004"
           [] OTHER -> "T1105"
    ELSE CASE f.stem = "t1530_cloud_storage_access" -> "T1530"
           [] f.stem = "t1560_staged_data" -> "T1560"
           [] f.stem = "apt_sim_" -> "T1105"
           [] f.stem = "t1110_brute_force" -> "T1110"
           [] f.stem = "obf_" -> "T1027"
           [] f.stem = "t1055_injection_targets" -> "T1055"
           [] f.stem = "to_delete_" -> "T1070.004"
           [] f.stem = "t1048_exfil_alt" -> "T1048"
           [] f.stem = "sim_ransom_" -> "T1486"
           [] f.stem = "t1078_004_cloud_account_abuse" -> "T1078.004"
           [] f.stem = "t1021_001_rdp_probe" -> "T1021.001"
           [] f.stem = "t1021_002_smb_enum" -> "T1021.002"
           [] f.stem = "apt-sim-test" -> "T1543.002"
           [] f.stem = "catalog" -> "CATALOG"

\* The markers a run of a technique may leave.
Marks(h, t, p, f) ==
    CASE t = "T1530" -> f = T1530Marker(p)
      [] t = "T1560" -> f = T1560Marker(p)
      [] t = "T1105" -> f.dir = StagingDir(h) /\ f.stem = "apt_sim_" /\ f.ext \in {".exe", ".sh"}
      [] t = "T1110" -> f = T1110Marker(p)
      [] t = "T1027" -> f.dir = SimMarkerDir(h) /\ f.stem = "obf_" /\ f.ext = ".b64"
      [] t = "T1055" -> f = T1055Marker(p)
      [] t = "T1070.004" -> f.stem = "to_delete_" /\ f.ext = ".tmp"
      [] t = "T1112" -> h.platform = "windows" /\ f = RegistryValue("Test\\Modify", p)
      [] t = "T1048" -> f = T1048Marker(p)
      [] t = "T1486" -> f.dir = SimMarkerDir(h) /\ f.stem = "sim_ransom_" /\ f.ext = ".encrypted"
      [] t = "T1078.004" -> f = T1078Marker(p)
      [] t = "T1021.001" -> f = T1021001Marker(p)
      [] t = "T1021.002" -> f = T1021002Marker(p)
      [] t = "T1053.005" -> h.platform = "windows" /\ f = ScheduledTask(p)
      [] t = "T1098.004" -> f = SshMarker
      [] t = "T1543.002" -> f = UnitFile
      [] t = "T1547.001" -> h.platform = "windows" /\ f = RegistryValue("Test\\Run", p)
      [] t = "CATALOG" -> f = CatalogMarker(p)
      [] OTHER -> FALSE

Leaves(o, S) == o.left \subseteq S /\ o.gone = {}

LEMMA ToSetOfNone == ToSet(<< >>) = {}
BY DEF ToSet

LEMMA ToSetOfOne ==
    ASSUME NEW f
    PROVE  ToSet(<<f>>) = {f}
BY DEF ToSet

LEMMA ReadsLeave ==
    ASSUME NEW o \in Reads \cup Refused \cup {Did(<< >>)}
    PROVE  Leaves(o, {})
BY ToSetOfNone DEF Reads, Refused, Did, Failed, Outcome, Leaves

LEMMA WritesLeave ==
    ASSUME NEW f, NEW o \in Writes(f) \cup WritesGuarded(f) \cup SetsValue(f)
    PROVE  Leaves(o, {f})
BY ToSetOfOne DEF Writes, WritesGuarded, SetsValue, Did, Raised, Failed, Outcome, Leaves

\* What T1486 writes before it ends, as a list or as what is there of it.
LEMMA RansomFiles ==
    ASSUME NEW h, NEW n, NEW count \in {1, 2}, NEW k \in 0 .. count,
           NEW f \in ToSet(SubSeq(T1486Files(h, count, n), 1, k))
    PROVE  Marks(h, "T1486", << >>, f)
<1>1. PICK S : S = {File(SimMarkerDir(h), "sim_ransom_", 10 * n + i, ".encrypted") : i \in 1 .. count}
  OBVIOUS
<1>2. PICK files : files = T1486Files(h, count, n)
  OBVIOUS
<1>3. files \in Seq(S) /\ Len(files) = count
  <2>1. files \in [1 .. count -> S] /\ count \in Nat
    BY <1>1, <1>2 DEF T1486Files
  <2>2. files \in Seq(S)
    BY <2>1, SeqDef
  <2> QED
    BY <2>1, <2>2, LenProperties
<1>4. SubSeq(files, 1, k) \in Seq(S)
  <2>1. \A i \in 1 .. k : files[i] \in S
    BY <1>3, ElementOfSeq
  <2> QED
    BY <1>3, <2>1, SubSeqProperties
<1>5. f \in S
  <2>1. PICK i \in DOMAIN SubSeq(files, 1, k) : f = SubSeq(files, 1, k)[i]
    BY <1>2 DEF ToSet
  <2> QED
    BY <1>4, <2>1, ElementOfSeq
<1>6. PICK i : f = File(SimMarkerDir(h), "sim_ransom_", 10 * n + i, ".encrypted")
  BY <1>1, <1>5
<1>7. f.dir = SimMarkerDir(h) /\ f.stem = "sim_ransom_" /\ f.ext = ".encrypted"
  BY <1>6 DEF File
<1> QED
  BY <1>7 DEF Marks

\* What a run leaves are markers of the technique, and it removes nothing: but
\* for T1070.004, which may remove the marker it dropped, or one it is given.
RunDoes(d, h, t, p, o) ==
    /\ \A f \in o.left : Marks(h, t, p, f)
    /\ IF t = "T1070.004"
       THEN \A f \in o.gone : p.opt = "path" \/ Marks(h, t, p, f)
       ELSE o.gone = {}

\* Those that leave nothing.
OnlyReads ==
    {"T1005", "T1071.001", "T1003", "T1016", "T1033", "T1049", "T1057", "T1069.001", "T1082",
     "T1083", "T1580", "T1059", "T1041"}

LEMMA ReadersLeaveNothing ==
    ASSUME NEW d, NEW h, NEW t \in OnlyReads, NEW p, NEW o \in RunOutcomes(d, h, t, p)
    PROVE  Leaves(o, {})
<1>1. \A x \in Reads \cup Refused \cup {Did(<< >>)} : Leaves(x, {})
  BY ReadsLeave
<1>2. CASE t = "T1005"
  <2>1. o \in T1005Run(p)
    BY <1>2 DEF RunOutcomes
  <2> QED
    BY <1>1, <2>1 DEF T1005Run
<1>3. CASE t = "T1071.001"
  <2>1. o \in T1071Run(p)
    BY <1>3 DEF RunOutcomes
  <2> QED
    BY <1>1, <2>1 DEF T1071Run
<1>4. CASE t = "T1003"
  <2>1. o \in T1003Run
    BY <1>4 DEF RunOutcomes
  <2> QED
    BY <1>1, <2>1 DEF T1003Run
<1>5. CASE t = "T1016"
  <2>1. o \in T1016Run
    BY <1>5 DEF RunOutcomes
  <2> QED
    BY <1>1, <2>1 DEF T1016Run
<1>6. CASE t = "T1033"
  <2>1. o \in T1033Run
    BY <1>6 DEF RunOutcomes
  <2> QED
    BY <1>1, <2>1 DEF T1033Run
<1>7. CASE t = "T1049"
  <2>1. o \in T1049Run
    BY <1>7 DEF RunOutcomes
  <2> QED
    BY <1>1, <2>1 DEF T1049Run
<1>8. CASE t = "T1057"
  <2>1. o \in T1057Run
    BY <1>8 DEF RunOutcomes
  <2> QED
    BY <1>1, <2>1 DEF T1057Run
<1>9. CASE t = "T1069.001"
  <2>1. o \in T1069Run
    BY <1>9 DEF RunOutcomes
  <2> QED
    BY <1>1, <2>1 DEF T1069Run
<1>10. CASE t = "T1082"
  <2>1. o \in T1082Run
    BY <1>10 DEF RunOutcomes
  <2> QED
    BY <1>1, <2>1 DEF T1082Run
<1>11. CASE t = "T1083"
  <2>1. o \in T1083Run
    BY <1>11 DEF RunOutcomes
  <2> QED
    BY <1>1, <2>1 DEF T1083Run
<1>12. CASE t = "T1580"
  <2>1. o \in T1580Run(p)
    BY <1>12 DEF RunOutcomes
  <2> QED
    BY <1>1, <2>1 DEF T1580Run, T1580Aws, T1580Azure, T1580Gcp, Reads, Refused
<1>13. CASE t = "T1059"
  <2>1. o \in T1059Run(p)
    BY <1>13 DEF RunOutcomes
  <2> QED
    BY <1>1, <2>1 DEF T1059Run
<1>14. CASE t = "T1041"
  <2>1. o \in T1041Run(p)
    BY <1>14 DEF RunOutcomes
  <2> QED
    BY <1>1, <2>1 DEF T1041Run
<1> QED
  BY <1>2, <1>3, <1>4, <1>5, <1>6, <1>7, <1>8, <1>9, <1>10, <1>11, <1>12, <1>13, <1>14 DEF OnlyReads

LEMMA RunsLeaveMarks ==
    ASSUME NEW d, NEW h, NEW t \in Techniques, NEW p \in Params(t), NEW o \in RunOutcomes(d, h, t, p)
    PROVE  RunDoes(d, h, t, p, o)
<1>1. CASE t \in OnlyReads
  <2>1. t # "T1070.004"
    BY <1>1 DEF OnlyReads
  <2> QED
    BY <1>1, <2>1, ReadersLeaveNothing DEF Leaves, RunDoes
<1>2. \A x \in Refused : Leaves(x, {})
  BY ReadsLeave
<1>3. CASE t = "T1530"
  <2>1. o \in T1530Run(p)
    BY <1>3 DEF RunOutcomes
  <2>2. Leaves(o, {T1530Marker(p)})
    BY <1>2, <2>1, WritesLeave DEF T1530Run, Leaves
  <2> QED
    BY <1>3, <2>2 DEF Leaves, RunDoes, Marks
<1>4. CASE t = "T1560"
  <2>1. o \in T1560Run(p)
    BY <1>4 DEF RunOutcomes
  <2>2. Leaves(o, {T1560Marker(p)})
    BY <1>2, <2>1, WritesLeave DEF T1560Run, Leaves
  <2> QED
    BY <1>4, <2>2 DEF Leaves, RunDoes, Marks
<1>5. CASE t = "T1110"
  <2>1. o \in T1110Run(p)
    BY <1>5 DEF RunOutcomes
  <2>2. Leaves(o, {T1110Marker(p)})
    BY <1>2, <2>1, WritesLeave DEF T1110Run, Leaves
  <2> QED
    BY <1>5, <2>2 DEF Leaves, RunDoes, Marks
<1>6. CASE t = "T1055"
  <2>1. o \in T1055Run(p)
    BY <1>6 DEF RunOutcomes
  <2>2. Leaves(o, {T1055Marker(p)})
    BY <1>2, <2>1, WritesLeave DEF T1055Run, Leaves
  <2> QED
    BY <1>6, <2>2 DEF Leaves, RunDoes, Marks
<1>7. CASE t = "T1112"
  <2>1. o \in T1112Run(h, p)
    BY <1>7 DEF RunOutcomes
  <2>2. Leaves(o, IF h.platform = "windows" THEN {RegistryValue("Test\\Modify", p)} ELSE {})
    BY <1>2, <2>1, WritesLeave DEF T1112Run, Leaves, OnWindows
  <2> QED
    BY <1>7, <2>2 DEF Leaves, RunDoes, Marks
<1>8. CASE t = "T1048"
  <2>1. o \in T1048Run(p)
    BY <1>8 DEF RunOutcomes
  <2>2. Leaves(o, {T1048Marker(p)})
    BY <1>2, <2>1, WritesLeave DEF T1048Run, Leaves
  <2> QED
    BY <1>8, <2>2 DEF Leaves, RunDoes, Marks
<1>9. CASE t = "T1078.004"
  <2>1. o \in T1078Run(p)
    BY <1>9 DEF RunOutcomes
  <2>2. Leaves(o, {T1078Marker(p)})
    BY <1>2, <2>1, WritesLeave DEF T1078Run, Leaves
  <2> QED
    BY <1>9, <2>2 DEF Leaves, RunDoes, Marks
<1>10. CASE t = "T1021.001"
  <2>1. o \in T1021001Run(p)
    BY <1>10 DEF RunOutcomes
  <2>2. Leaves(o, {T1021001Marker(p)})
    BY <1>2, <2>1, WritesLeave DEF T1021001Run, Leaves
  <2> QED
    BY <1>10, <2>2 DEF Leaves, RunDoes, Marks
<1>11. CASE t = "T1021.002"
  <2>1. o \in T1021002Run(p)
    BY <1>11 DEF RunOutcomes
  <2>2. Leaves(o, {T1021002Marker(p)})
    BY <1>2, <2>1, WritesLeave DEF T1021002Run, Leaves
  <2> QED
    BY <1>11, <2>2 DEF Leaves, RunDoes, Marks
<1>12. CASE t = "T1098.004"
  <2>1. o \in T1098Run(h)
    BY <1>12 DEF RunOutcomes
  <2>2. Leaves(o, {SshMarker})
    BY <1>2, <2>1, WritesLeave DEF T1098Run, Leaves
  <2> QED
    BY <1>12, <2>2 DEF Leaves, RunDoes, Marks
<1>13. CASE t = "T1543.002"
  <2>1. o \in T1543Run(h)
    BY <1>13 DEF RunOutcomes
  <2>2. Leaves(o, {UnitFile})
    BY <1>2, <2>1, WritesLeave DEF T1543Run, Leaves
  <2> QED
    BY <1>13, <2>2 DEF Leaves, RunDoes, Marks
<1>14. CASE t = "T1547.001"
  <2>1. o \in T1547Run(h, p)
    BY <1>14 DEF RunOutcomes
  <2>2. Leaves(o, IF h.platform = "windows" THEN {RegistryValue("Test\\Run", p)} ELSE {})
    BY <1>2, <2>1, WritesLeave DEF T1547Run, Leaves, OnWindows
  <2> QED
    BY <1>14, <2>2 DEF Leaves, RunDoes, Marks
<1>15. CASE t = "CATALOG"
  <2>1. o \in CatalogRun(p)
    BY <1>15 DEF RunOutcomes
  <2>2. Leaves(o, {CatalogMarker(p)})
    BY <1>2, <2>1, WritesLeave DEF CatalogRun, Leaves
  <2> QED
    BY <1>15, <2>2 DEF Leaves, RunDoes, Marks
<1>16. CASE t = "T1053.005"
  <2>1. o \in T1053Run(h, p)
    BY <1>16 DEF RunOutcomes
  <2>2. Leaves(o, IF h.platform = "windows" THEN {ScheduledTask(p)} ELSE {})
    BY <1>2, <2>1, ToSetOfOne DEF T1053Run, OnWindows, Did, Failed, Outcome, Leaves
  <2> QED
    BY <1>16, <2>2 DEF Leaves, RunDoes, Marks
<1>17. CASE t = "T1105"
  <2>1. PICK n \in Stamps : o \in WritesGuarded(File(StagingDir(h), "apt_sim_", n, p.opt))
    <3>1. o \in T1105Run(h, p)
      BY <1>17 DEF RunOutcomes
    <3> QED
      BY <3>1 DEF T1105Run
  <2>2. PICK f : f = File(StagingDir(h), "apt_sim_", n, p.opt)
    OBVIOUS
  <2>3. Leaves(o, {f})
    BY <2>1, <2>2, WritesLeave
  <2>4. p.opt \in {".exe", ".sh"}
    BY <1>17 DEF Params, Options
  <2>5. Marks(h, t, p, f)
    BY <1>17, <2>2, <2>4 DEF File, Marks
  <2> QED
    BY <1>17, <2>3, <2>5 DEF Leaves, RunDoes
<1>18. CASE t = "T1027"
  <2>1. PICK n \in Stamps : o \in Writes(File(SimMarkerDir(h), "obf_", n, ".b64"))
    <3>1. o \in T1027Run(h)
      BY <1>18 DEF RunOutcomes
    <3> QED
      BY <3>1 DEF T1027Run
  <2>2. PICK f : f = File(SimMarkerDir(h), "obf_", n, ".b64")
    OBVIOUS
  <2>3. Leaves(o, {f})
    BY <2>1, <2>2, WritesLeave
  <2>4. Marks(h, t, p, f)
    BY <1>18, <2>2 DEF File, Marks
  <2> QED
    BY <1>18, <2>3, <2>4 DEF Leaves, RunDoes
<1>19. CASE t = "T1070.004"
  <2>0. o \in T1070Run(d, h, p)
    BY <1>19 DEF RunOutcomes
  <2>1. CASE p.opt = "outside"
    <3>1. Leaves(o, {})
      BY <1>2, <2>0, <2>1 DEF T1070Run
    <3> QED
      BY <1>19, <3>1 DEF Leaves, RunDoes
  <2>2. CASE p.opt = "no_path"
    <3>1. PICK n, f :
            /\ f = T1070Target(h, p, n)
            /\ o \in {Outcome("ok", {}, {f}, <<f>>), Raised({}), Raised({f})}
      BY <2>0, <2>2 DEF T1070Run
    <3>2. o.left \subseteq {f} /\ o.gone \subseteq {f}
      BY <3>1 DEF Outcome, Raised
    <3>3. Marks(h, t, p, f)
      BY <1>19, <2>2, <3>1 DEF T1070Target, File, Marks
    <3> QED
      BY <1>19, <3>2, <3>3 DEF RunDoes
  <2>3. CASE p.opt \notin {"outside", "no_path"}
    <3>1. p.opt = "path"
      BY <1>19, <2>3 DEF Params, Options
    <3>2. PICK n, f :
            /\ f = T1070Target(h, p, n)
            /\ o \in IF f \in d THEN {Outcome("ok", {}, {f}, <<f>>), Raised({})}
                                ELSE {Did(<< >>), Raised({})}
      BY <2>0, <2>3 DEF T1070Run
    <3>3. o.left = {}
      BY <3>2, ToSetOfNone DEF Outcome, Raised, Did
    <3> QED
      BY <1>19, <3>1, <3>3 DEF RunDoes
  <2> QED
    BY <2>1, <2>2, <2>3
<1>20. CASE t = "T1486"
  <2>1. PICK count, n : /\ count \in {1, 2} /\ n \in Stamps
                        /\ o \in {Did(SubSeq(T1486Files(h, count, n), 1, count)), Raised({})}
                               \cup {Failed(ToSet(SubSeq(T1486Files(h, count, n), 1, jk[1])),
                                            SubSeq(T1486Files(h, count, n), 1, jk[2])) : jk \in
                                        {x \in (0 .. count) \X (0 .. count - 1) : x[1] \in {x[2], x[2] + 1}}}
    <3>1. o \in T1486Run(h, p)
      BY <1>20 DEF RunOutcomes
    <3> QED
      BY <3>1 DEF T1486Run
  <2>2. CASE o \in {Did(SubSeq(T1486Files(h, count, n), 1, count)), Raised({})}
    <3>1. count \in 0 .. count
      BY <2>1
    <3>2. o.gone = {} /\ o.left \subseteq ToSet(SubSeq(T1486Files(h, count, n), 1, count))
      BY <2>2 DEF Did, Raised, Outcome
    <3>3. \A f \in o.left : Marks(h, "T1486", << >>, f)
      BY <2>1, <3>1, <3>2, RansomFiles
    <3> QED
      BY <1>20, <3>2, <3>3 DEF RunDoes, Marks
  <2>3. CASE o \notin {Did(SubSeq(T1486Files(h, count, n), 1, count)), Raised({})}
    <3>1. PICK jk \in (0 .. count) \X (0 .. count - 1) :
            o = Failed(ToSet(SubSeq(T1486Files(h, count, n), 1, jk[1])),
                       SubSeq(T1486Files(h, count, n), 1, jk[2]))
      BY <2>1, <2>3
    <3>2. jk[1] \in 0 .. count
      BY <3>1
    <3>3. o.gone = {} /\ o.left = ToSet(SubSeq(T1486Files(h, count, n), 1, jk[1]))
      BY <3>1 DEF Failed, Outcome
    <3>4. \A f \in o.left : Marks(h, "T1486", << >>, f)
      BY <2>1, <3>2, <3>3, RansomFiles
    <3> QED
      BY <1>20, <3>3, <3>4 DEF RunDoes, Marks
  <2> QED
    BY <2>2, <2>3
<1> QED
  BY <1>1, <1>3, <1>4, <1>5, <1>6, <1>7, <1>8, <1>9, <1>10, <1>11, <1>12, <1>13, <1>14, <1>15, <1>16, <1>17, <1>18, <1>19, <1>20 DEF Techniques, OnlyReads

FootprintAt(h, t, p) == UNION {o.left : o \in RunOutcomes({}, h, t, p)}

\* Footprint asks what a run leaves on an empty host; on any other it is no more.
LEMMA LeftIsFootprint ==
    ASSUME NEW d, NEW h, NEW t \in Techniques, NEW p \in Params(t), NEW o \in RunOutcomes(d, h, t, p)
    PROVE  o.left \subseteq FootprintAt(h, t, p)
<1>1. CASE t # "T1070.004"
  <2>1. RunOutcomes(d, h, t, p) = RunOutcomes({}, h, t, p)
    BY <1>1 DEF RunOutcomes, Techniques
  <2> QED
    BY <2>1 DEF FootprintAt
<1>2. CASE t = "T1070.004"
  <2>1. o \in T1070Run(d, h, p) /\ RunOutcomes({}, h, t, p) = T1070Run({}, h, p)
    BY <1>2 DEF RunOutcomes
  <2>2. CASE p.opt = "no_path"
    <3>1. T1070Run(d, h, p) = T1070Run({}, h, p)
      BY <2>2 DEF T1070Run
    <3> QED
      BY <2>1, <3>1 DEF FootprintAt
  <2>3. CASE p.opt # "no_path"
    <3>1. o.left = {}
      <4>1. CASE p.opt = "outside"
        <5>1. o \in Refused
          BY <2>1, <4>1 DEF T1070Run
        <5> QED
          BY <5>1, ReadsLeave DEF Leaves
      <4>2. CASE p.opt # "outside"
        <5>1. PICK n, f :
                /\ f = T1070Target(h, p, n)
                /\ o \in IF f \in d THEN {Outcome("ok", {}, {f}, <<f>>), Raised({})}
                                    ELSE {Did(<< >>), Raised({})}
          BY <2>1, <2>3, <4>2 DEF T1070Run
        <5> QED
          BY <5>1, ToSetOfNone DEF Outcome, Raised, Did
      <4> QED
        BY <4>1, <4>2
    <3> QED
      BY <3>1
  <2> QED
    BY <2>2, <2>3
<1> QED
  BY <1>1, <1>2

LEMMA FootprintIsMarks ==
    ASSUME NEW h, NEW t \in Techniques, NEW p \in Params(t), NEW f \in FootprintAt(h, t, p)
    PROVE  Marks(h, t, p, f)
<1>1. PICK o \in RunOutcomes({}, h, t, p) : f \in o.left
  BY DEF FootprintAt
<1> QED
  BY <1>1, RunsLeaveMarks DEF RunDoes

\* A marker tells its technique.
LEMMA MarksTell ==
    ASSUME NEW h, NEW t \in Techniques, NEW p, NEW f, Marks(h, t, p, f)
    PROVE  TechniqueOf(f) = t
<1>1. CASE t = "T1530"
  <2>1. f.stem = "t1530_cloud_storage_access" /\ f.ext = ".jsonl"
    BY <1>1 DEF T1530Marker, File, Marks
  <2> QED
    BY <1>1, <2>1 DEF TechniqueOf
<1>2. CASE t = "T1560"
  <2>1. f.stem = "t1560_staged_data" /\ f.ext = ".zip"
    BY <1>2 DEF T1560Marker, File, Marks
  <2> QED
    BY <1>2, <2>1 DEF TechniqueOf
<1>3. CASE t = "T1105"
  <2>1. f.stem = "apt_sim_" /\ f.ext \in {".exe", ".sh"}
    BY <1>3 DEF Marks
  <2> QED
    BY <1>3, <2>1 DEF TechniqueOf
<1>4. CASE t = "T1110"
  <2>1. f.stem = "t1110_brute_force" /\ f.ext = ".jsonl"
    BY <1>4 DEF T1110Marker, File, Marks
  <2> QED
    BY <1>4, <2>1 DEF TechniqueOf
<1>5. CASE t = "T1027"
  <2>1. f.stem = "obf_" /\ f.ext = ".b64"
    BY <1>5 DEF Marks
  <2> QED
    BY <1>5, <2>1 DEF TechniqueOf
<1>6. CASE t = "T1055"
  <2>1. f.stem = "t1055_injection_targets" /\ f.ext = ".json"
    BY <1>6 DEF T1055Marker, File, Marks
  <2> QED
    BY <1>6, <2>1 DEF TechniqueOf
<1>7. CASE t = "T1070.004"
  <2>1. f.stem = "to_delete_" /\ f.ext = ".tmp"
    BY <1>7 DEF Marks
  <2> QED
    BY <1>7, <2>1 DEF TechniqueOf
<1>8. CASE t = "T1112"
  <2>1. f = RegistryValue("Test\\Modify", p)
    BY <1>8 DEF Marks
  <2>2. f.dir = "Test\\Modify" /\ f.ext = ""
    BY <2>1 DEF RegistryValue, File
  <2> QED
    BY <1>8, <2>2 DEF TechniqueOf
<1>9. CASE t = "T1048"
  <2>1. f.stem = "t1048_exfil_alt" /\ f.ext = ".b64"
    BY <1>9 DEF T1048Marker, File, Marks
  <2> QED
    BY <1>9, <2>1 DEF TechniqueOf
<1>10. CASE t = "T1486"
  <2>1. f.stem = "sim_ransom_" /\ f.ext = ".encrypted"
    BY <1>10 DEF Marks
  <2> QED
    BY <1>10, <2>1 DEF TechniqueOf
<1>11. CASE t = "T1078.004"
  <2>1. f.stem = "t1078_004_cloud_account_abuse" /\ f.ext = ".jsonl"
    BY <1>11 DEF T1078Marker, File, Marks
  <2> QED
    BY <1>11, <2>1 DEF TechniqueOf
<1>12. CASE t = "T1021.001"
  <2>1. f.stem = "t1021_001_rdp_probe" /\ f.ext = ".txt"
    BY <1>12 DEF T1021001Marker, File, Marks
  <2> QED
    BY <1>12, <2>1 DEF TechniqueOf
<1>13. CASE t = "T1021.002"
  <2>1. f.stem = "t1021_002_smb_enum" /\ f.ext = ".txt"
    BY <1>13 DEF T1021002Marker, File, Marks
  <2> QED
    BY <1>13, <2>1 DEF TechniqueOf
<1>14. CASE t = "T1053.005"
  <2>1. f = ScheduledTask(p)
    BY <1>14 DEF Marks
  <2>2. f.dir = "tasks" /\ f.ext = ""
    BY <2>1 DEF ScheduledTask, File
  <2> QED
    BY <1>14, <2>2 DEF TechniqueOf
<1>15. CASE t = "T1098.004"
  <2>1. f = SshMarker
    BY <1>15 DEF Marks
  <2>2. f.dir = "/.ssh/" /\ f.ext = ""
    BY <2>1 DEF SshMarker, File
  <2> QED
    BY <1>15, <2>2 DEF TechniqueOf
<1>16. CASE t = "T1543.002"
  <2>1. f.stem = "apt-sim-test" /\ f.ext = ".service"
    BY <1>16 DEF UnitFile, File, Marks
  <2> QED
    BY <1>16, <2>1 DEF TechniqueOf
<1>17. CASE t = "T1547.001"
  <2>1. f = RegistryValue("Test\\Run", p)
    BY <1>17 DEF Marks
  <2>2. f.dir = "Test\\Run" /\ f.ext = ""
    BY <2>1 DEF RegistryValue, File
  <2> QED
    BY <1>17, <2>2 DEF TechniqueOf
<1>18. CASE t = "CATALOG"
  <2>1. f.stem = "catalog" /\ f.ext = ".json"
    BY <1>18 DEF CatalogMarker, File, Marks
  <2> QED
    BY <1>18, <2>1 DEF TechniqueOf
<1> QED
  BY <1>1, <1>2, <1>3, <1>4, <1>5, <1>6, <1>7, <1>8, <1>9, <1>10, <1>11, <1>12, <1>13, <1>14, <1>15, <1>16, <1>17, <1>18 DEF Marks

-----------------------------------------------------------------------------
(* The techniques: what a cleanup takes away. *)

\* A cleanup takes files of its own technique that are there, or tries to; one
\* that is ok misses none of those a run with its directory may have left.
CleanupDoes(d, h, t, p, o) ==
    /\ o.gone \subseteq d /\ o.left \subseteq d
    /\ \A f \in o.gone : TechniqueOf(f) = t
    /\ o.how = "ok" /\ t # "T1070.004" =>
         \A q \in Params(t) : q.dir = p.dir =>
           \A f \in d : Marks(h, t, q, f) => f \in o.gone \cup o.left

LEMMA UnlinksTakes ==
    ASSUME NEW d, NEW g, NEW o \in Unlinks(d, g)
    PROVE  /\ o.left = {} /\ o.gone \subseteq {g} \cap d
           /\ o.how = "ok" => {g} \cap d \subseteq o.gone
BY DEF Unlinks, Removed, Outcome

LEMMA UnlinksAllTakes ==
    ASSUME NEW found, NEW o \in UnlinksAll(found)
    PROVE  /\ o.left = {} /\ o.gone \subseteq found
           /\ o.how = "ok" => o.gone = found
BY DEF UnlinksAll, Removed, Outcome

LEMMA DeletesTakes ==
    ASSUME NEW d, NEW g, NEW o \in DeletesValue(d, g)
    PROVE  /\ o.left = {} /\ o.gone \subseteq {g} \cap d
           /\ o.how = "ok" => {g} \cap d \subseteq o.gone
BY DEF DeletesValue, Removed, Outcome

LEMMA CleanupsTakeMarks ==
    ASSUME NEW d, NEW h, NEW t \in Techniques, NEW p, NEW o \in CleanupOutcomes(d, h, t, p)
    PROVE  CleanupDoes(d, h, t, p, o)
<1>1. CASE t = "T1530"
  <2>1. o \in Unlinks(d, T1530Marker(p))
    BY <1>1 DEF CleanupOutcomes, T1530Cleanup
  <2>2. Marks(h, t, p, T1530Marker(p)) /\ \A q, f : Marks(h, t, q, f) /\ q.dir = p.dir => f = T1530Marker(p)
    BY <1>1 DEF Marks, T1530Marker
  <2> QED
    BY <2>1, <2>2, UnlinksTakes, MarksTell DEF CleanupDoes
<1>2. CASE t = "T1560"
  <2>1. o \in Unlinks(d, T1560Marker(p))
    BY <1>2 DEF CleanupOutcomes, T1560Cleanup
  <2>2. Marks(h, t, p, T1560Marker(p)) /\ \A q, f : Marks(h, t, q, f) /\ q.dir = p.dir => f = T1560Marker(p)
    BY <1>2 DEF Marks, T1560Marker
  <2> QED
    BY <2>1, <2>2, UnlinksTakes, MarksTell DEF CleanupDoes
<1>3. CASE t = "T1110"
  <2>1. o \in Unlinks(d, T1110Marker(p))
    BY <1>3 DEF CleanupOutcomes, T1110Cleanup
  <2>2. Marks(h, t, p, T1110Marker(p)) /\ \A q, f : Marks(h, t, q, f) /\ q.dir = p.dir => f = T1110Marker(p)
    BY <1>3 DEF Marks, T1110Marker
  <2> QED
    BY <2>1, <2>2, UnlinksTakes, MarksTell DEF CleanupDoes
<1>4. CASE t = "T1055"
  <2>1. o \in Unlinks(d, T1055Marker(p))
    BY <1>4 DEF CleanupOutcomes, T1055Cleanup
  <2>2. Marks(h, t, p, T1055Marker(p)) /\ \A q, f : Marks(h, t, q, f) /\ q.dir = p.dir => f = T1055Marker(p)
    BY <1>4 DEF Marks, T1055Marker
  <2> QED
    BY <2>1, <2>2, UnlinksTakes, MarksTell DEF CleanupDoes
<1>5. CASE t = "T1048"
  <2>1. o \in Unlinks(d, T1048Marker(p))
    BY <1>5 DEF CleanupOutcomes, T1048Cleanup
  <2>2. Marks(h, t, p, T1048Marker(p)) /\ \A q, f : Marks(h, t, q, f) /\ q.dir = p.dir => f = T1048Marker(p)
    BY <1>5 DEF Marks, T1048Marker
  <2> QED
    BY <2>1, <2>2, UnlinksTakes, MarksTell DEF CleanupDoes
<1>6. CASE t = "T1078.004"
  <2>1. o \in Unlinks(d, T1078Marker(p))
    BY <1>6 DEF CleanupOutcomes, T1078Cleanup
  <2>2. Marks(h, t, p, T1078Marker(p)) /\ \A q, f : Marks(h, t, q, f) /\ q.dir = p.dir => f = T1078Marker(p)
    BY <1>6 DEF Marks, T1078Marker
  <2> QED
    BY <2>1, <2>2, UnlinksTakes, MarksTell DEF CleanupDoes
<1>7. CASE t = "T1021.001"
  <2>1. o \in Unlinks(d, T1021001Marker(p))
    BY <1>7 DEF CleanupOutcomes, T1021001Cleanup
  <2>2. Marks(h, t, p, T1021001Marker(p)) /\ \A q, f : Marks(h, t, q, f) /\ q.dir = p.dir => f = T1021001Marker(p)
    BY <1>7 DEF Marks, T1021001Marker
  <2> QED
    BY <2>1, <2>2, UnlinksTakes, MarksTell DEF CleanupDoes
<1>8. CASE t = "T1021.002"
  <2>1. o \in Unlinks(d, T1021002Marker(p))
    BY <1>8 DEF CleanupOutcomes, T1021002Cleanup
  <2>2. Marks(h, t, p, T1021002Marker(p)) /\ \A q, f : Marks(h, t, q, f) /\ q.dir = p.dir => f = T1021002Marker(p)
    BY <1>8 DEF Marks, T1021002Marker
  <2> QED
    BY <2>1, <2>2, UnlinksTakes, MarksTell DEF CleanupDoes
<1>9. CASE t = "CATALOG"
  <2>1. o \in Unlinks(d, CatalogMarker(p))
    BY <1>9 DEF CleanupOutcomes, CatalogCleanup
  <2>2. Marks(h, t, p, CatalogMarker(p)) /\ \A q, f : Marks(h, t, q, f) /\ q.dir = p.dir => f = CatalogMarker(p)
    BY <1>9 DEF Marks, CatalogMarker
  <2> QED
    BY <2>1, <2>2, UnlinksTakes, MarksTell DEF CleanupDoes
<1>10. CASE t = "T1098.004"
  <2>1. o \in Unlinks(d, SshMarker)
    BY <1>10 DEF CleanupOutcomes, T1098Cleanup
  <2>2. Marks(h, t, p, SshMarker) /\ \A q, f : Marks(h, t, q, f) => f = SshMarker
    BY <1>10 DEF Marks
  <2> QED
    BY <2>1, <2>2, UnlinksTakes, MarksTell DEF CleanupDoes
<1>11. CASE t = "T1543.002"
  <2>1. o \in Unlinks(d, UnitFile)
    BY <1>11 DEF CleanupOutcomes, T1543Cleanup
  <2>2. Marks(h, t, p, UnitFile) /\ \A q, f : Marks(h, t, q, f) => f = UnitFile
    BY <1>11 DEF Marks
  <2> QED
    BY <2>1, <2>2, UnlinksTakes, MarksTell DEF CleanupDoes
<1>12. CASE t = "T1112"
  <2>0. o \in T1112Cleanup(d, h, p)
    BY <1>12 DEF CleanupOutcomes
  <2>1. CASE h.platform = "windows"
    <3>1. PICK v : v = RegistryValue("Test\\Modify", p)
      OBVIOUS
    <3>2. o \in DeletesValue(d, v)
      BY <2>0, <2>1, <3>1 DEF T1112Cleanup
    <3>3. Marks(h, t, p, v) /\ \A q, f : Marks(h, t, q, f) /\ q.dir = p.dir => f = v
      BY <1>12, <2>1, <3>1 DEF Marks, RegistryValue
    <3> QED
      BY <3>2, <3>3, DeletesTakes, MarksTell DEF CleanupDoes
  <2>2. CASE h.platform # "windows"
    <3>1. o.gone = {} /\ o.left = {}
      BY <2>0, <2>2 DEF T1112Cleanup, NothingToClean, Removed, Outcome
    <3>2. \A q, f : ~Marks(h, t, q, f)
      BY <1>12, <2>2 DEF Marks
    <3> QED
      BY <3>1, <3>2 DEF CleanupDoes
  <2> QED
    BY <2>1, <2>2
<1>13. CASE t = "T1547.001"
  <2>0. o \in T1547Cleanup(d, h, p)
    BY <1>13 DEF CleanupOutcomes
  <2>1. CASE h.platform = "windows"
    <3>1. PICK v : v = RegistryValue("Test\\Run", p)
      OBVIOUS
    <3>2. o \in DeletesValue(d, v)
      BY <2>0, <2>1, <3>1 DEF T1547Cleanup
    <3>3. Marks(h, t, p, v) /\ \A q, f : Marks(h, t, q, f) /\ q.dir = p.dir => f = v
      BY <1>13, <2>1, <3>1 DEF Marks, RegistryValue
    <3> QED
      BY <3>2, <3>3, DeletesTakes, MarksTell DEF CleanupDoes
  <2>2. CASE h.platform # "windows"
    <3>1. o.gone = {} /\ o.left = {}
      BY <2>0, <2>2 DEF T1547Cleanup, NothingToClean, Removed, Outcome
    <3>2. \A q, f : ~Marks(h, t, q, f)
      BY <1>13, <2>2 DEF Marks
    <3> QED
      BY <3>1, <3>2 DEF CleanupDoes
  <2> QED
    BY <2>1, <2>2
<1>14. CASE t = "T1053.005"
  <2>0. o \in T1053Cleanup(d, h, p)
    BY <1>14 DEF CleanupOutcomes
  <2>1. CASE h.platform = "windows"
    <3>1. PICK v : v = ScheduledTask(p)
      OBVIOUS
    <3>2. /\ o.left = {} /\ o.gone \subseteq {v} \cap d
          /\ o.how = "ok" => {v} \cap d \subseteq o.gone
      BY <2>0, <2>1, <3>1 DEF T1053Cleanup, Removed, Outcome
    <3>3. Marks(h, t, p, v) /\ \A q, f : Marks(h, t, q, f) /\ q.dir = p.dir => f = v
      BY <1>14, <2>1, <3>1 DEF Marks, ScheduledTask
    <3> QED
      BY <3>2, <3>3, MarksTell DEF CleanupDoes
  <2>2. CASE h.platform # "windows"
    <3>1. o.gone = {} /\ o.left = {}
      BY <2>0, <2>2 DEF T1053Cleanup, NothingToClean, Removed, Outcome
    <3>2. \A q, f : ~Marks(h, t, q, f)
      BY <1>14, <2>2 DEF Marks
    <3> QED
      BY <3>1, <3>2 DEF CleanupDoes
  <2> QED
    BY <2>1, <2>2
<1>15. CASE t = "T1027"
  <2>1. PICK found : found = Glob(d, SimMarkerDir(h), "obf_", {".b64"})
    OBVIOUS
  <2>2. o \in UnlinksAll(found)
    BY <1>15, <2>1 DEF CleanupOutcomes, T1027Cleanup
  <2>3. found \subseteq d /\ \A f \in d : f \in found <=> Marks(h, t, p, f)
    BY <1>15, <2>1 DEF Glob, Marks
  <2>4. \A q, f : Marks(h, t, q, f) => Marks(h, t, p, f)
    BY <1>15 DEF Marks
  <2> QED
    BY <2>2, <2>3, <2>4, UnlinksAllTakes, MarksTell DEF CleanupDoes
<1>16. CASE t = "T1486"
  <2>1. PICK found : found = Glob(d, SimMarkerDir(h), "sim_ransom_", {".encrypted"})
    OBVIOUS
  <2>2. o \in UnlinksAll(found)
    BY <1>16, <2>1 DEF CleanupOutcomes, T1486Cleanup
  <2>3. found \subseteq d /\ \A f \in d : f \in found <=> Marks(h, t, p, f)
    BY <1>16, <2>1 DEF Glob, Marks
  <2>4. \A q, f : Marks(h, t, q, f) => Marks(h, t, p, f)
    BY <1>16 DEF Marks
  <2> QED
    BY <2>2, <2>3, <2>4, UnlinksAllTakes, MarksTell DEF CleanupDoes
<1>17. CASE t = "T1105"
  <2>1. PICK found : found = Glob(d, StagingDir(h), "apt_sim_", {f.ext : f \in d})
    OBVIOUS
  <2>2. PICK s \in SUBSET found : o = Outcome("ok", found \ s, s, << >>)
    BY <1>17, <2>1 DEF CleanupOutcomes, T1105Cleanup
  <2>3. found \subseteq d /\ \A f \in found : TechniqueOf(f) = t
    BY <1>17, <2>1 DEF Glob, TechniqueOf, StagingDir
  <2>4. \A q, f : f \in d /\ Marks(h, t, q, f) => f \in found
    BY <1>17, <2>1 DEF Glob, Marks
  <2>5. o.gone = s /\ o.left = found \ s
    BY <2>2 DEF Outcome
  <2> QED
    BY <2>2, <2>3, <2>4, <2>5 DEF CleanupDoes
<1>18. CASE t = "T1070.004" \/ t \in OnlyReads
  <2>1. o \in NothingToClean
    BY <1>18 DEF CleanupOutcomes, OnlyReads
  <2>2. o.gone = {} /\ o.left = {}
    BY <2>1 DEF NothingToClean, Removed, Outcome
  <2>3. ASSUME t \in OnlyReads, NEW q, NEW f, Marks(h, t, q, f) PROVE FALSE
    BY <2>3 DEF Marks, OnlyReads
  <2> QED
    BY <2>2, <2>3, <1>18 DEF CleanupDoes
<1> QED
  BY <1>1, <1>2, <1>3, <1>4, <1>5, <1>6, <1>7, <1>8, <1>9, <1>10, <1>11, <1>12, <1>13, <1>14, <1>15, <1>16, <1>17, <1>18 DEF Techniques, OnlyReads

-----------------------------------------------------------------------------
(* The techniques: the inductive invariant of a host. *)

\* The calls there are: technique and parameters.
Calls == UNION {{t} \X Params(t) : t \in Techniques}

\* Every file of the simulator on the disk is one that some run may leave.
FromRuns(d, h) == \A f \in d : \E t \in Techniques : \E p \in Params(t) : f \in FootprintAt(h, t, p)

\* LeftoversAreOfUncleanedRuns, of a disk d with the stuck files s after the
\* calls c.
Explained(d, s, c, h) ==
    \A f \in d \ s :
        \/ f.stem = "to_delete_"
        \/ \E tp \in c : f \in FootprintAt(h, tp[1], tp[2])

HostIInv ==
    /\ HostTypeOK
    /\ FromRuns(disk, host)
    /\ Explained(disk, stuck, dirty, host)

LEMMA CallParts ==
    ASSUME NEW tp \in Calls
    PROVE  tp[1] \in Techniques /\ tp[2] \in Params(tp[1]) /\ tp = <<tp[1], tp[2]>>
<1>1. PICK t \in Techniques : tp \in {t} \X Params(t)
  BY DEF Calls
<1>2. PICK p \in Params(t) : tp = <<t, p>>
  BY <1>1
<1> QED
  BY <1>2

LEMMA PairIsCall ==
    ASSUME NEW t \in Techniques, NEW p \in Params(t)
    PROVE  <<t, p>> \in Calls
<1>1. <<t, p>> \in {t} \X Params(t)
  OBVIOUS
<1> QED
  BY <1>1 DEF Calls

LEMMA RunExplained ==
    ASSUME NEW d, NEW s, NEW c, NEW h, NEW t \in Techniques, NEW p \in Params(t),
           NEW o \in RunOutcomes(d, h, t, p),
           s \subseteq d, FromRuns(d, h), Explained(d, s, c, h)
    PROVE  LET d2 == (d \ o.gone) \cup o.left
               s2 == s \ (o.gone \cup o.left)
           IN  s2 \subseteq d2 /\ FromRuns(d2, h) /\ Explained(d2, s2, c \cup {<<t, p>>}, h)
<1> DEFINE d2 == (d \ o.gone) \cup o.left
           s2 == s \ (o.gone \cup o.left)
<1>1. \A f \in o.left : f \in FootprintAt(h, t, p)
  BY LeftIsFootprint
<1>2. s2 \subseteq d2
  OBVIOUS
<1>3. FromRuns(d2, h)
  BY <1>1 DEF FromRuns
<1>4. Explained(d2, s2, c \cup {<<t, p>>}, h)
  <2> SUFFICES ASSUME NEW f \in d2 \ s2, f.stem # "to_delete_"
               PROVE  \E tp \in c \cup {<<t, p>>} : f \in FootprintAt(h, tp[1], tp[2])
    BY DEF Explained
  <2>1. CASE f \in o.left
    <3>1. PICK tp : tp = <<t, p>>
      OBVIOUS
    <3>2. tp[1] = t /\ tp[2] = p
      BY <3>1
    <3>3. f \in FootprintAt(h, tp[1], tp[2])
      BY <1>1, <2>1, <3>2
    <3> QED
      BY <3>1, <3>3
  <2>2. CASE f \notin o.left
    <3>1. f \in d \ s
      BY <2>2
    <3> QED
      BY <3>1 DEF Explained
  <2> QED
    BY <2>1, <2>2
<1> QED
  BY <1>2, <1>3, <1>4

\* The calls a cleanup that is ok accounts for.
Cleaned(t, p) == {<<t, q>> : q \in {x \in Params(t) : x.dir = p.dir}}

LEMMA CleanupExplained ==
    ASSUME NEW d, NEW s, NEW c \in SUBSET Calls, NEW h, NEW t \in Techniques, NEW p \in Params(t),
           NEW o \in CleanupOutcomes(d, h, t, p),
           s \subseteq d, FromRuns(d, h), Explained(d, s, c, h)
    PROVE  LET d2 == d \ o.gone
               s2 == (s \cup o.left) \ o.gone
               c2 == IF o.how = "ok" THEN c \ Cleaned(t, p) ELSE c
           IN  s2 \subseteq d2 /\ FromRuns(d2, h) /\ Explained(d2, s2, c2, h)
<1> DEFINE d2 == d \ o.gone
           s2 == (s \cup o.left) \ o.gone
           c2 == IF o.how = "ok" THEN c \ Cleaned(t, p) ELSE c
<1>1. CleanupDoes(d, h, t, p, o)
  BY CleanupsTakeMarks
<1>2. s2 \subseteq d2
  BY <1>1 DEF CleanupDoes
<1>3. FromRuns(d2, h)
  BY DEF FromRuns
<1>4. Explained(d2, s2, c2, h)
  <2> SUFFICES ASSUME NEW f \in d2 \ s2, f.stem # "to_delete_"
               PROVE  \E tp \in c2 : f \in FootprintAt(h, tp[1], tp[2])
    BY DEF Explained
  <2>1. f \in d /\ f \notin s /\ f \notin o.gone /\ f \notin o.left
    OBVIOUS
  <2>2. PICK tp \in c : f \in FootprintAt(h, tp[1], tp[2])
    BY <2>1 DEF Explained
  <2>3. ASSUME o.how = "ok", tp \in Cleaned(t, p) PROVE FALSE
    <3>1. PICK q \in Params(t) : q.dir = p.dir /\ tp = <<t, q>>
      BY <2>3 DEF Cleaned
    <3>2. f \in FootprintAt(h, t, q)
      BY <2>2, <3>1
    <3>3. Marks(h, t, q, f)
      BY <3>2, FootprintIsMarks
    <3>4. t # "T1070.004"
      BY <3>3 DEF Marks
    <3> QED
      BY <1>1, <2>1, <2>3, <3>1, <3>3, <3>4 DEF CleanupDoes
  <2> QED
    BY <2>2, <2>3
<1> QED
  BY <1>2, <1>3, <1>4

LEMMA HostInitHolds == HostInit => HostIInv
BY HostBounds DEF HostInit, HostIInv, HostTypeOK, FromRuns, Explained

LEMMA RunTechniqueStep ==
    ASSUME HostIInv, NEW t \in Techniques, NEW p \in Params(t), RunTechnique(t, p)
    PROVE  HostIInv'
<1>1. PICK o \in RunOutcomes(disk, host, t, p) :
        /\ disk' = (disk \ o.gone) \cup o.left
        /\ stuck' = stuck \ (o.gone \cup o.left)
  BY DEF RunTechnique
<1>2. dirty' = dirty \cup {<<t, p>>} /\ host' = host /\ calls' = calls + 1 /\ calls < MaxCalls
  BY DEF RunTechnique
<1>3. stuck \subseteq disk /\ FromRuns(disk, host) /\ Explained(disk, stuck, dirty, host)
  BY DEF HostIInv, HostTypeOK
<1>4. /\ stuck' \subseteq disk' /\ FromRuns(disk', host)
      /\ Explained(disk', stuck', dirty', host)
  BY <1>1, <1>2, <1>3, RunExplained
<1>5. dirty' \subseteq UNION {{x} \X Params(x) : x \in Techniques}
  BY <1>2, PairIsCall DEF HostIInv, HostTypeOK, Calls
<1>6. calls' \in 0 .. MaxCalls
  BY <1>2, HostBounds DEF HostIInv, HostTypeOK
<1>7. host' \in [platform : Platforms, lab : BOOLEAN]
  BY <1>2 DEF HostIInv, HostTypeOK
<1>8. HostTypeOK'
  BY <1>4, <1>5, <1>6, <1>7 DEF HostTypeOK
<1>9. FromRuns(disk', host') /\ Explained(disk', stuck', dirty', host')
  BY <1>2, <1>4
<1> QED
  BY <1>8, <1>9 DEF HostIInv

LEMMA CleanupTechniqueStep ==
    ASSUME HostIInv, NEW t \in Techniques, NEW p \in Params(t), CleanupTechnique(t, p)
    PROVE  HostIInv'
<1>1. PICK o \in CleanupOutcomes(disk, host, t, p) :
        /\ disk' = disk \ o.gone
        /\ dirty' = IF o.how = "ok" THEN dirty \ Cleaned(t, p) ELSE dirty
        /\ stuck' = (stuck \cup o.left) \ o.gone
  BY DEF CleanupTechnique, Cleaned
<1>2. host' = host /\ calls' = calls
  BY DEF CleanupTechnique
<1>3. /\ dirty \in SUBSET Calls /\ stuck \subseteq disk
      /\ FromRuns(disk, host) /\ Explained(disk, stuck, dirty, host)
  BY DEF HostIInv, HostTypeOK, Calls
<1>4. /\ stuck' \subseteq disk' /\ FromRuns(disk', host)
      /\ Explained(disk', stuck', dirty', host)
  BY <1>1, <1>3, CleanupExplained
<1>5. dirty' \subseteq UNION {{x} \X Params(x) : x \in Techniques}
  BY <1>1 DEF HostIInv, HostTypeOK
<1>6. HostTypeOK'
  BY <1>2, <1>4, <1>5 DEF HostIInv, HostTypeOK
<1>7. FromRuns(disk', host') /\ Explained(disk', stuck', dirty', host')
  BY <1>2, <1>4
<1> QED
  BY <1>6, <1>7 DEF HostIInv

\* HostNext cleans up what is dirty, with the parameters of the run.
LEMMA HostSteps ==
    ASSUME HostIInv, HostNext
    PROVE  \E t \in Techniques : \E p \in Params(t) : RunTechnique(t, p) \/ CleanupTechnique(t, p)
<1>1. CASE \E t \in Techniques : \E p \in Params(t) : RunTechnique(t, p)
  BY <1>1
<1>2. CASE \E tp \in dirty : CleanupTechnique(tp[1], tp[2])
  <2>1. PICK tp \in dirty : CleanupTechnique(tp[1], tp[2])
    BY <1>2
  <2>2. tp \in Calls
    BY DEF HostIInv, HostTypeOK, Calls
  <2> QED
    BY <2>1, <2>2, CallParts
<1> QED
  BY <1>1, <1>2 DEF HostNext

LEMMA HostStutters == HostIInv /\ UNCHANGED hostVars => HostIInv'
BY DEF HostIInv, HostTypeOK, FromRuns, Explained, hostVars

LEMMA HostStep == HostIInv /\ HostNext => HostIInv'
BY HostSteps, RunTechniqueStep, CleanupTechniqueStep

LEMMA ExplainedIsProperty == HostIInv => LeftoversAreOfUncleanedRuns
BY DEF HostIInv, Explained, LeftoversAreOfUncleanedRuns, FootprintAt, Footprint

\* What a call takes away, the technique of the call can leave.
LEMMA TakesItsOwn ==
    ASSUME HostIInv, NEW t \in Techniques, NEW f \in disk, TechniqueOf(f) = t
    PROVE  \E p \in Params(t) : f \in FootprintAt(host, t, p)
<1>1. PICK u \in Techniques : \E q \in Params(u) : f \in FootprintAt(host, u, q)
  BY DEF HostIInv, FromRuns
<1>2. PICK q \in Params(u) : f \in FootprintAt(host, u, q)
  BY <1>1
<1>3. u = t
  BY <1>2, FootprintIsMarks, MarksTell
<1> QED
  BY <1>2, <1>3

LEMMA HostTakesItsOwn ==
    ASSUME HostIInv, HostNext, NEW f \in disk \ disk'
    PROVE  \/ \E p \in Params(last'.t) : f \in FootprintAt(host', last'.t, p)
           \/ last'.t = "T1070.004" /\ last'.opt = "path"
<1>0. PICK t \in Techniques : \E p \in Params(t) : RunTechnique(t, p) \/ CleanupTechnique(t, p)
  BY HostSteps
<1>1. PICK p \in Params(t) : RunTechnique(t, p) \/ CleanupTechnique(t, p)
  BY <1>0
<1>2. host' = host
  BY <1>1 DEF RunTechnique, CleanupTechnique
<1>3. CASE RunTechnique(t, p)
  <2>1. PICK o \in RunOutcomes(disk, host, t, p) :
          /\ disk' = (disk \ o.gone) \cup o.left
          /\ last' = [op |-> "run", t |-> t, opt |-> p.opt, dir |-> p.dir, how |-> o.how, listed |-> o.listed]
    BY <1>3 DEF RunTechnique
  <2>2. f \in o.gone
    BY <2>1
  <2>3. RunDoes(disk, host, t, p, o)
    BY RunsLeaveMarks
  <2>4. t = "T1070.004" /\ (p.opt = "path" \/ Marks(host, t, p, f))
    BY <2>2, <2>3 DEF RunDoes
  <2>5. last'.t = t /\ last'.opt = p.opt
    BY <2>1
  <2>6. CASE p.opt = "path"
    BY <2>4, <2>5, <2>6
  <2>7. CASE Marks(host, t, p, f)
    <3>1. \E x \in Params(t) : f \in FootprintAt(host, t, x)
      BY <2>7, MarksTell, TakesItsOwn
    <3> QED
      BY <1>2, <2>5, <3>1
  <2> QED
    BY <2>4, <2>6, <2>7
<1>4. CASE CleanupTechnique(t, p)
  <2>1. PICK o \in CleanupOutcomes(disk, host, t, p) :
          /\ disk' = disk \ o.gone
          /\ last' = [op |-> "cleanup", t |-> t, opt |-> p.opt, dir |-> p.dir, how |-> o.how, listed |-> << >>]
    BY <1>4 DEF CleanupTechnique
  <2>2. f \in o.gone
    BY <2>1
  <2>3. TechniqueOf(f) = t
    BY <2>2, CleanupsTakeMarks DEF CleanupDoes
  <2>4. last'.t = t
    BY <2>1
  <2>5. \E x \in Params(t) : f \in FootprintAt(host, t, x)
    BY <2>3, TakesItsOwn
  <2> QED
    BY <1>2, <2>4, <2>5
<1> QED
  BY <1>1, <1>3, <1>4

\* Whatever the order of runs and cleanups of src/ttps and however each of them
\* ends, every file is one that some technique leaves, the files a cleanup that
\* was ok could not unlink are still on the disk, and all others belong to a run
\* since the last cleanup that was ok.
THEOREM HostInvariant == LabSpec => []HostIInv
<1>1. LabInit => HostIInv
  BY HostInitHolds DEF LabInit
<1>2. HostIInv /\ [LabNext]_labVars => HostIInv'
  <2> SUFFICES ASSUME HostIInv, [LabNext]_labVars PROVE HostIInv'
    OBVIOUS
  <2>1. HostNext \/ UNCHANGED hostVars
    BY DEF LabNext, HostWorks, LibraryWorks, BuilderWorks, MaturityWorks, SmokeWorks, labVars
  <2> QED
    BY <2>1, HostStep, HostStutters
<1> QED
  BY <1>1, <1>2, PTL DEF LabSpec

\* On hosts of every platform, for all parameters and in any order of runs and
\* cleanups, what is left on the disk is of a run since the last cleanup that
\* was ok, but for the tools of T1105 that could not be unlinked and the marker
\* of T1070.004: each cleanup of src/ttps finds all that its technique's runs
\* with its directory may have left.
THEOREM LeftoversExplained == LabSpec => []LeftoversAreOfUncleanedRuns
BY HostInvariant, ExplainedIsProperty, PTL

\* No technique, run or cleaned up, takes away the marker of another one:
\* the patterns the cleanups glob for match files of their own technique only.
THEOREM CleanupsKeepToTheirOwn == LabSpec => OnlyOwnMarkersRemoved
<1>1. HostIInv /\ [LabNext]_labVars =>
        [\A f \in disk \ disk' :
           \/ \E p \in Params(last'.t) : f \in Footprint(last'.t, p)
           \/ last'.t = "T1070.004" /\ last'.opt = "path"]_hostVars
  <2> SUFFICES ASSUME HostIInv, [LabNext]_labVars, ~UNCHANGED hostVars, NEW f \in disk \ disk'
               PROVE  \/ \E p \in Params(last'.t) : f \in Footprint(last'.t, p)
                      \/ last'.t = "T1070.004" /\ last'.opt = "path"
    OBVIOUS
  <2>1. HostNext
    BY DEF LabNext, HostWorks, LibraryWorks, BuilderWorks, MaturityWorks, SmokeWorks, labVars
  <2>2. host' = host
    BY <2>1, HostSteps DEF RunTechnique, CleanupTechnique
  <2> QED
    BY <2>1, <2>2, HostTakesItsOwn DEF Footprint, FootprintAt
<1> QED
  BY <1>1, HostInvariant, PTL DEF LabSpec, OnlyOwnMarkersRemoved

-----------------------------------------------------------------------------
(* The types of the tools. *)

\* The cache of the loader holds one result at most: FinishLoad replaces it.
CacheOfOne == \A c, e \in cache : c = e

LEMMA OneIsCached ==
    ASSUME NEW S, \A c, e \in S : c = e
    PROVE  Cardinality(S) <= 1
<1>1. CASE S = {}
  BY <1>1, FS_EmptySet
<1>2. CASE S # {}
  <2>1. PICK c \in S : S = {c}
    BY <1>2
  <2>2. Cardinality(S) = 1
    BY <2>1, FS_Singleton
  <2> QED
    BY <2>2
<1> QED
  BY <1>1, <1>2

LEMMA CacheOfOneStep == CacheOfOne /\ (LibNext \/ UNCHANGED libVars) => CacheOfOne'
<1> SUFFICES ASSUME CacheOfOne, LibNext \/ UNCHANGED libVars
             PROVE  CacheOfOne'
  OBVIOUS
<1>1. CASE cache' = cache
  BY <1>1 DEF CacheOfOne
<1>2. CASE FinishLoad
  BY <1>2 DEF FinishLoad, CacheOfOne
<1> QED
  BY <1>1, <1>2 DEF LibNext, StartLoad, ReadFile, WriteFile, RestoreFile, RemoveFile, Changed, libVars

LEMMA LibTypeHolds == LibIInv /\ CacheOfOne => LibTypeOK
<1> SUFFICES ASSUME LibIInv, CacheOfOne PROVE LibTypeOK
  OBVIOUS
<1>1. DOMAIN folder \subseteq Files /\ ticks \in 0 .. MaxChanges
  BY FolderParts DEF LibIInv, FolderOK
<1>2. \A f \in DOMAIN folder : folder[f].body \in Bodies /\ folder[f].mtime \in 0 .. ticks
  BY FolderParts DEF LibIInv, FolderOK
<1>3. Cardinality(cache) <= 1
  BY OneIsCached DEF CacheOfOne
<1>4. load.at \in {"idle", "reading"}
  <2>1. CASE load = Idle
    BY <2>1 DEF Idle
  <2>2. CASE load # Idle
    <3>1. PICK d, o, l : load = [at |-> "reading", sig |-> Signature(d), out |-> o, left |-> l]
      BY <2>2 DEF LibIInv, Reading
    <3> QED
      BY <3>1
  <2> QED
    BY <2>1, <2>2
<1> QED
  BY <1>1, <1>2, <1>3, <1>4 DEF LibTypeOK

LEMMA MatTypeHolds == MatIInv => MatTypeOK
<1> SUFFICES ASSUME MatIInv PROVE MatTypeOK
  OBVIOUS
<1>1. Counts(scen) /\ Proves(proof)
  BY DEF MatIInv
<1>2. scen.ruled \in 0 .. scen.steps /\ scen.tactics <= scen.steps
  BY <1>1 DEF Counts, Scored
<1>3. AsGood(scen, proof, scen, proof)
  BY <1>1, PercentIs, EvidenceIs DEF AsGood, Counts, Scored
<1>4. Score(scen, proof) \in 0 .. 100
  BY <1>1, <1>3, ScoreGrows DEF Kind
<1> QED
  BY <1>1, <1>2, <1>4 DEF MatTypeOK, Proves

LEMMA BuilderTypeHolds == BuilderIInv => BuilderTypeOK
<1> SUFFICES ASSUME BuilderIInv PROVE BuilderTypeOK
  OBVIOUS
<1>1. batch.count \in 0 .. MaxCount
  BY DEF BuilderIInv, Batches
<1>2. Len(built) <= batch.count /\ Len(pack) <= PackCount
  BY DEF BuilderIInv, DoneInOrder, ExpandedInOrder
<1>3. ASSUME draft # NoDraft
      PROVE  draft.size \in 1 .. MaxSteps /\ Len(draft.deps) <= draft.size
  BY <1>3 DEF BuilderIInv, SoundDraft
<1> QED
  BY <1>1, <1>2, <1>3 DEF BuilderTypeOK

LEMMA SmokeTypeHolds == SmokeIInv => SmokeTypeOK
<1> SUFFICES ASSUME SmokeIInv PROVE SmokeTypeOK
  OBVIOUS
<1>1. TypeOK /\ SmokeShape
  BY DEF SmokeIInv, IInv
<1>2. smoke.run \in DOMAIN runs \cup {0} /\ acts \in 0 .. MaxMeddling
  BY <1>1 DEF SmokeShape
<1>3. smoke.played \in 0 .. Len(LabAgents)
  BY <1>1, SmokeAgents DEF SmokeShape, SmokeRecord
<1>4. smoke.at = "holds" => held[Player] # NoTask
  BY <1>1 DEF SmokeShape, Playing
<1> QED
  BY <1>1, <1>2, <1>3, <1>4 DEF SmokeTypeOK

LEMMA ToolTypesHold ==
    HostIInv /\ LibIInv /\ CacheOfOne /\ BuilderIInv /\ MatIInv /\ SmokeIInv => LabTypeOK
BY LibTypeHolds, BuilderTypeHolds, MatTypeHolds, SmokeTypeHolds DEF HostIInv, LabTypeOK

LEMMA CacheStaysOne == LabSpec => []CacheOfOne
<1>1. LabInit => CacheOfOne
  BY DEF LabInit, LibInit, CacheOfOne
<1>2. CacheOfOne /\ [LabNext]_labVars => CacheOfOne'
  <2> SUFFICES ASSUME CacheOfOne, [LabNext]_labVars PROVE CacheOfOne'
    OBVIOUS
  <2>1. LibNext \/ UNCHANGED libVars
    BY DEF LabNext, HostWorks, LibraryWorks, BuilderWorks, MaturityWorks, SmokeWorks, labVars
  <2> QED
    BY <2>1, CacheOfOneStep
<1> QED
  BY <1>1, <1>2, PTL DEF LabSpec

\* The variables of the five tools hold what they are meant to, on every
\* host, directory, batch, scenario and multi-agent smoke: the types and
\* bounds of Host, ScenarioLibrary, ScenarioBuilder, Maturity and Smoke, among
\* them one cached result at most and a score of 0 to 100.
THEOREM LabTypesHold == LabSpec => []LabTypeOK
BY HostInvariant, LoaderInvariant, CacheStaysOne, BuilderInvariant, MaturityInvariant,
   SmokeInvariant, ToolTypesHold, PTL

-----------------------------------------------------------------------------
(* The rules: what the evaluator makes of a selection, and of a rule. *)

LEMMA IsMatches ==
    ASSUME NEW e, NEW f, f \in DOMAIN e, NEW targets, NEW t \in targets, e[f] = <<t>>
    PROVE  MatchesItem(e, Is(f, targets))
<1>1. PICK i : i = Is(f, targets)
  OBVIOUS
<1>2. i.field = f /\ i.op = "is" /\ ~i.all /\ i.targets = targets
  BY <1>1 DEF Is, Item
<1>3. FieldMatch(e[f], "is", t)
  BY DEF FieldMatch
<1> QED
  BY <1>1, <1>2, <1>3 DEF MatchesItem

LEMMA HasMatches ==
    ASSUME NEW e, NEW f, f \in DOMAIN e, NEW targets, NEW k \in DOMAIN e[f], e[f][k] \in targets
    PROVE  MatchesItem(e, Has(f, targets))
<1>1. PICK i : i = Has(f, targets)
  OBVIOUS
<1>2. i.field = f /\ i.op = "contains" /\ ~i.all /\ i.targets = targets
  BY <1>1 DEF Has, Item
<1>3. FieldMatch(e[f], "contains", e[f][k])
  BY DEF FieldMatch
<1> QED
  BY <1>1, <1>2, <1>3 DEF MatchesItem

LEMMA HasAllMatches ==
    ASSUME NEW e, NEW f, f \in DOMAIN e, NEW targets,
           \A t \in targets : \E k \in DOMAIN e[f] : e[f][k] = t
    PROVE  MatchesItem(e, HasAll(f, targets))
<1>1. PICK i : i = HasAll(f, targets)
  OBVIOUS
<1>2. i.field = f /\ i.op = "contains" /\ i.all /\ i.targets = targets
  BY <1>1 DEF HasAll, Item
<1>3. \A t \in targets : FieldMatch(e[f], "contains", t)
  BY DEF FieldMatch
<1> QED
  BY <1>1, <1>2, <1>3 DEF MatchesItem

LEMMA EndsMatches ==
    ASSUME NEW e, NEW f, f \in DOMAIN e, NEW targets, e[f] # << >>, e[f][Len(e[f])] \in targets
    PROVE  MatchesItem(e, Ends(f, targets))
<1>1. PICK i : i = Ends(f, targets)
  OBVIOUS
<1>2. i.field = f /\ i.op = "endswith" /\ ~i.all /\ i.targets = targets
  BY <1>1 DEF Ends, Item
<1>3. FieldMatch(e[f], "endswith", e[f][Len(e[f])])
  BY DEF FieldMatch
<1> QED
  BY <1>1, <1>2, <1>3 DEF MatchesItem

LEMMA OverMatches ==
    ASSUME NEW e, NEW f, f \in DOMAIN e, NEW n, e[f] > n
    PROVE  MatchesItem(e, Over(f, n))
<1>1. PICK i : i = Over(f, n)
  OBVIOUS
<1>2. i.field = f /\ i.op = "gt" /\ ~i.all /\ i.targets = {n}
  BY <1>1 DEF Over, Item
<1>3. FieldMatch(e[f], "gt", n)
  BY DEF FieldMatch
<1> QED
  BY <1>1, <1>2, <1>3 DEF MatchesItem

\* An entry that looks at the last piece fails when it is none of the targets.
LEMMA EndsFails ==
    ASSUME NEW e, NEW f, NEW targets, e[f] # << >>, e[f][Len(e[f])] \notin targets
    PROVE  ~MatchesItem(e, Ends(f, targets))
<1>1. PICK i : i = Ends(f, targets)
  OBVIOUS
<1>2. i.field = f /\ i.op = "endswith" /\ ~i.all /\ i.targets = targets
  BY <1>1 DEF Ends, Item
<1>3. ASSUME NEW t, FieldMatch(e[f], "endswith", t) PROVE t \notin targets
  BY <1>3 DEF FieldMatch
<1> QED
  BY <1>1, <1>2, <1>3 DEF MatchesItem

LEMMA PlainMatches ==
    ASSUME NEW items, NEW e, \A i \in items : MatchesItem(e, i)
    PROVE  Evaluate(Plain(items), e)
<1>1. PICK r : r = Plain(items)
  OBVIOUS
<1>2. PICK m : m = [n \in DOMAIN r.selections |-> MatchesSelection(e, r.selections[n])]
  OBVIOUS
<1>3. r.selections = [selection |-> items] /\ r.condition = [op |-> "alone", base |-> Name("selection")]
  BY <1>1 DEF Plain
<1>4. DOMAIN m = {"selection"} /\ m["selection"]
  BY <1>2, <1>3 DEF MatchesSelection
<1>5. Name("selection").of = "name" /\ Name("selection").names = {"selection"}
  BY DEF Name
<1>6. EvalAtom(m, Name("selection"))
  BY <1>4, <1>5 DEF EvalAtom
<1> QED
  BY <1>1, <1>2, <1>3, <1>5, <1>6 DEF Evaluate

LEMMA CountedMatches ==
    ASSUME NEW items, NEW e, \A i \in items : MatchesItem(e, i)
    PROVE  Evaluate(Counted(items), e)
<1>1. PICK r : r = Counted(items)
  OBVIOUS
<1>2. PICK m : m = [n \in DOMAIN r.selections |-> MatchesSelection(e, r.selections[n])]
  OBVIOUS
<1>3. r.selections = [selection |-> items] /\ r.condition = [op |-> "count", base |-> Name("selection")]
  BY <1>1 DEF Counted
<1>4. DOMAIN m = {"selection"} /\ m["selection"]
  BY <1>2, <1>3 DEF MatchesSelection
<1>5. Name("selection").of = "name" /\ Name("selection").names = {"selection"}
  BY DEF Name
<1>6. EvalAtom(m, Name("selection"))
  BY <1>4, <1>5 DEF EvalAtom
<1> QED
  BY <1>1, <1>2, <1>3, <1>6 DEF Evaluate

LEMMA OneOfMatches ==
    ASSUME NEW selections, NEW e, NEW n \in DOMAIN selections, \A i \in selections[n] : MatchesItem(e, i)
    PROVE  Evaluate(OneOfSelections(selections), e)
<1>1. PICK r : r = OneOfSelections(selections)
  OBVIOUS
<1>2. PICK m : m = [x \in DOMAIN r.selections |-> MatchesSelection(e, r.selections[x])]
  OBVIOUS
<1>3. r.selections = selections /\ r.condition = [op |-> "alone", base |-> OneOf(DOMAIN selections)]
  BY <1>1 DEF OneOfSelections
<1>4. n \in DOMAIN m /\ m[n]
  BY <1>2, <1>3 DEF MatchesSelection
<1>5. OneOf(DOMAIN selections).of = "one" /\ OneOf(DOMAIN selections).names = DOMAIN selections
  BY DEF OneOf
<1>6. EvalAtom(m, OneOf(DOMAIN selections))
  BY <1>4, <1>5 DEF EvalAtom
<1> QED
  BY <1>1, <1>2, <1>3, <1>5, <1>6 DEF Evaluate

LEMMA EitherMatches ==
    ASSUME NEW selections, NEW e, NEW n \in DOMAIN selections, \A i \in selections[n] : MatchesItem(e, i)
    PROVE  Evaluate(Either(selections), e)
<1>1. PICK r : r = Either(selections)
  OBVIOUS
<1>2. PICK m : m = [x \in DOMAIN r.selections |-> MatchesSelection(e, r.selections[x])]
  OBVIOUS
<1>3. PICK parts : parts = {Name(x) : x \in DOMAIN selections}
  OBVIOUS
<1>4. r.selections = selections /\ r.condition = [op |-> "or", parts |-> parts]
  BY <1>1, <1>3 DEF Either
<1>5. n \in DOMAIN m /\ m[n]
  BY <1>2, <1>4 DEF MatchesSelection
<1>6. Name(n).of = "name" /\ Name(n).names = {n} /\ Name(n) \in parts
  BY <1>3 DEF Name
<1>7. EvalAtom(m, Name(n))
  BY <1>5, <1>6 DEF EvalAtom
<1> QED
  BY <1>1, <1>2, <1>4, <1>6, <1>7 DEF Evaluate

LEMMA FilteredMatches ==
    ASSUME NEW items, NEW filter, NEW e, \A i \in items : MatchesItem(e, i),
           NEW j \in filter, ~MatchesItem(e, j)
    PROVE  Evaluate(Filtered(items, filter), e)
<1>1. PICK r : r = Filtered(items, filter)
  OBVIOUS
<1>2. PICK m : m = [n \in DOMAIN r.selections |-> MatchesSelection(e, r.selections[n])]
  OBVIOUS
<1>3. /\ r.selections = [selection |-> items, filter |-> filter]
      /\ r.condition = [op |-> "and_not", base |-> Name("selection"), filter |-> Name("filter")]
  BY <1>1 DEF Filtered
<1>4. DOMAIN m = {"selection", "filter"} /\ m["selection"] /\ ~m["filter"]
  <2>1. DOMAIN m = {"selection", "filter"}
    BY <1>2, <1>3
  <2>2. /\ "selection" \in DOMAIN r.selections /\ r.selections["selection"] = items
        /\ "filter" \in DOMAIN r.selections /\ r.selections["filter"] = filter
    BY <1>3
  <2>3. MatchesSelection(e, items) /\ ~MatchesSelection(e, filter)
    BY DEF MatchesSelection
  <2>4. m["selection"]
    BY <1>2, <2>2, <2>3
  <2>5. ~m["filter"]
    BY <1>2, <2>2, <2>3
  <2> QED
    BY <2>1, <2>4, <2>5
<1>5. /\ Name("selection").of = "name" /\ Name("selection").names = {"selection"}
      /\ Name("filter").of = "name" /\ Name("filter").names = {"filter"}
  BY DEF Name
<1>6. EvalAtom(m, Name("selection")) /\ ~EvalAtom(m, Name("filter"))
  BY <1>4, <1>5 DEF EvalAtom
<1>7. /\ r.condition.op = "and_not" /\ r.condition.base = Name("selection")
      /\ r.condition.filter = Name("filter")
  BY <1>3
<1> QED
  BY <1>1, <1>2, <1>6, <1>7 DEF Evaluate

\* One event that the rule matches is enough.
Detects(rule, events) == events = << >> \/ \E i \in DOMAIN events : Evaluate(rule, events[i])

LEMMA DetectsVerdict ==
    ASSUME NEW rule, NEW events, Detects(rule, events)
    PROVE  Verdict(rule, events) \in {"COVERED", "NO-EVENTS"}
BY DEF Detects, Verdict, EvaluateMany

LEMMA FirstDetects ==
    ASSUME NEW rule, NEW events, 1 \in DOMAIN events, Evaluate(rule, events[1])
    PROVE  Detects(rule, events)
BY DEF Detects

LEMMA CommandHas ==
    ASSUME NEW text, NEW targets, text \in targets
    PROVE  MatchesItem(Command(text), Has("CommandLine", targets))
<1>1. PICK e : e = Command(text)
  OBVIOUS
<1>2. "CommandLine" \in DOMAIN e /\ e["CommandLine"] = <<text>>
  BY <1>1 DEF Command
<1> QED
  BY <1>1, <1>2, HasMatches

LEMMA ProgramMatches ==
    ASSUME NEW image, NEW text
    PROVE  /\ \A targets : image \in targets => MatchesItem(Program(image, text), Ends("Image", targets))
           /\ \A targets : text \in targets => MatchesItem(Program(image, text), Has("CommandLine", targets))
<1>1. PICK e : e = Program(image, text)
  OBVIOUS
<1>2. /\ "Image" \in DOMAIN e /\ e["Image"] = <<image>>
      /\ "CommandLine" \in DOMAIN e /\ e["CommandLine"] = <<text>>
  BY <1>1 DEF Program
<1>3. ASSUME NEW targets, image \in targets PROVE MatchesItem(e, Ends("Image", targets))
  BY <1>2, <1>3, EndsMatches
<1>4. ASSUME NEW targets, text \in targets PROVE MatchesItem(e, Has("CommandLine", targets))
  BY <1>2, <1>4, HasMatches
<1> QED
  BY <1>1, <1>3, <1>4

-----------------------------------------------------------------------------
(* The rules: techniques whose events do not depend on what a result lists. *)

LEMMA T1005Detected == Detects(T1005Rule, T1005Events)
<1>1. PICK e : e = T1005Events[2]
  OBVIOUS
<1>2. e = [CommandLine |-> <<"find", "id_rsa", ".pem", "password">>] /\ 2 \in DOMAIN T1005Events
  BY <1>1 DEF T1005Events
<1>3. "CommandLine" \in DOMAIN e /\ 2 \in DOMAIN e["CommandLine"] /\ e["CommandLine"][2] = "id_rsa"
  BY <1>2
<1>4. MatchesItem(e, Has("CommandLine", {"id_rsa", ".pem", ".key", "password"}))
  BY <1>3, HasMatches
<1>5. Evaluate(T1005Rule, e)
  BY <1>4, OneOfMatches DEF T1005Rule
<1> QED
  BY <1>1, <1>2, <1>5 DEF Detects

LEMMA T1530Detected ==
    ASSUME NEW opt
    PROVE  Detects(T1530Rule, T1530Events(opt))
<1>1. PICK sels : T1530Rule = OneOfSelections(sels) /\ sels =
        [selection_aws |-> {Is("eventSource", {"s3"}), Is("eventName", {"ListBucket", "GetObject"})},
         selection_azure |-> {Has("operationName", {"blobs/read"})},
         selection_gcp |-> {Is("serviceName", {"storage"}), Has("methodName", {"storage.objects."})}]
  BY DEF T1530Rule
<1>2. CASE opt = "aws"
  <2>1. PICK e : e = [eventSource |-> <<"s3">>, eventName |-> <<"ListBucket">>]
    OBVIOUS
  <2>2. /\ "eventSource" \in DOMAIN e /\ e["eventSource"] = <<"s3">>
        /\ "eventName" \in DOMAIN e /\ e["eventName"] = <<"ListBucket">>
    BY <2>1
  <2>3. MatchesItem(e, Is("eventSource", {"s3"})) /\ MatchesItem(e, Is("eventName", {"ListBucket", "GetObject"}))
    BY <2>2, IsMatches
  <2>4. "selection_aws" \in DOMAIN sels /\ \A i \in sels["selection_aws"] : MatchesItem(e, i)
    BY <1>1, <2>3
  <2>5. Evaluate(T1530Rule, e)
    BY <1>1, <2>4, OneOfMatches
  <2>6. T1530Events(opt) = T1530AwsEvents
    BY <1>2 DEF T1530Events
  <2> QED
    BY <2>1, <2>5, <2>6, FirstDetects DEF T1530AwsEvents
<1>3. CASE opt = "azure"
  <2>1. PICK e : e = [operationName |-> <<"blobs/read">>]
    OBVIOUS
  <2>2. "operationName" \in DOMAIN e /\ 1 \in DOMAIN e["operationName"] /\ e["operationName"][1] = "blobs/read"
    BY <2>1
  <2>3. MatchesItem(e, Has("operationName", {"blobs/read"}))
    BY <2>2, HasMatches
  <2>4. "selection_azure" \in DOMAIN sels /\ \A i \in sels["selection_azure"] : MatchesItem(e, i)
    BY <1>1, <2>3
  <2>5. Evaluate(T1530Rule, e)
    BY <1>1, <2>4, OneOfMatches
  <2>6. T1530Events(opt) = T1530AzureEvents
    BY <1>3 DEF T1530Events
  <2> QED
    BY <2>1, <2>5, <2>6, FirstDetects DEF T1530AzureEvents
<1>4. CASE opt = "gcp"
  <2>1. PICK e : e = [serviceName |-> <<"storage">>, methodName |-> <<"storage.objects.", "get">>]
    OBVIOUS
  <2>2. /\ "serviceName" \in DOMAIN e /\ e["serviceName"] = <<"storage">>
        /\ "methodName" \in DOMAIN e /\ 1 \in DOMAIN e["methodName"]
        /\ e["methodName"][1] = "storage.objects."
    BY <2>1
  <2>3. MatchesItem(e, Is("serviceName", {"storage"})) /\ MatchesItem(e, Has("methodName", {"storage.objects."}))
    BY <2>2, IsMatches, HasMatches
  <2>4. "selection_gcp" \in DOMAIN sels /\ \A i \in sels["selection_gcp"] : MatchesItem(e, i)
    BY <1>1, <2>3
  <2>5. Evaluate(T1530Rule, e)
    BY <1>1, <2>4, OneOfMatches
  <2>6. T1530Events(opt) = T1530GcpEvents
    BY <1>4 DEF T1530Events
  <2> QED
    BY <2>1, <2>5, <2>6, FirstDetects DEF T1530GcpEvents
<1>5. CASE opt \notin {"aws", "azure", "gcp"}
  BY <1>5 DEF T1530Events, Detects
<1> QED
  BY <1>2, <1>3, <1>4, <1>5

LEMMA T1560Detected == Detects(T1560Rule, T1560Events)
<1>1. PICK e : e = T1560Events[1]
  OBVIOUS
<1>2. /\ 1 \in DOMAIN T1560Events
      /\ e = [TargetFilename |-> <<"\\Users\\Public\\", "t1560_staged_data", ".zip">>,
              Image |-> <<"\\cmd.exe">>, User |-> <<"jsmith">>]
  BY <1>1 DEF T1560Events
<1>3. /\ "TargetFilename" \in DOMAIN e
      /\ e["TargetFilename"] = <<"\\Users\\Public\\", "t1560_staged_data", ".zip">>
      /\ e["Image"] = <<"\\cmd.exe">>
  BY <1>2
<1>4. MatchesItem(e, Ends("TargetFilename", {".zip", ".7z", ".rar", ".tar.gz"}))
  BY <1>3, EndsMatches
<1>5. MatchesItem(e, Has("TargetFilename", {"\\AppData\\", "\\Temp\\", "\\Users\\Public\\"}))
  <2>1. 1 \in DOMAIN e["TargetFilename"] /\ e["TargetFilename"][1] = "\\Users\\Public\\"
    BY <1>3
  <2> QED
    BY <1>3, <2>1, HasMatches
<1>6. ~MatchesItem(e, Ends("Image", {"\\7zFM.exe", "\\WinRAR.exe", "\\7z.exe"}))
  BY <1>3, EndsFails
<1>7. Evaluate(T1560Rule, e)
  BY <1>4, <1>5, <1>6, FilteredMatches DEF T1560Rule
<1> QED
  BY <1>1, <1>2, <1>7, FirstDetects

LEMMA T1071Detected == Detects(T1071Rule, T1071Events)
<1>1. PICK e : e = T1071Events[1]
  OBVIOUS
<1>2. /\ 1 \in DOMAIN T1071Events
      /\ e = [cs_method |-> <<"GET">>, cs_user_agent |-> <<"curl/", "python-requests/">>]
  BY <1>1 DEF T1071Events
<1>3. /\ "cs_method" \in DOMAIN e /\ e["cs_method"] = <<"GET">>
      /\ "cs_user_agent" \in DOMAIN e /\ e["cs_user_agent"] = <<"curl/", "python-requests/">>
  BY <1>2
<1>4. MatchesItem(e, Is("cs_method", {"GET"}))
  BY <1>3, IsMatches
<1>5. MatchesItem(e, HasAll("cs_user_agent", {"curl/", "python-requests/"}))
  <2>1. \A t \in {"curl/", "python-requests/"} : \E k \in DOMAIN e["cs_user_agent"] : e["cs_user_agent"][k] = t
    BY <1>3
  <2> QED
    BY <1>3, <2>1, HasAllMatches
<1>6. Evaluate(T1071Rule, e)
  BY <1>4, <1>5, PlainMatches DEF T1071Rule
<1> QED
  BY <1>1, <1>2, <1>6, FirstDetects

LEMMA T1003Detected == Detects(T1003Rule, T1003Events)
<1>1. MatchesItem(Command("lsass"), Has("CommandLine", {"lsass", "vaultsvc"}))
  BY CommandHas
<1>2. Evaluate(T1003Rule, Command("lsass"))
  BY <1>1, OneOfMatches DEF T1003Rule
<1> QED
  BY <1>2, FirstDetects DEF T1003Events

LEMMA T1110Detected ==
    ASSUME NEW opt
    PROVE  Detects(T1110Rule, T1110Events(opt))
<1>1. CASE opt = "no_attempts"
  BY <1>1 DEF T1110Events, Detects
<1>2. CASE opt # "no_attempts"
  <2>1. PICK e : e = [EventID |-> <<"4625">>, LogonType |-> <<"3">>]
    OBVIOUS
  <2>2. /\ "EventID" \in DOMAIN e /\ e["EventID"] = <<"4625">>
        /\ "LogonType" \in DOMAIN e /\ e["LogonType"] = <<"3">>
    BY <2>1
  <2>3. MatchesItem(e, Is("EventID", {"4625"})) /\ MatchesItem(e, Is("LogonType", {"3"}))
    BY <2>2, IsMatches
  <2>4. Evaluate(T1110Rule, e)
    BY <2>3, CountedMatches DEF T1110Rule
  <2>5. 1 \in DOMAIN T1110Events(opt) /\ T1110Events(opt)[1] = e
    BY <1>2, <2>1 DEF T1110Events
  <2> QED
    BY <2>4, <2>5, FirstDetects
<1> QED
  BY <1>1, <1>2

LEMMA T1055Detected == Detects(T1055Rule, T1055Events)
<1>1. PICK e : e = T1055Events[1]
  OBVIOUS
<1>2. /\ 1 \in DOMAIN T1055Events
      /\ e = [TargetImage |-> <<"\\lsass.exe">>, SourceImage |-> <<"\\cmd.exe">>, GrantedAccess |-> <<"0x1010">>]
  BY <1>1 DEF T1055Events
<1>3. /\ "TargetImage" \in DOMAIN e /\ e["TargetImage"] = <<"\\lsass.exe">>
      /\ "GrantedAccess" \in DOMAIN e /\ e["GrantedAccess"] = <<"0x1010">>
      /\ e["SourceImage"] = <<"\\cmd.exe">>
  BY <1>2
<1>4. MatchesItem(e, Ends("TargetImage", {"\\lsass.exe", "\\explorer.exe", "\\svchost.exe", "\\winlogon.exe"}))
  BY <1>3, EndsMatches
<1>5. MatchesItem(e, Has("GrantedAccess", {"0x1010", "0x1038", "0x1fffff"}))
  <2>1. 1 \in DOMAIN e["GrantedAccess"] /\ e["GrantedAccess"][1] = "0x1010"
    BY <1>3
  <2> QED
    BY <1>3, <2>1, HasMatches
<1>6. ~MatchesItem(e, Ends("SourceImage", {"\\MsMpEng.exe", "\\svchost.exe", "\\csrss.exe"}))
  BY <1>3, EndsFails
<1>7. Evaluate(T1055Rule, e)
  BY <1>4, <1>5, <1>6, FilteredMatches DEF T1055Rule
<1> QED
  BY <1>1, <1>2, <1>7, FirstDetects

LEMMA T1112Detected == Detects(T1112Rule, T1112Events)
<1>1. PICK e : e = T1112Events[1]
  OBVIOUS
<1>2. 1 \in DOMAIN T1112Events /\ e = [TargetObject |-> <<"AptSimulator\\Test\\Modify">>, Type |-> <<"DWORD">>]
  BY <1>1 DEF T1112Events
<1>3. /\ "TargetObject" \in DOMAIN e /\ e["TargetObject"] = <<"AptSimulator\\Test\\Modify">>
      /\ "Type" \in DOMAIN e /\ e["Type"] = <<"DWORD">>
  BY <1>2
<1>4. MatchesItem(e, Is("Type", {"DWORD"}))
  BY <1>3, IsMatches
<1>5. MatchesItem(e, Has("TargetObject", {"AptSimulator\\Test\\Modify"}))
  <2>1. 1 \in DOMAIN e["TargetObject"] /\ e["TargetObject"][1] = "AptSimulator\\Test\\Modify"
    BY <1>3
  <2> QED
    BY <1>3, <2>1, HasMatches
<1>6. Evaluate(T1112Rule, e)
  BY <1>4, <1>5, PlainMatches DEF T1112Rule
<1> QED
  BY <1>1, <1>2, <1>6, FirstDetects

LEMMA T1016Detected == Detects(T1016Rule, T1016Events)
<1>1. MatchesItem(Program("\\ipconfig.exe", "ipconfig"), Ends("Image", {"\\ipconfig.exe"}))
  BY ProgramMatches
<1>2. Evaluate(T1016Rule, Program("\\ipconfig.exe", "ipconfig"))
  BY <1>1, OneOfMatches DEF T1016Rule
<1> QED
  BY <1>2, FirstDetects DEF T1016Events

LEMMA T1033Detected == Detects(T1033Rule, T1033Events)
<1>1. MatchesItem(Program("\\whoami.exe", "whoami"), Ends("Image", {"\\whoami.exe", "\\hostname.exe"}))
  BY ProgramMatches
<1>2. Evaluate(T1033Rule, Program("\\whoami.exe", "whoami"))
  BY <1>1, PlainMatches DEF T1033Rule
<1> QED
  BY <1>2, FirstDetects DEF T1033Events

LEMMA T1049Detected == Detects(T1049Rule, T1049Events)
<1>1. MatchesItem(Program("\\netstat.exe", "netstat"), Ends("Image", {"\\netstat.exe"}))
  BY ProgramMatches
<1>2. Evaluate(T1049Rule, Program("\\netstat.exe", "netstat"))
  BY <1>1, OneOfMatches DEF T1049Rule
<1> QED
  BY <1>2, FirstDetects DEF T1049Events

LEMMA T1057Detected == Detects(T1057Rule, T1057Events)
<1>1. MatchesItem(Program("\\tasklist.exe", "tasklist"), Ends("Image", {"\\tasklist.exe", "\\qprocess.exe"}))
  BY ProgramMatches
<1>2. Evaluate(T1057Rule, Program("\\tasklist.exe", "tasklist"))
  BY <1>1, OneOfMatches DEF T1057Rule
<1> QED
  BY <1>2, FirstDetects DEF T1057Events

LEMMA T1069Detected == Detects(T1069Rule, T1069Events)
<1>1. PICK e : e = Program("\\net.exe", "localgroup")
  OBVIOUS
<1>2. MatchesItem(e, Ends("Image", {"\\net.exe", "\\net1.exe"})) /\ MatchesItem(e, Has("CommandLine", {"localgroup"}))
  BY <1>1, ProgramMatches
<1>3. Evaluate(T1069Rule, e)
  BY <1>2, OneOfMatches DEF T1069Rule
<1> QED
  BY <1>1, <1>3, FirstDetects DEF T1069Events

LEMMA T1082Detected == Detects(T1082Rule, T1082Events)
<1>1. MatchesItem(Program("\\systeminfo.exe", "systeminfo"), Ends("Image", {"\\systeminfo.exe", "\\winver.exe"}))
  BY ProgramMatches
<1>2. Evaluate(T1082Rule, Program("\\systeminfo.exe", "systeminfo"))
  BY <1>1, OneOfMatches DEF T1082Rule
<1> QED
  BY <1>2, FirstDetects DEF T1082Events

LEMMA T1083Detected == Detects(T1083Rule, T1083Events)
<1>1. MatchesItem(Command("find_"), Has("CommandLine", {"find_", "ls_-R", "tree_"}))
  BY CommandHas
<1>2. Evaluate(T1083Rule, Command("find_"))
  BY <1>1, OneOfMatches DEF T1083Rule
<1>3. 2 \in DOMAIN T1083Events /\ T1083Events[2] = Command("find_")
  BY DEF T1083Events
<1> QED
  BY <1>2, <1>3 DEF Detects

LEMMA T1580Detected ==
    ASSUME NEW opt
    PROVE  Detects(T1580Rule, T1580Events(opt))
<1>1. CASE opt = "aws"
  <2>1. PICK e : e = [eventName |-> <<"DescribeInstances">>]
    OBVIOUS
  <2>2. "eventName" \in DOMAIN e /\ e["eventName"] = <<"DescribeInstances">>
    BY <2>1
  <2>3. MatchesItem(e, Is("eventName", {"DescribeInstances", "ListBuckets", "GetCallerIdentity"}))
    BY <2>2, IsMatches
  <2>4. Evaluate(T1580Rule, e)
    BY <2>3, OneOfMatches DEF T1580Rule
  <2>5. 1 \in DOMAIN T1580Events(opt) /\ T1580Events(opt)[1] = e
    BY <1>1, <2>1 DEF T1580Events
  <2> QED
    BY <2>4, <2>5, FirstDetects
<1>2. CASE opt = "azure"
  <2>1. PICK e : e = [operationName |-> <<"resourceGroups/read">>]
    OBVIOUS
  <2>2. "operationName" \in DOMAIN e /\ 1 \in DOMAIN e["operationName"] /\ e["operationName"][1] = "resourceGroups/read"
    BY <2>1
  <2>3. MatchesItem(e, Has("operationName", {"resourceGroups/read", "subscriptions/read"}))
    BY <2>2, HasMatches
  <2>4. Evaluate(T1580Rule, e)
    BY <2>3, OneOfMatches DEF T1580Rule
  <2>5. 1 \in DOMAIN T1580Events(opt) /\ T1580Events(opt)[1] = e
    BY <1>2, <2>1 DEF T1580Events
  <2> QED
    BY <2>4, <2>5, FirstDetects
<1>3. CASE opt = "gcp"
  <2>1. PICK e : e = [methodName |-> <<"google.cloud.resourcemanager">>]
    OBVIOUS
  <2>2. /\ "methodName" \in DOMAIN e /\ 1 \in DOMAIN e["methodName"]
        /\ e["methodName"][1] = "google.cloud.resourcemanager"
    BY <2>1
  <2>3. MatchesItem(e, Has("methodName", {"google.cloud.resourcemanager", "compute.instances.list"}))
    BY <2>2, HasMatches
  <2>4. Evaluate(T1580Rule, e)
    BY <2>3, OneOfMatches DEF T1580Rule
  <2>5. 1 \in DOMAIN T1580Events(opt) /\ T1580Events(opt)[1] = e
    BY <1>3, <2>1 DEF T1580Events
  <2> QED
    BY <2>4, <2>5, FirstDetects
<1>4. CASE opt \notin {"aws", "azure", "gcp"}
  BY <1>4 DEF T1580Events, Detects
<1> QED
  BY <1>1, <1>2, <1>3, <1>4

LEMMA T1059Detected ==
    ASSUME NEW opt
    PROVE  Detects(T1059Rule, T1059Events(opt))
<1>1. PICK images : images = {"\\whoami.exe", "\\hostname.exe", "\\ipconfig.exe", "\\tasklist.exe", "\\netstat.exe"}
  OBVIOUS
<1>2. PICK image \in images : T1059Events(opt) = <<Program(image, opt)>>
  BY <1>1 DEF T1059Events
<1>3. MatchesItem(Program(image, opt), Ends("Image", images))
  BY ProgramMatches
<1>4. Evaluate(T1059Rule, Program(image, opt))
  BY <1>1, <1>3, PlainMatches DEF T1059Rule
<1> QED
  BY <1>2, <1>4, FirstDetects

LEMMA T1041Detected == Detects(T1041Rule, T1041Events)
<1>1. PICK e : e = [c_useragent |-> <<"AptSim/">>, cs_method |-> <<"POST">>]
  OBVIOUS
<1>2. /\ "c_useragent" \in DOMAIN e /\ 1 \in DOMAIN e["c_useragent"] /\ e["c_useragent"][1] = "AptSim/"
      /\ "cs_method" \in DOMAIN e /\ e["cs_method"] = <<"POST">>
  BY <1>1
<1>3. MatchesItem(e, Has("c_useragent", {"AptSim/"})) /\ MatchesItem(e, Is("cs_method", {"POST"}))
  BY <1>2, HasMatches, IsMatches
<1>4. Evaluate(T1041Rule, e)
  BY <1>3, PlainMatches DEF T1041Rule
<1> QED
  BY <1>1, <1>4, FirstDetects DEF T1041Events

LEMMA T1048Detected == Detects(T1048Rule, T1048Events)
<1>1. PICK e : e = [QueryType |-> <<"TXT">>, QueryLength |-> 512]
  OBVIOUS
<1>2. /\ "QueryType" \in DOMAIN e /\ e["QueryType"] = <<"TXT">>
      /\ "QueryLength" \in DOMAIN e /\ e["QueryLength"] > 50
  BY <1>1
<1>3. MatchesItem(e, Is("QueryType", {"TXT"})) /\ MatchesItem(e, Over("QueryLength", 50))
  BY <1>2, IsMatches, OverMatches
<1>4. Evaluate(T1048Rule, e)
  BY <1>3, EitherMatches DEF T1048Rule
<1> QED
  BY <1>1, <1>4, FirstDetects DEF T1048Events

LEMMA T1078Detected == Detects(T1078Rule, T1078Events)
<1>1. PICK e : e = CloudEvent("GetCallerIdentity")
  OBVIOUS
<1>2. e = [eventName |-> <<"GetCallerIdentity">>, userIdentity_type |-> <<"IAMUser">>]
  BY <1>1 DEF CloudEvent
<1>3. /\ "eventName" \in DOMAIN e /\ e["eventName"] = <<"GetCallerIdentity">>
      /\ "userIdentity_type" \in DOMAIN e /\ e["userIdentity_type"] = <<"IAMUser">>
  BY <1>2
<1>4. /\ MatchesItem(e, Is("eventName", {"GetCallerIdentity", "AssumeRole", "ListBuckets"}))
      /\ MatchesItem(e, Is("userIdentity_type", {"IAMUser", "AssumedRole"}))
  BY <1>3, IsMatches
<1>5. Evaluate(T1078Rule, e)
  BY <1>4, OneOfMatches DEF T1078Rule
<1> QED
  BY <1>1, <1>5, FirstDetects DEF T1078Events

\* A connection from another port than 3389 is what the rule does not look for.
LEMMA T1021001Detected ==
    ASSUME NEW opt, opt # "other_port"
    PROVE  Detects(T1021001Rule, T1021001Events(opt))
<1>1. CASE opt = "no_hosts"
  BY <1>1 DEF T1021001Events, Detects
<1>2. CASE opt # "no_hosts"
  <2>1. PICK e : e = Connection("3389", "\\cmd.exe")
    OBVIOUS
  <2>2. /\ "DestinationPort" \in DOMAIN e /\ e["DestinationPort"] = <<"3389">>
        /\ "Initiated" \in DOMAIN e /\ e["Initiated"] = <<"true">>
        /\ e["Image"] = <<"\\cmd.exe">>
    BY <2>1 DEF Connection
  <2>3. MatchesItem(e, Is("DestinationPort", {"3389"})) /\ MatchesItem(e, Is("Initiated", {"true"}))
    BY <2>2, IsMatches
  <2>4. ~MatchesItem(e, Ends("Image", {"\\mstsc.exe"}))
    BY <2>2, EndsFails
  <2>5. Evaluate(T1021001Rule, e)
    BY <2>3, <2>4, FilteredMatches DEF T1021001Rule
  <2>6. 1 \in DOMAIN T1021001Events(opt) /\ T1021001Events(opt)[1] = e
    BY <1>2, <2>1 DEF T1021001Events
  <2> QED
    BY <2>5, <2>6, FirstDetects
<1> QED
  BY <1>1, <1>2

LEMMA T1021002Detected ==
    ASSUME NEW opt
    PROVE  Detects(T1021002Rule, T1021002Events(opt))
<1>1. CASE opt = "no_hosts"
  BY <1>1 DEF T1021002Events, Detects
<1>2. CASE opt # "no_hosts"
  <2>1. PICK e : e = Connection("445", "\\net.exe")
    OBVIOUS
  <2>2. /\ "DestinationPort" \in DOMAIN e /\ e["DestinationPort"] = <<"445">>
        /\ "Initiated" \in DOMAIN e /\ e["Initiated"] = <<"true">>
        /\ e["Image"] = <<"\\net.exe">>
    BY <2>1 DEF Connection
  <2>3. MatchesItem(e, Is("DestinationPort", {"445"})) /\ MatchesItem(e, Is("Initiated", {"true"}))
    BY <2>2, IsMatches
  <2>4. ~MatchesItem(e, Ends("Image", {"\\System32\\svchost.exe"}))
    BY <2>2, EndsFails
  <2>5. Evaluate(T1021002Rule, e)
    BY <2>3, <2>4, FilteredMatches DEF T1021002Rule
  <2>6. 1 \in DOMAIN T1021002Events(opt) /\ T1021002Events(opt)[1] = e
    BY <1>2, <2>1 DEF T1021002Events
  <2> QED
    BY <2>5, <2>6, FirstDetects
<1> QED
  BY <1>1, <1>2

LEMMA T1053Detected == Detects(T1053Rule, T1053Events)
<1>1. PICK e : e = Program("\\schtasks.exe", "/create")
  OBVIOUS
<1>2. MatchesItem(e, Ends("Image", {"\\schtasks.exe"})) /\ MatchesItem(e, Has("CommandLine", {"/create"}))
  BY <1>1, ProgramMatches
<1>3. Evaluate(T1053Rule, e)
  BY <1>2, PlainMatches DEF T1053Rule
<1> QED
  BY <1>1, <1>3, FirstDetects DEF T1053Events

LEMMA T1547Detected == Detects(T1547Rule, T1547Events)
<1>1. PICK e : e = [TargetObject |-> <<"AptSimulator\\Test\\Run">>]
  OBVIOUS
<1>2. /\ "TargetObject" \in DOMAIN e /\ 1 \in DOMAIN e["TargetObject"]
      /\ e["TargetObject"][1] = "AptSimulator\\Test\\Run"
  BY <1>1
<1>3. MatchesItem(e, Has("TargetObject", {"AptSimulator\\Test\\Run"}))
  BY <1>2, HasMatches
<1>4. Evaluate(T1547Rule, e)
  BY <1>3, OneOfMatches DEF T1547Rule
<1> QED
  BY <1>1, <1>4, FirstDetects DEF T1547Events

\* Without another source, the parameters are the defaults of the schema.
LEMMA CatalogDetected ==
    ASSUME NEW opt, opt # "other_source"
    PROVE  Detects(CatalogRule, CatalogEvents(opt))
<1>1. PICK params : params = Merged(CatalogDefaults, CatalogGiven(opt))
  OBVIOUS
<1>2. "telemetry_source" \in DOMAIN params /\ "none" \notin DOMAIN params /\ params["telemetry_source"] = "sysmon"
  <2>1. CatalogGiven(opt) = << >>
    BY DEF CatalogGiven
  <2>2. DOMAIN CatalogDefaults = {"telemetry_source", "fidelity"} /\ CatalogDefaults["telemetry_source"] = "sysmon"
    BY DEF CatalogDefaults
  <2> QED
    BY <1>1, <2>1, <2>2 DEF Merged
<1>3. PICK e : e = [f \in DOMAIN CatalogTemplate |-> Rendered(CatalogTemplate[f], params)]
  OBVIOUS
<1>4. PICK template : template = CatalogTemplate
  OBVIOUS
<1>5. /\ DOMAIN template = {"event_dataset", "apt_sim_variant", "apt_sim_telemetry_source"}
      /\ template["event_dataset"] = [slot |-> "none", text |-> "scale"]
      /\ template["apt_sim_variant"] = [slot |-> "none", text |-> "variant"]
      /\ template["apt_sim_telemetry_source"] = [slot |-> "telemetry_source", text |-> "unfilled"]
  BY <1>4 DEF CatalogTemplate
<1>6. /\ "event_dataset" \in DOMAIN e /\ e["event_dataset"] = <<"scale">>
      /\ "apt_sim_variant" \in DOMAIN e /\ e["apt_sim_variant"] = <<"variant">>
      /\ "apt_sim_telemetry_source" \in DOMAIN e /\ e["apt_sim_telemetry_source"] = <<"sysmon">>
  <2>1. Rendered(template["event_dataset"], params) = <<"scale">>
    BY <1>2, <1>5 DEF Rendered
  <2>2. Rendered(template["apt_sim_variant"], params) = <<"variant">>
    BY <1>2, <1>5 DEF Rendered
  <2>3. Rendered(template["apt_sim_telemetry_source"], params) = <<"sysmon">>
    BY <1>2, <1>5 DEF Rendered
  <2>4. e = [f \in {"event_dataset", "apt_sim_variant", "apt_sim_telemetry_source"} |-> Rendered(template[f], params)]
    BY <1>3, <1>4, <1>5
  <2> QED
    BY <2>1, <2>2, <2>3, <2>4
<1>7. /\ MatchesItem(e, Is("event_dataset", {"scale"})) /\ MatchesItem(e, Is("apt_sim_variant", {"variant"}))
      /\ MatchesItem(e, Is("apt_sim_telemetry_source", {"sysmon"}))
  BY <1>6, IsMatches
<1>8. Evaluate(CatalogRule, e)
  BY <1>7, PlainMatches DEF CatalogRule
<1> QED
  BY <1>1, <1>3, <1>8, FirstDetects DEF CatalogEvents

-----------------------------------------------------------------------------
(* The rules on file events: those look at the path of an artifact. *)

FileEvent(h, f) == [TargetFilename |-> PathText(h, f)]

LEMMA PathParts ==
    ASSUME NEW h, NEW f
    PROVE  LET path == PathText(h, f)
           IN  /\ path # << >> /\ Len(path) = 3 /\ DOMAIN path = 1 .. 3
               /\ path[1] = f.dir /\ path[3] = f.ext
               /\ f.dir = "temp" /\ f.stem = "apt_sim_" /\ h.platform = "windows" =>
                    path[2] = "\\Temp\\apt_sim_"
               /\ f.dir = "temp" /\ f.stem = "apt_sim_" /\ h.platform = "linux" =>
                    path[2] = "/tmp/apt_sim_"
               /\ f.dir = "sim_artifacts" /\ f.stem = "to_delete_" =>
                    path[2] \in {"\\sim_artifacts\\to_delete_", "/sim_artifacts/to_delete_"}
               /\ f = SshMarker => path[2] = "/.ssh/apt_sim_test_authorized_keys"
<1>1. PICK dir, named, ext :
        /\ dir = f.dir /\ ext = f.ext /\ PathText(h, f) = <<dir, named, ext>>
        /\ f.dir = "temp" /\ f.stem = "apt_sim_" /\ h.platform = "windows" => named = "\\Temp\\apt_sim_"
        /\ f.dir = "temp" /\ f.stem = "apt_sim_" /\ h.platform = "linux" => named = "/tmp/apt_sim_"
        /\ f.dir = "sim_artifacts" /\ f.stem = "to_delete_" =>
             named \in {"\\sim_artifacts\\to_delete_", "/sim_artifacts/to_delete_"}
        /\ f.dir = "/.ssh/" /\ f.stem = "apt_sim_test_authorized_keys" =>
             named = "/.ssh/apt_sim_test_authorized_keys"
  BY DEF PathText
<1>2. PICK path : path = <<dir, named, ext>>
  OBVIOUS
<1>3. /\ path # << >> /\ Len(path) = 3 /\ DOMAIN path = 1 .. 3
      /\ path[1] = dir /\ path[2] = named /\ path[3] = ext
  BY <1>2
<1>4. SshMarker.dir = "/.ssh/" /\ SshMarker.stem = "apt_sim_test_authorized_keys"
  BY DEF SshMarker, File
<1> QED
  BY <1>1, <1>2, <1>3, <1>4

LEMMA FileEventIs ==
    ASSUME NEW h, NEW f
    PROVE  /\ DOMAIN FileEvent(h, f) = {"TargetFilename"}
           /\ FileEvent(h, f)["TargetFilename"] = PathText(h, f)
BY DEF FileEvent

LEMMA PathEnds ==
    ASSUME NEW h, NEW f, NEW targets, f.ext \in targets
    PROVE  MatchesItem(FileEvent(h, f), Ends("TargetFilename", targets))
<1>1. PICK e : e = FileEvent(h, f)
  OBVIOUS
<1>2. PICK path : path = PathText(h, f)
  OBVIOUS
<1>3. "TargetFilename" \in DOMAIN e /\ e["TargetFilename"] = path
  BY <1>1, <1>2, FileEventIs
<1>4. path # << >> /\ path[Len(path)] \in targets
  BY <1>2, PathParts
<1> QED
  BY <1>1, <1>3, <1>4, EndsMatches

\* One of the pieces of the path is what the rule asks for.
LEMMA PathHas ==
    ASSUME NEW h, NEW f, NEW targets, NEW k \in 1 .. 3, PathText(h, f)[k] \in targets
    PROVE  MatchesItem(FileEvent(h, f), Has("TargetFilename", targets))
<1>1. PICK e : e = FileEvent(h, f)
  OBVIOUS
<1>2. PICK path : path = PathText(h, f)
  OBVIOUS
<1>3. "TargetFilename" \in DOMAIN e /\ e["TargetFilename"] = path
  BY <1>1, <1>2, FileEventIs
<1>4. k \in DOMAIN path /\ path[k] \in targets
  BY <1>2, PathParts
<1> QED
  BY <1>1, <1>3, <1>4, HasMatches

\* The file a run is shown by: the first it lists, or one as the technique
\* would have left it.
ShownBy(listed, demo) == IF listed = << >> THEN demo ELSE listed[1]

LEMMA FirstFileEventIs ==
    ASSUME NEW h, NEW S, NEW listed \in Seq(S), NEW demo
    PROVE  FirstFileEvent(h, listed, demo) = <<FileEvent(h, ShownBy(listed, demo))>>
<1>1. PICK shown : shown = IF listed = << >> THEN <<demo>> ELSE listed
  OBVIOUS
<1>2. 1 \in DOMAIN shown /\ shown[1] = ShownBy(listed, demo)
  BY <1>1 DEF ShownBy
<1>3. FileEvents(h, listed, demo) = [i \in DOMAIN shown |-> FileEvent(h, shown[i])]
  BY <1>1 DEF FileEvents, FileEvent
<1>4. FileEvents(h, listed, demo)[1] = FileEvent(h, ShownBy(listed, demo))
  BY <1>2, <1>3
<1> QED
  BY <1>4 DEF FirstFileEvent

LEMMA T1027Detected ==
    ASSUME NEW h, NEW S, NEW listed \in Seq(S), \A f \in S : f.ext = ".b64"
    PROVE  Detects(T1027Rule, T1027Events(h, listed))
<1>1. PICK demo : demo = File(SimMarkerDir(h), "obf_", 0, ".b64")
  OBVIOUS
<1>2. PICK f : f = ShownBy(listed, demo)
  OBVIOUS
<1>3. f.ext = ".b64"
  BY <1>1, <1>2 DEF ShownBy, File
<1>4. MatchesItem(FileEvent(h, f), Ends("TargetFilename", {".b64", ".enc", ".obf"}))
  BY <1>3, PathEnds
<1>5. Evaluate(T1027Rule, FileEvent(h, f))
  BY <1>4, PlainMatches DEF T1027Rule
<1>6. T1027Events(h, listed) = <<FileEvent(h, f)>>
  BY <1>1, <1>2, FirstFileEventIs DEF T1027Events
<1> QED
  BY <1>5, <1>6, FirstDetects

LEMMA T1098Detected ==
    ASSUME NEW h, NEW S, NEW listed \in Seq(S), \A f \in S : f = SshMarker
    PROVE  Detects(T1098Rule, T1098Events(h, listed))
<1>1. PICK f : f = SshMarker
  OBVIOUS
<1>2. ShownBy(listed, f) = f
  BY <1>1 DEF ShownBy
<1>3. PathText(h, f)[2] = "/.ssh/apt_sim_test_authorized_keys"
  BY <1>1, PathParts
<1>4. MatchesItem(FileEvent(h, f), Has("TargetFilename", {"/.ssh/apt_sim_test_authorized_keys"}))
  BY <1>3, PathHas
<1>5. Evaluate(T1098Rule, FileEvent(h, f))
  BY <1>4, OneOfMatches DEF T1098Rule
<1>6. T1098Events(h, listed) = <<FileEvent(h, f)>>
  BY <1>1, <1>2, FirstFileEventIs DEF T1098Events, SshMarker
<1> QED
  BY <1>5, <1>6, FirstDetects

LEMMA T1543Detected ==
    ASSUME NEW h, NEW S, NEW listed \in Seq(S), \A f \in S : f = UnitFile
    PROVE  Detects(T1543Rule, T1543Events(h, listed))
<1>1. PICK f : f = UnitFile
  OBVIOUS
<1>2. ShownBy(listed, f) = f
  BY <1>1 DEF ShownBy
<1>3. f.dir = "/.config/systemd/user/" /\ f.ext = ".service"
  BY <1>1 DEF UnitFile, File
<1>4. PathText(h, f)[1] = "/.config/systemd/user/"
  BY <1>3, PathParts
<1>5. MatchesItem(FileEvent(h, f), Has("TargetFilename", {"/.config/systemd/user/"}))
  BY <1>4, PathHas
<1>6. MatchesItem(FileEvent(h, f), Ends("TargetFilename", {".service"}))
  BY <1>3, PathEnds
<1>7. Evaluate(T1543Rule, FileEvent(h, f))
  BY <1>5, <1>6, PlainMatches DEF T1543Rule
<1>8. T1543Events(h, listed) = <<FileEvent(h, f)>>
  BY <1>1, <1>2, FirstFileEventIs DEF T1543Events, UnitFile
<1> QED
  BY <1>7, <1>8, FirstDetects

\* The tool of another ending than .exe is none of Windows' programs.
LEMMA T1105Detected ==
    ASSUME NEW P, NEW h \in [platform : P, lab : BOOLEAN], NEW opt \in {".exe", ".sh"},
           NEW S, NEW listed \in Seq(S),
           h.platform \in {"windows", "linux"}, h.platform = "windows" => opt = ".exe",
           \A f \in S : f.dir = "temp" /\ f.stem = "apt_sim_" /\ f.ext = opt
    PROVE  Detects(T1105Rule, T1105Events(h, listed))
<1>1. PICK demo : demo = IF listed = << >> THEN File("temp", "apt_sim_", 0, ".exe") ELSE << >>
  OBVIOUS
<1>2. PICK f : f = ShownBy(listed, demo)
  OBVIOUS
<1>3. f.dir = "temp" /\ f.stem = "apt_sim_" /\ (h.platform = "windows" => f.ext = ".exe")
  BY <1>1, <1>2 DEF ShownBy, File
<1>4. PICK e : e = FileEvent(h, f)
  OBVIOUS
<1>5. Evaluate(T1105Rule, e)
  <2>1. CASE h.platform = "windows"
    <3>1. PathText(h, f)[2] = "\\Temp\\apt_sim_"
      BY <1>3, <2>1, PathParts
    <3>2. MatchesItem(e, Has("TargetFilename", {"\\Temp\\apt_sim_"}))
      BY <1>4, <3>1, PathHas
    <3>3. MatchesItem(e, Ends("TargetFilename", {".exe", ".dll", ".bat", ".ps1"}))
      BY <1>3, <1>4, <2>1, PathEnds
    <3> QED
      BY <3>2, <3>3, OneOfMatches DEF T1105Rule
  <2>2. CASE h.platform = "linux"
    <3>1. PathText(h, f)[2] = "/tmp/apt_sim_"
      BY <1>3, <2>2, PathParts
    <3>2. MatchesItem(e, Has("TargetFilename", {"/tmp/apt_sim_"}))
      BY <1>4, <3>1, PathHas
    <3> QED
      BY <3>2, OneOfMatches DEF T1105Rule
  <2> QED
    BY <2>1, <2>2
<1>6. T1105Events(h, listed) = <<e>>
  <2>1. CASE listed = << >>
    <3>1. h.platform # "windows" => [h EXCEPT !.platform = "linux"] = h
      OBVIOUS
    <3>2. T1105Events(h, listed) = FirstFileEvent(h, << >>, File("temp", "apt_sim_", 0, ".exe"))
      BY <2>1, <3>1 DEF T1105Events
    <3>3. FirstFileEvent(h, << >>, demo) = <<FileEvent(h, ShownBy(<< >>, demo))>>
      BY <2>1, FirstFileEventIs
    <3> QED
      BY <1>1, <1>2, <1>4, <2>1, <3>2, <3>3
  <2>2. CASE listed # << >>
    BY <1>1, <1>2, <1>4, <2>2, FirstFileEventIs DEF T1105Events
  <2> QED
    BY <2>1, <2>2
<1> QED
  BY <1>5, <1>6, FirstDetects

LEMMA T1070Detected ==
    ASSUME NEW h, ~h.lab, NEW S, NEW listed \in Seq(S),
           \A f \in S : f.dir = SimMarkerDir(h) /\ f.stem = "to_delete_"
    PROVE  Detects(T1070Rule, T1070Events(h, listed))
<1>1. PICK demo : demo = File(SimMarkerDir(h), "to_delete_", 0, ".tmp")
  OBVIOUS
<1>2. PICK f : f = ShownBy(listed, demo)
  OBVIOUS
<1>3. f.dir = "sim_artifacts" /\ f.stem = "to_delete_"
  BY <1>1, <1>2 DEF ShownBy, File, SimMarkerDir
<1>4. PICK e : e = [TargetFilename |-> PathText(h, f), EventType |-> <<"deletion">>]
  OBVIOUS
<1>5. T1070Events(h, listed) = <<e>>
  <2>1. FirstFileEvent(h, listed, demo) = <<FileEvent(h, f)>>
    BY <1>2, FirstFileEventIs
  <2>2. FirstFileEvent(h, listed, demo)[1].TargetFilename = PathText(h, f)
    BY <2>1 DEF FileEvent
  <2> QED
    BY <1>1, <1>4, <2>2 DEF T1070Events
<1>6. PICK path : path = PathText(h, f)
  OBVIOUS
<1>7. path[2] \in {"\\sim_artifacts\\to_delete_", "/sim_artifacts/to_delete_"} /\ 2 \in DOMAIN path
  BY <1>3, <1>6, PathParts
<1>8. /\ "TargetFilename" \in DOMAIN e /\ e["TargetFilename"] = path
      /\ "EventType" \in DOMAIN e /\ e["EventType"] = <<"deletion">>
  BY <1>4, <1>6
<1>9. MatchesItem(e, Has("TargetFilename", {"\\sim_artifacts\\to_delete_", "/sim_artifacts/to_delete_"}))
  BY <1>7, <1>8, HasMatches
<1>10. MatchesItem(e, Is("EventType", {"deletion"}))
  BY <1>8, IsMatches
<1>11. Evaluate(T1070Rule, e)
  BY <1>9, <1>10, PlainMatches DEF T1070Rule
<1> QED
  BY <1>5, <1>11, FirstDetects

LEMMA T1486Detected ==
    ASSUME NEW h, NEW S, NEW listed \in Seq(S), \A f \in S : f.ext = ".encrypted"
    PROVE  Detects(T1486Rule, T1486Events(h, listed))
<1>1. PICK demo : demo = File(SimMarkerDir(h), "sim_ransom_", 0, ".encrypted")
  OBVIOUS
<1>2. PICK n \in 0 .. Len(listed) : n = IF Len(listed) < 3 THEN Len(listed) ELSE 3
  BY LenProperties
<1>3. PICK first : first = SubSeq(listed, 1, n)
  OBVIOUS
<1>4. first \in Seq(S)
  <2>1. \A i \in 1 .. n : listed[i] \in S
    BY <1>2, ElementOfSeq, LenProperties
  <2> QED
    BY <1>2, <1>3, <2>1, LenProperties, SubSeqProperties
<1>5. PICK shown : shown = IF first = << >> THEN <<demo>> ELSE first
  OBVIOUS
<1>6. PICK f : f = shown[1]
  OBVIOUS
<1>7. 1 \in DOMAIN shown /\ f.ext = ".encrypted"
  BY <1>1, <1>4, <1>5, <1>6 DEF File
<1>8. PICK events : events = [i \in DOMAIN shown |-> FileEvent(h, shown[i])]
  OBVIOUS
<1>9. T1486Events(h, listed) = events
  <2>1. T1486Events(h, listed) = FileEvents(h, first, demo)
    BY <1>1, <1>2, <1>3 DEF T1486Events
  <2>2. FileEvents(h, first, demo) = events
    BY <1>5, <1>8 DEF FileEvents, FileEvent
  <2> QED
    BY <2>1, <2>2
<1>10. 1 \in DOMAIN events /\ events[1] = FileEvent(h, f)
  BY <1>6, <1>7, <1>8
<1>11. MatchesItem(FileEvent(h, f), Ends("TargetFilename", {".encrypted", ".enc", ".locked", ".crypt"}))
  BY <1>7, PathEnds
<1>12. Evaluate(T1486Rule, FileEvent(h, f))
  BY <1>11, PlainMatches DEF T1486Rule
<1> QED
  BY <1>9, <1>10, <1>12, FirstDetects

-----------------------------------------------------------------------------
(* The techniques: what a run that ended ok lists. *)

\* The techniques whose events depend on the artifacts of the result.
ShowFiles == {"T1105", "T1027", "T1070.004", "T1486", "T1098.004", "T1543.002"}

\* What their artifacts are like.
Artifact(h, t, opt, f) ==
    CASE t = "T1105" -> f.dir = StagingDir(h) /\ f.stem = "apt_sim_" /\ f.ext = opt
      [] t = "T1027" -> f.ext = ".b64"
      [] t = "T1070.004" -> opt # "path" => f.dir = SimMarkerDir(h) /\ f.stem = "to_delete_"
      [] t = "T1486" -> f.ext = ".encrypted"
      [] t = "T1098.004" -> f = SshMarker
      [] t = "T1543.002" -> f = UnitFile

Lists(h, t, opt, listed) ==
    /\ listed \in Seq(ToSet(listed))
    /\ \A f \in ToSet(listed) : Artifact(h, t, opt, f)

DetectIInv ==
    /\ last.op = "run" => last.t \in Techniques /\ last.opt \in Options(last.t)
    /\ last.op = "run" /\ last.how = "ok" /\ last.t \in ShowFiles =>
         Lists(host, last.t, last.opt, last.listed)

LEMMA ListsNone ==
    ASSUME NEW h, NEW t, NEW opt
    PROVE  Lists(h, t, opt, << >>)
BY ToSetOfNone DEF Lists

LEMMA ListsOne ==
    ASSUME NEW h, NEW t, NEW opt, NEW f, Artifact(h, t, opt, f)
    PROVE  Lists(h, t, opt, <<f>>)
<1>1. <<f>> \in Seq({f}) /\ ToSet(<<f>>) = {f}
  BY ToSetOfOne
<1> QED
  BY <1>1 DEF Lists

LEMMA ListsMany ==
    ASSUME NEW h, NEW t, NEW opt, NEW S, NEW listed \in Seq(S), \A f \in ToSet(listed) : Artifact(h, t, opt, f)
    PROVE  Lists(h, t, opt, listed)
<1>1. listed \in [1 .. Len(listed) -> ToSet(listed)] /\ Len(listed) \in Nat
  BY LenProperties DEF ToSet
<1>2. listed \in Seq(ToSet(listed))
  BY <1>1, SeqDef
<1> QED
  BY <1>2 DEF Lists

\* A write that ended ok lists its file.
LEMMA WritesList ==
    ASSUME NEW f, NEW o \in Writes(f) \cup WritesGuarded(f) \cup Refused, o.how = "ok"
    PROVE  o.listed = <<f>>
BY DEF Writes, WritesGuarded, Refused, Did, Raised, Failed, Outcome

LEMMA RansomSeq ==
    ASSUME NEW h, NEW n, NEW count \in {1, 2}
    PROVE  SubSeq(T1486Files(h, count, n), 1, count) \in Seq(Range(T1486Files(h, count, n)))
<1>1. PICK files : files = T1486Files(h, count, n)
  OBVIOUS
<1>2. files \in Seq(Range(files)) /\ Len(files) = count
  <2>1. DOMAIN files = 1 .. count /\ count \in Nat /\ files = [i \in DOMAIN files |-> files[i]]
    BY <1>1 DEF T1486Files
  <2>2. files \in [1 .. count -> Range(files)]
    BY <2>1 DEF Range
  <2>3. files \in Seq(Range(files))
    BY <2>1, <2>2, SeqDef
  <2> QED
    BY <2>1, <2>3, LenProperties
<1>3. \A i \in 1 .. count : files[i] \in Range(files)
  BY <1>2, ElementOfSeq
<1> QED
  BY <1>1, <1>2, <1>3, SubSeqProperties

LEMMA OkRunsList ==
    ASSUME NEW d, NEW h, NEW t \in ShowFiles, NEW p \in Params(t), NEW o \in RunOutcomes(d, h, t, p),
           o.how = "ok"
    PROVE  Lists(h, t, p.opt, o.listed)
<1>1. CASE t = "T1105"
  <2>1. PICK n \in Stamps : o \in WritesGuarded(File(StagingDir(h), "apt_sim_", n, p.opt))
    <3>1. o \in T1105Run(h, p)
      BY <1>1 DEF RunOutcomes
    <3> QED
      BY <3>1 DEF T1105Run
  <2>2. PICK f : f = File(StagingDir(h), "apt_sim_", n, p.opt)
    OBVIOUS
  <2>3. o.listed = <<f>>
    BY <2>1, <2>2, WritesList
  <2>4. Artifact(h, t, p.opt, f)
    BY <1>1, <2>2 DEF File, Artifact
  <2> QED
    BY <2>3, <2>4, ListsOne
<1>2. CASE t = "T1027"
  <2>1. PICK n \in Stamps : o \in Writes(File(SimMarkerDir(h), "obf_", n, ".b64"))
    <3>1. o \in T1027Run(h)
      BY <1>2 DEF RunOutcomes
    <3> QED
      BY <3>1 DEF T1027Run
  <2>2. PICK f : f = File(SimMarkerDir(h), "obf_", n, ".b64")
    OBVIOUS
  <2>3. o.listed = <<f>>
    BY <2>1, <2>2, WritesList
  <2>4. Artifact(h, t, p.opt, f)
    BY <1>2, <2>2 DEF File, Artifact
  <2> QED
    BY <2>3, <2>4, ListsOne
<1>3. CASE t = "T1070.004"
  <2>0. o \in T1070Run(d, h, p)
    BY <1>3 DEF RunOutcomes
  <2>1. CASE p.opt = "outside"
    <3>1. o.how = "error"
      BY <2>0, <2>1 DEF T1070Run, Refused, Failed, Outcome
    <3> QED
      BY <3>1
  <2>2. CASE p.opt = "no_path"
    <3>1. PICK n, f :
            /\ f = T1070Target(h, p, n)
            /\ o \in {Outcome("ok", {}, {f}, <<f>>), Raised({}), Raised({f})}
      BY <2>0, <2>2 DEF T1070Run
    <3>2. o.listed = <<f>>
      BY <3>1 DEF Outcome, Raised
    <3>3. Artifact(h, t, p.opt, f)
      BY <1>3, <2>2, <3>1 DEF T1070Target, File, Artifact
    <3> QED
      BY <3>2, <3>3, ListsOne
  <2>3. CASE p.opt \notin {"outside", "no_path"}
    <3>1. p.opt = "path"
      BY <1>3, <2>3 DEF Params, Options
    <3>2. PICK n, f :
            /\ f = T1070Target(h, p, n)
            /\ o \in IF f \in d THEN {Outcome("ok", {}, {f}, <<f>>), Raised({})}
                                ELSE {Did(<< >>), Raised({})}
      BY <2>0, <2>3 DEF T1070Run
    <3>3. o.listed = <<f>> \/ o.listed = << >>
      BY <3>2 DEF Outcome, Raised, Did
    <3>4. Artifact(h, t, p.opt, f)
      BY <1>3, <3>1 DEF Artifact
    <3> QED
      BY <3>3, <3>4, ListsOne, ListsNone
  <2> QED
    BY <2>1, <2>2, <2>3
<1>4. CASE t = "T1486"
  <2>1. PICK count, n : /\ count \in {1, 2} /\ n \in Stamps
                        /\ o \in {Did(SubSeq(T1486Files(h, count, n), 1, count)), Raised({})}
                               \cup {Failed(ToSet(SubSeq(T1486Files(h, count, n), 1, jk[1])),
                                            SubSeq(T1486Files(h, count, n), 1, jk[2])) : jk \in
                                        {x \in (0 .. count) \X (0 .. count - 1) : x[1] \in {x[2], x[2] + 1}}}
    <3>1. o \in T1486Run(h, p)
      BY <1>4 DEF RunOutcomes
    <3>2. PICK count : count = IF p.opt = "two_files" THEN 2 ELSE 1
      OBVIOUS
    <3>3. \E n \in Stamps :
            o \in {Did(SubSeq(T1486Files(h, count, n), 1, count)), Raised({})}
                  \cup {Failed(ToSet(SubSeq(T1486Files(h, count, n), 1, jk[1])),
                               SubSeq(T1486Files(h, count, n), 1, jk[2])) : jk \in
                           {x \in (0 .. count) \X (0 .. count - 1) : x[1] \in {x[2], x[2] + 1}}}
      BY <3>1, <3>2 DEF T1486Run
    <3> QED
      BY <3>2, <3>3
  <2>2. PICK files : files = SubSeq(T1486Files(h, count, n), 1, count)
    OBVIOUS
  <2>3. o.listed = files
    <3>1. o = Did(files)
      BY <2>1, <2>2 DEF Raised, Failed, Outcome
    <3> QED
      BY <3>1 DEF Did, Outcome
  <2>4. \A f \in ToSet(files) : Artifact(h, t, p.opt, f)
    <3>1. count \in 0 .. count
      BY <2>1
    <3>2. \A f \in ToSet(files) : Marks(h, "T1486", << >>, f)
      BY <2>1, <2>2, <3>1, RansomFiles
    <3> QED
      BY <1>4, <3>2 DEF Marks, Artifact
  <2> QED
    BY <2>1, <2>2, <2>3, <2>4, RansomSeq, ListsMany
<1>5. CASE t = "T1098.004"
  <2>1. PICK f : f = SshMarker
    OBVIOUS
  <2>2. o \in WritesGuarded(f) \cup Refused
    BY <1>5, <2>1 DEF RunOutcomes, T1098Run
  <2>3. o.listed = <<f>>
    BY <2>2, WritesList
  <2>4. Artifact(h, t, p.opt, f)
    BY <1>5, <2>1 DEF Artifact
  <2> QED
    BY <2>3, <2>4, ListsOne
<1>6. CASE t = "T1543.002"
  <2>1. PICK f : f = UnitFile
    OBVIOUS
  <2>2. o \in WritesGuarded(f) \cup Refused
    BY <1>6, <2>1 DEF RunOutcomes, T1543Run
  <2>3. o.listed = <<f>>
    BY <2>2, WritesList
  <2>4. Artifact(h, t, p.opt, f)
    BY <1>6, <2>1 DEF Artifact
  <2> QED
    BY <2>3, <2>4, ListsOne
<1> QED
  BY <1>1, <1>2, <1>3, <1>4, <1>5, <1>6 DEF ShowFiles

\* RunIsDetected for one technique, with the same exceptions.
LEMMA RunsMatchRules ==
    ASSUME NEW P, NEW h \in [platform : P, lab : BOOLEAN], NEW t \in Techniques, NEW opt \in Options(t),
           NEW listed, t \in ShowFiles => Lists(h, t, opt, listed),
           ~(t = "T1070.004" /\ h.lab),
           ~(t = "T1105" /\ (h.lab \/ h.platform \notin {"windows", "linux"})),
           ~(t = "T1105" /\ h.platform = "windows" /\ opt = ".sh"),
           opt \notin {"path", "other_port", "other_source"}
    PROVE  Detects(RuleOf(t), EventsOf(h, t, opt, listed))
<1>1. CASE t = "T1005"
  <2>1. RuleOf(t) = T1005Rule /\ EventsOf(h, t, opt, listed) = T1005Events
    BY <1>1 DEF RuleOf, EventsOf
  <2> QED
    BY <2>1, T1005Detected
<1>2. CASE t = "T1530"
  <2>1. RuleOf(t) = T1530Rule /\ EventsOf(h, t, opt, listed) = T1530Events(opt)
    BY <1>2 DEF RuleOf, EventsOf
  <2> QED
    BY <2>1, T1530Detected
<1>3. CASE t = "T1560"
  <2>1. RuleOf(t) = T1560Rule /\ EventsOf(h, t, opt, listed) = T1560Events
    BY <1>3 DEF RuleOf, EventsOf
  <2> QED
    BY <2>1, T1560Detected
<1>4. CASE t = "T1071.001"
  <2>1. RuleOf(t) = T1071Rule /\ EventsOf(h, t, opt, listed) = T1071Events
    BY <1>4 DEF RuleOf, EventsOf
  <2> QED
    BY <2>1, T1071Detected
<1>5. CASE t = "T1003"
  <2>1. RuleOf(t) = T1003Rule /\ EventsOf(h, t, opt, listed) = T1003Events
    BY <1>5 DEF RuleOf, EventsOf
  <2> QED
    BY <2>1, T1003Detected
<1>6. CASE t = "T1110"
  <2>1. RuleOf(t) = T1110Rule /\ EventsOf(h, t, opt, listed) = T1110Events(opt)
    BY <1>6 DEF RuleOf, EventsOf
  <2> QED
    BY <2>1, T1110Detected
<1>7. CASE t = "T1055"
  <2>1. RuleOf(t) = T1055Rule /\ EventsOf(h, t, opt, listed) = T1055Events
    BY <1>7 DEF RuleOf, EventsOf
  <2> QED
    BY <2>1, T1055Detected
<1>8. CASE t = "T1112"
  <2>1. RuleOf(t) = T1112Rule /\ EventsOf(h, t, opt, listed) = T1112Events
    BY <1>8 DEF RuleOf, EventsOf
  <2> QED
    BY <2>1, T1112Detected
<1>9. CASE t = "T1016"
  <2>1. RuleOf(t) = T1016Rule /\ EventsOf(h, t, opt, listed) = T1016Events
    BY <1>9 DEF RuleOf, EventsOf
  <2> QED
    BY <2>1, T1016Detected
<1>10. CASE t = "T1033"
  <2>1. RuleOf(t) = T1033Rule /\ EventsOf(h, t, opt, listed) = T1033Events
    BY <1>10 DEF RuleOf, EventsOf
  <2> QED
    BY <2>1, T1033Detected
<1>11. CASE t = "T1049"
  <2>1. RuleOf(t) = T1049Rule /\ EventsOf(h, t, opt, listed) = T1049Events
    BY <1>11 DEF RuleOf, EventsOf
  <2> QED
    BY <2>1, T1049Detected
<1>12. CASE t = "T1057"
  <2>1. RuleOf(t) = T1057Rule /\ EventsOf(h, t, opt, listed) = T1057Events
    BY <1>12 DEF RuleOf, EventsOf
  <2> QED
    BY <2>1, T1057Detected
<1>13. CASE t = "T1069.001"
  <2>1. RuleOf(t) = T1069Rule /\ EventsOf(h, t, opt, listed) = T1069Events
    BY <1>13 DEF RuleOf, EventsOf
  <2> QED
    BY <2>1, T1069Detected
<1>14. CASE t = "T1082"
  <2>1. RuleOf(t) = T1082Rule /\ EventsOf(h, t, opt, listed) = T1082Events
    BY <1>14 DEF RuleOf, EventsOf
  <2> QED
    BY <2>1, T1082Detected
<1>15. CASE t = "T1083"
  <2>1. RuleOf(t) = T1083Rule /\ EventsOf(h, t, opt, listed) = T1083Events
    BY <1>15 DEF RuleOf, EventsOf
  <2> QED
    BY <2>1, T1083Detected
<1>16. CASE t = "T1580"
  <2>1. RuleOf(t) = T1580Rule /\ EventsOf(h, t, opt, listed) = T1580Events(opt)
    BY <1>16 DEF RuleOf, EventsOf
  <2> QED
    BY <2>1, T1580Detected
<1>17. CASE t = "T1059"
  <2>1. RuleOf(t) = T1059Rule /\ EventsOf(h, t, opt, listed) = T1059Events(opt)
    BY <1>17 DEF RuleOf, EventsOf
  <2> QED
    BY <2>1, T1059Detected
<1>18. CASE t = "T1041"
  <2>1. RuleOf(t) = T1041Rule /\ EventsOf(h, t, opt, listed) = T1041Events
    BY <1>18 DEF RuleOf, EventsOf
  <2> QED
    BY <2>1, T1041Detected
<1>19. CASE t = "T1048"
  <2>1. RuleOf(t) = T1048Rule /\ EventsOf(h, t, opt, listed) = T1048Events
    BY <1>19 DEF RuleOf, EventsOf
  <2> QED
    BY <2>1, T1048Detected
<1>20. CASE t = "T1078.004"
  <2>1. RuleOf(t) = T1078Rule /\ EventsOf(h, t, opt, listed) = T1078Events
    BY <1>20 DEF RuleOf, EventsOf
  <2> QED
    BY <2>1, T1078Detected
<1>21. CASE t = "T1021.001"
  <2>1. RuleOf(t) = T1021001Rule /\ EventsOf(h, t, opt, listed) = T1021001Events(opt)
    BY <1>21 DEF RuleOf, EventsOf
  <2> QED
    BY <2>1, T1021001Detected
<1>22. CASE t = "T1021.002"
  <2>1. RuleOf(t) = T1021002Rule /\ EventsOf(h, t, opt, listed) = T1021002Events(opt)
    BY <1>22 DEF RuleOf, EventsOf
  <2> QED
    BY <2>1, T1021002Detected
<1>23. CASE t = "T1053.005"
  <2>1. RuleOf(t) = T1053Rule /\ EventsOf(h, t, opt, listed) = T1053Events
    BY <1>23 DEF RuleOf, EventsOf
  <2> QED
    BY <2>1, T1053Detected
<1>24. CASE t = "T1547.001"
  <2>1. RuleOf(t) = T1547Rule /\ EventsOf(h, t, opt, listed) = T1547Events
    BY <1>24 DEF RuleOf, EventsOf
  <2> QED
    BY <2>1, T1547Detected
<1>25. CASE t = "CATALOG"
  <2>1. RuleOf(t) = CatalogRule /\ EventsOf(h, t, opt, listed) = CatalogEvents(opt)
    BY <1>25 DEF RuleOf, EventsOf
  <2> QED
    BY <2>1, CatalogDetected
<1>26. CASE t = "T1105"
  <2>1. RuleOf(t) = T1105Rule /\ EventsOf(h, t, opt, listed) = T1105Events(h, listed)
    BY <1>26 DEF RuleOf, EventsOf
  <2>2. listed \in Seq(ToSet(listed)) /\ \A f \in ToSet(listed) : f.dir = "temp" /\ f.stem = "apt_sim_" /\ f.ext = opt
    BY <1>26 DEF ShowFiles, Lists, Artifact, StagingDir
  <2>3. opt \in {".exe", ".sh"}
    BY <1>26 DEF Options
  <2> QED
    BY <1>26, <2>1, <2>2, <2>3, T1105Detected
<1>27. CASE t = "T1027"
  <2>1. RuleOf(t) = T1027Rule /\ EventsOf(h, t, opt, listed) = T1027Events(h, listed)
    BY <1>27 DEF RuleOf, EventsOf
  <2>2. listed \in Seq(ToSet(listed)) /\ \A f \in ToSet(listed) : f.ext = ".b64"
    BY <1>27 DEF ShowFiles, Lists, Artifact
  <2> QED
    BY <1>27, <2>1, <2>2, T1027Detected
<1>28. CASE t = "T1070.004"
  <2>1. RuleOf(t) = T1070Rule /\ EventsOf(h, t, opt, listed) = T1070Events(h, listed)
    BY <1>28 DEF RuleOf, EventsOf
  <2>2. listed \in Seq(ToSet(listed)) /\ \A f \in ToSet(listed) : f.dir = SimMarkerDir(h) /\ f.stem = "to_delete_"
    BY <1>28 DEF ShowFiles, Lists, Artifact
  <2> QED
    BY <1>28, <2>1, <2>2, T1070Detected
<1>29. CASE t = "T1486"
  <2>1. RuleOf(t) = T1486Rule /\ EventsOf(h, t, opt, listed) = T1486Events(h, listed)
    BY <1>29 DEF RuleOf, EventsOf
  <2>2. listed \in Seq(ToSet(listed)) /\ \A f \in ToSet(listed) : f.ext = ".encrypted"
    BY <1>29 DEF ShowFiles, Lists, Artifact
  <2> QED
    BY <1>29, <2>1, <2>2, T1486Detected
<1>30. CASE t = "T1098.004"
  <2>1. RuleOf(t) = T1098Rule /\ EventsOf(h, t, opt, listed) = T1098Events(h, listed)
    BY <1>30 DEF RuleOf, EventsOf
  <2>2. listed \in Seq(ToSet(listed)) /\ \A f \in ToSet(listed) : f = SshMarker
    BY <1>30 DEF ShowFiles, Lists, Artifact
  <2> QED
    BY <1>30, <2>1, <2>2, T1098Detected
<1>31. CASE t = "T1543.002"
  <2>1. RuleOf(t) = T1543Rule /\ EventsOf(h, t, opt, listed) = T1543Events(h, listed)
    BY <1>31 DEF RuleOf, EventsOf
  <2>2. listed \in Seq(ToSet(listed)) /\ \A f \in ToSet(listed) : f = UnitFile
    BY <1>31 DEF ShowFiles, Lists, Artifact
  <2> QED
    BY <1>31, <2>1, <2>2, T1543Detected
<1> QED
  BY <1>1, <1>2, <1>3, <1>4, <1>5, <1>6, <1>7, <1>8, <1>9, <1>10, <1>11, <1>12, <1>13, <1>14, <1>15, <1>16, <1>17, <1>18, <1>19, <1>20, <1>21, <1>22, <1>23, <1>24, <1>25, <1>26, <1>27, <1>28, <1>29, <1>30, <1>31 DEF Techniques

LEMMA DetectInitHolds == HostInit => DetectIInv
BY DEF HostInit, NoCall, DetectIInv

LEMMA DetectNextHolds == DetectIInv /\ (HostNext \/ UNCHANGED hostVars) => DetectIInv'
<1> SUFFICES ASSUME DetectIInv, HostNext \/ UNCHANGED hostVars
             PROVE  DetectIInv'
  OBVIOUS
<1>1. ASSUME NEW t \in Techniques, NEW p \in Params(t), RunTechnique(t, p)
      PROVE  DetectIInv'
  <2>1. PICK o \in RunOutcomes(disk, host, t, p) :
          last' = [op |-> "run", t |-> t, opt |-> p.opt, dir |-> p.dir, how |-> o.how, listed |-> o.listed]
    BY <1>1 DEF RunTechnique
  <2>2. p.opt \in Options(t) /\ host' = host
    BY <1>1 DEF Params, RunTechnique
  <2>3. o.how = "ok" /\ t \in ShowFiles => Lists(host, t, p.opt, o.listed)
    BY OkRunsList
  <2>4. last'.t = t /\ last'.opt = p.opt /\ last'.how = o.how /\ last'.listed = o.listed
    BY <2>1
  <2> QED
    BY <2>2, <2>3, <2>4 DEF DetectIInv
<1>2. ASSUME NEW t, NEW p, CleanupTechnique(t, p)
      PROVE  DetectIInv'
  <2>1. last'.op = "cleanup"
    BY <1>2 DEF CleanupTechnique
  <2> QED
    BY <2>1 DEF DetectIInv
<1>3. CASE UNCHANGED hostVars
  BY <1>3 DEF hostVars, DetectIInv
<1> QED
  BY <1>1, <1>2, <1>3 DEF HostNext

LEMMA ListedIsDetected == HostTypeOK /\ DetectIInv => RunIsDetected
<1> SUFFICES ASSUME HostTypeOK, DetectIInv, last.op = "run", last.how = "ok",
                    ~(last.t = "T1070.004" /\ host.lab),
                    ~(last.t = "T1105" /\ (host.lab \/ host.platform \notin {"windows", "linux"})),
                    ~(last.t = "T1105" /\ host.platform = "windows" /\ last.opt = ".sh"),
                    last.opt \notin {"path", "other_port", "other_source"},
                    NEW listed \in {last.listed, << >>}
             PROVE  Verdict(RuleOf(last.t), EventsOf(host, last.t, last.opt, listed)) \in {"COVERED", "NO-EVENTS"}
  BY DEF RunIsDetected
<1>1. host \in [platform : Platforms, lab : BOOLEAN]
  BY DEF HostTypeOK
<1>2. last.t \in Techniques /\ last.opt \in Options(last.t)
  BY DEF DetectIInv
<1>3. last.t \in ShowFiles => Lists(host, last.t, last.opt, listed)
  BY ListsNone DEF DetectIInv
<1>4. Detects(RuleOf(last.t), EventsOf(host, last.t, last.opt, listed))
  BY <1>1, <1>2, <1>3, RunsMatchRules
<1> QED
  BY <1>4, DetectsVerdict

\* A run that ended ok names a technique and an option it takes; and what it
\* lists are files as its technique writes them.
THEOREM DetectionInvariant == LabSpec => []DetectIInv
<1>1. LabInit => DetectIInv
  BY DetectInitHolds DEF LabInit
<1>2. DetectIInv /\ [LabNext]_labVars => DetectIInv'
  <2> SUFFICES ASSUME DetectIInv, [LabNext]_labVars PROVE DetectIInv'
    OBVIOUS
  <2>1. HostNext \/ UNCHANGED hostVars
    BY DEF LabNext, HostWorks, LibraryWorks, BuilderWorks, MaturityWorks, SmokeWorks, labVars
  <2> QED
    BY <2>1, DetectNextHolds
<1> QED
  BY <1>1, <1>2, PTL DEF LabSpec

\* Every technique, on a host of any platform and with any clock and directories,
\* is seen by its own Sigma rule: with the artifacts of a run that ended ok and
\* without them, the events are none or one of them matches; but for the runs
\* pointed elsewhere than the rule looks.  Of the catalog, a generated entry.
THEOREM RunsAreDetected == LabSpec => []RunIsDetected
<1>1. HostIInv /\ DetectIInv => RunIsDetected
  BY ListedIsDetected DEF HostIInv
<1> QED
  BY <1>1, HostInvariant, DetectionInvariant, PTL

-----------------------------------------------------------------------------
(* The rules: the runs that RunIsDetected excepts. *)

LEMMA IsFails ==
    ASSUME NEW e, NEW f, NEW targets, \A t \in targets : e[f] # <<t>>
    PROVE  ~MatchesItem(e, Is(f, targets))
<1>1. PICK i : i = Is(f, targets)
  OBVIOUS
<1>2. i.field = f /\ i.op = "is" /\ ~i.all /\ i.targets = targets
  BY <1>1 DEF Is, Item
<1>3. \A t \in targets : ~FieldMatch(e[f], "is", t)
  BY DEF FieldMatch
<1> QED
  BY <1>1, <1>2, <1>3 DEF MatchesItem

LEMMA HasFails ==
    ASSUME NEW e, NEW f, NEW targets, \A k \in DOMAIN e[f] : e[f][k] \notin targets
    PROVE  ~MatchesItem(e, Has(f, targets))
<1>1. PICK i : i = Has(f, targets)
  OBVIOUS
<1>2. i.field = f /\ i.op = "contains" /\ ~i.all /\ i.targets = targets
  BY <1>1 DEF Has, Item
<1>3. \A t \in targets : ~FieldMatch(e[f], "contains", t)
  BY DEF FieldMatch
<1> QED
  BY <1>1, <1>2, <1>3 DEF MatchesItem

LEMMA PlainFails ==
    ASSUME NEW items, NEW e, NEW i \in items, ~MatchesItem(e, i)
    PROVE  ~Evaluate(Plain(items), e)
<1>1. PICK r : r = Plain(items)
  OBVIOUS
<1>2. PICK m : m = [n \in DOMAIN r.selections |-> MatchesSelection(e, r.selections[n])]
  OBVIOUS
<1>3. r.selections = [selection |-> items] /\ r.condition = [op |-> "alone", base |-> Name("selection")]
  BY <1>1 DEF Plain
<1>4. DOMAIN m = {"selection"} /\ ~m["selection"]
  BY <1>2, <1>3 DEF MatchesSelection
<1>5. Name("selection").of = "name" /\ Name("selection").names = {"selection"}
  BY DEF Name
<1>6. ~EvalAtom(m, Name("selection"))
  BY <1>4, <1>5 DEF EvalAtom
<1> QED
  BY <1>1, <1>2, <1>3, <1>6 DEF Evaluate

LEMMA OneOfFails ==
    ASSUME NEW selections, NEW e, \A n \in DOMAIN selections : \E i \in selections[n] : ~MatchesItem(e, i)
    PROVE  ~Evaluate(OneOfSelections(selections), e)
<1>1. PICK r : r = OneOfSelections(selections)
  OBVIOUS
<1>2. PICK m : m = [x \in DOMAIN r.selections |-> MatchesSelection(e, r.selections[x])]
  OBVIOUS
<1>3. r.selections = selections /\ r.condition = [op |-> "alone", base |-> OneOf(DOMAIN selections)]
  BY <1>1 DEF OneOfSelections
<1>4. \A n \in DOMAIN m : ~m[n]
  BY <1>2, <1>3 DEF MatchesSelection
<1>5. OneOf(DOMAIN selections).of = "one"
  BY DEF OneOf
<1>6. ~EvalAtom(m, OneOf(DOMAIN selections))
  BY <1>4, <1>5 DEF EvalAtom
<1> QED
  BY <1>1, <1>2, <1>3, <1>6 DEF Evaluate

LEMMA FilteredFails ==
    ASSUME NEW items, NEW filter, NEW e, NEW i \in items, ~MatchesItem(e, i)
    PROVE  ~Evaluate(Filtered(items, filter), e)
<1>1. PICK r : r = Filtered(items, filter)
  OBVIOUS
<1>2. PICK m : m = [n \in DOMAIN r.selections |-> MatchesSelection(e, r.selections[n])]
  OBVIOUS
<1>3. /\ r.selections = [selection |-> items, filter |-> filter]
      /\ r.condition = [op |-> "and_not", base |-> Name("selection"), filter |-> Name("filter")]
  BY <1>1 DEF Filtered
<1>4. "selection" \in DOMAIN m /\ ~m["selection"]
  <2>1. "selection" \in DOMAIN r.selections /\ r.selections["selection"] = items
    BY <1>3
  <2>2. ~MatchesSelection(e, items)
    BY DEF MatchesSelection
  <2> QED
    BY <1>2, <2>1, <2>2
<1>5. Name("selection").of = "name" /\ Name("selection").names = {"selection"}
  BY DEF Name
<1>6. ~EvalAtom(m, Name("selection"))
  BY <1>4, <1>5 DEF EvalAtom
<1>7. r.condition.op = "and_not" /\ r.condition.base = Name("selection")
  BY <1>3
<1> QED
  BY <1>1, <1>2, <1>6, <1>7 DEF Evaluate

LEMMA MissedVerdict ==
    ASSUME NEW rule, NEW e, ~Evaluate(rule, e)
    PROVE  Verdict(rule, <<e>>) = "GAP"
<1>1. PICK events : events = <<e>>
  OBVIOUS
<1>2. events # << >> /\ \A i \in DOMAIN events : events[i] = e
  BY <1>1
<1>3. EvaluateMany(rule, events) = {}
  BY <1>2 DEF EvaluateMany
<1> QED
  BY <1>1, <1>2, <1>3 DEF Verdict

\* A path none of whose pieces is what the rule of T1070.004 asks for.
LEMMA T1070Missed ==
    ASSUME NEW h, NEW S, NEW listed \in Seq(S), NEW f,
           f = ShownBy(listed, File(SimMarkerDir(h), "to_delete_", 0, ".tmp")),
           f.dir \in {"lab", "sim_artifacts"}, f.ext \in {".tmp", ".b64"},
           f.stem \in {"to_delete_", "obf_"}, f.dir = "lab" \/ f.stem = "obf_"
    PROVE  Verdict(T1070Rule, T1070Events(h, listed)) = "GAP"
<1>1. PICK demo : demo = File(SimMarkerDir(h), "to_delete_", 0, ".tmp")
  OBVIOUS
<1>2. PICK e : e = [TargetFilename |-> PathText(h, f), EventType |-> <<"deletion">>]
  OBVIOUS
<1>3. T1070Events(h, listed) = <<e>>
  <2>1. FirstFileEvent(h, listed, demo) = <<FileEvent(h, f)>>
    BY <1>1, FirstFileEventIs
  <2>2. FirstFileEvent(h, listed, demo)[1].TargetFilename = PathText(h, f)
    BY <2>1 DEF FileEvent
  <2> QED
    BY <1>1, <1>2, <2>2 DEF T1070Events
<1>4. PathText(h, f) = <<f.dir, f.stem, f.ext>>
  BY DEF PathText
<1>5. PICK path : path = <<f.dir, f.stem, f.ext>>
  OBVIOUS
<1>6. \A k \in DOMAIN path : path[k] \notin {"\\sim_artifacts\\to_delete_", "/sim_artifacts/to_delete_"}
  BY <1>5
<1>7. e["TargetFilename"] = path
  BY <1>2, <1>4, <1>5
<1>8. ~MatchesItem(e, Has("TargetFilename", {"\\sim_artifacts\\to_delete_", "/sim_artifacts/to_delete_"}))
  BY <1>6, <1>7, HasFails
<1>9. ~Evaluate(T1070Rule, e)
  BY <1>8, PlainFails DEF T1070Rule
<1> QED
  BY <1>3, <1>9, MissedVerdict

\* A tool that lies elsewhere, by the lab or by the platform, and a script on Windows.
LEMMA T1105Missed ==
    ASSUME NEW h, NEW f, f.stem = "apt_sim_", f.ext \in {".exe", ".sh"},
           f.dir \in {"lab", "temp"},
           \/ f.dir = "lab" \/ h.platform \notin {"windows", "linux"}
           \/ h.platform = "windows" /\ f.ext = ".sh"
    PROVE  Verdict(T1105Rule, T1105Events(h, <<f>>)) = "GAP"
<1>1. PICK listed : listed = <<f>>
  OBVIOUS
<1>2. listed # << >> /\ listed \in Seq({f}) /\ listed[1] = f
  BY <1>1
<1>3. PICK e : e = FileEvent(h, f)
  OBVIOUS
<1>4. T1105Events(h, listed) = <<e>>
  <2>1. T1105Events(h, listed) = FirstFileEvent(h, listed, << >>)
    BY <1>2 DEF T1105Events
  <2>2. FirstFileEvent(h, listed, << >>) = <<FileEvent(h, ShownBy(listed, << >>))>>
    BY <1>2, FirstFileEventIs
  <2> QED
    BY <1>2, <1>3, <2>1, <2>2 DEF ShownBy
<1>5. PICK path : path = PathText(h, f)
  OBVIOUS
<1>6. e["TargetFilename"] = path /\ path # << >> /\ path[Len(path)] = f.ext
  BY <1>3, <1>5, FileEventIs, PathParts
<1>7. CASE f.dir = "lab" \/ h.platform \notin {"windows", "linux"}
  <2>1. path = <<f.dir, f.stem, f.ext>>
    BY <1>5, <1>7 DEF PathText
  <2>2. \A k \in DOMAIN path : path[k] \notin {"\\Temp\\apt_sim_"} /\ path[k] \notin {"/tmp/apt_sim_"}
    BY <1>7, <2>1
  <2>3. /\ ~MatchesItem(e, Has("TargetFilename", {"\\Temp\\apt_sim_"}))
        /\ ~MatchesItem(e, Has("TargetFilename", {"/tmp/apt_sim_"}))
    BY <1>6, <2>2, HasFails
  <2>4. ~Evaluate(T1105Rule, e)
    BY <2>3, OneOfFails DEF T1105Rule
  <2> QED
    BY <1>1, <1>4, <2>4, MissedVerdict
<1>8. CASE f.dir = "temp" /\ h.platform = "windows" /\ f.ext = ".sh"
  <2>1. path = <<f.dir, "\\Temp\\apt_sim_", f.ext>>
    BY <1>5, <1>8 DEF PathText
  <2>2. \A k \in DOMAIN path : path[k] \notin {"/tmp/apt_sim_"}
    BY <1>8, <2>1
  <2>3. ~MatchesItem(e, Has("TargetFilename", {"/tmp/apt_sim_"}))
    BY <1>6, <2>2, HasFails
  <2>4. ~MatchesItem(e, Ends("TargetFilename", {".exe", ".dll", ".bat", ".ps1"}))
    BY <1>6, <1>8, EndsFails
  <2>5. ~Evaluate(T1105Rule, e)
    BY <2>3, <2>4, OneOfFails DEF T1105Rule
  <2> QED
    BY <1>1, <1>4, <2>5, MissedVerdict
<1> QED
  BY <1>7, <1>8

LEMMA T1021001Missed == Verdict(T1021001Rule, T1021001Events("other_port")) = "GAP"
<1>1. PICK e : e = Connection("3390", "\\cmd.exe")
  OBVIOUS
<1>2. e["DestinationPort"] = <<"3390">>
  BY <1>1 DEF Connection
<1>3. ~MatchesItem(e, Is("DestinationPort", {"3389"}))
  BY <1>2, IsFails
<1>4. ~Evaluate(T1021001Rule, e)
  BY <1>3, FilteredFails DEF T1021001Rule
<1>5. T1021001Events("other_port") = <<e>>
  BY <1>1 DEF T1021001Events
<1> QED
  BY <1>4, <1>5, MissedVerdict

LEMMA CatalogMissed == Verdict(CatalogRule, CatalogEvents("other_source")) = "GAP"
<1>1. PICK params : params = Merged(CatalogDefaults, CatalogGiven("other_source"))
  OBVIOUS
<1>2. "telemetry_source" \in DOMAIN params /\ params["telemetry_source"] = "osquery"
  <2>1. PICK given : given = CatalogGiven("other_source")
    OBVIOUS
  <2>2. "telemetry_source" \in DOMAIN given /\ given["telemetry_source"] = "osquery"
    BY <2>1 DEF CatalogGiven
  <2> QED
    BY <1>1, <2>1, <2>2 DEF Merged
<1>3. PICK e : e = [f \in DOMAIN CatalogTemplate |-> Rendered(CatalogTemplate[f], params)]
  OBVIOUS
<1>4. PICK field : field = [slot |-> "telemetry_source", text |-> "unfilled"]
  OBVIOUS
<1>5. "apt_sim_telemetry_source" \in DOMAIN CatalogTemplate /\ CatalogTemplate["apt_sim_telemetry_source"] = field
  BY <1>4 DEF CatalogTemplate
<1>6. Rendered(field, params) = <<"osquery">>
  BY <1>2, <1>4 DEF Rendered
<1>7. e["apt_sim_telemetry_source"] = <<"osquery">>
  BY <1>3, <1>5, <1>6
<1>8. ~MatchesItem(e, Is("apt_sim_telemetry_source", {"sysmon"}))
  BY <1>7, IsFails
<1>9. ~Evaluate(CatalogRule, e)
  BY <1>8, PlainFails DEF CatalogRule
<1>10. CatalogEvents("other_source") = <<e>>
  BY <1>1, <1>3 DEF CatalogEvents
<1> QED
  BY <1>9, <1>10, MissedVerdict

\* Each exception of RunIsDetected stands for runs that their own rules miss, on
\* every host: T1070.004 with a marker directory of the lab's own (with its artifact
\* or without) or with the path of a marker of T1027, T1105 when it stages its tool
\* where the rule does not look or as a script on Windows, a connection to another
\* port, and a catalog entry of another telemetry source.
THEOREM ExceptionsAreMissed ==
    ASSUME NEW P, NEW h \in [platform : P, lab : BOOLEAN], NEW n
    PROVE  /\ h.lab =>
                \A listed \in {<< >>, <<File(SimMarkerDir(h), "to_delete_", n, ".tmp")>>} :
                    Verdict(T1070Rule, T1070Events(h, listed)) = "GAP"
           /\ Verdict(T1070Rule, T1070Events(h, <<File(SimMarkerDir(h), "obf_", n, ".b64")>>)) = "GAP"
           /\ \A ext \in Options("T1105") :
                (h.lab \/ h.platform \notin {"windows", "linux"} \/ (h.platform = "windows" /\ ext = ".sh")) =>
                    Verdict(T1105Rule, T1105Events(h, <<File(StagingDir(h), "apt_sim_", n, ext)>>)) = "GAP"
           /\ Verdict(T1021001Rule, T1021001Events("other_port")) = "GAP"
           /\ Verdict(CatalogRule, CatalogEvents("other_source")) = "GAP"
<1>1. ASSUME h.lab, NEW listed \in {<< >>, <<File(SimMarkerDir(h), "to_delete_", n, ".tmp")>>}
      PROVE  Verdict(T1070Rule, T1070Events(h, listed)) = "GAP"
  <2>1. PICK g : g = File(SimMarkerDir(h), "to_delete_", n, ".tmp")
    OBVIOUS
  <2>2. PICK f : f = ShownBy(listed, File(SimMarkerDir(h), "to_delete_", 0, ".tmp"))
    OBVIOUS
  <2>3. listed = << >> \/ listed = <<g>>
    BY <1>1, <2>1
  <2>4. listed \in Seq({g})
    <3>1. << >> \in Seq({g}) /\ <<g>> \in Seq({g})
      OBVIOUS
    <3> QED
      BY <2>3, <3>1
  <2>5. f.dir = "lab" /\ f.stem = "to_delete_" /\ f.ext = ".tmp"
    BY <1>1, <2>1, <2>2, <2>3 DEF ShownBy, File, SimMarkerDir
  <2> QED
    BY <2>2, <2>4, <2>5, T1070Missed
<1>2. Verdict(T1070Rule, T1070Events(h, <<File(SimMarkerDir(h), "obf_", n, ".b64")>>)) = "GAP"
  <2>1. PICK f : f = File(SimMarkerDir(h), "obf_", n, ".b64")
    OBVIOUS
  <2>2. PICK listed : listed = <<f>>
    OBVIOUS
  <2>3. listed \in Seq({f}) /\ f = ShownBy(listed, File(SimMarkerDir(h), "to_delete_", 0, ".tmp"))
    BY <2>2 DEF ShownBy
  <2>4. f.dir \in {"lab", "sim_artifacts"} /\ f.stem = "obf_" /\ f.ext = ".b64"
    BY <2>1 DEF File, SimMarkerDir
  <2>5. Verdict(T1070Rule, T1070Events(h, listed)) = "GAP"
    BY <2>3, <2>4, T1070Missed
  <2> QED
    BY <2>1, <2>2, <2>5
<1>3. ASSUME NEW ext \in Options("T1105"),
             \/ h.lab \/ h.platform \notin {"windows", "linux"}
             \/ h.platform = "windows" /\ ext = ".sh"
      PROVE  Verdict(T1105Rule, T1105Events(h, <<File(StagingDir(h), "apt_sim_", n, ext)>>)) = "GAP"
  <2>1. PICK f : f = File(StagingDir(h), "apt_sim_", n, ext)
    OBVIOUS
  <2>2. ext \in {".exe", ".sh"}
    BY DEF Options
  <2>3. f.stem = "apt_sim_" /\ f.ext = ext /\ f.dir = IF h.lab THEN "lab" ELSE "temp"
    BY <2>1 DEF File, StagingDir
  <2>4. /\ f.ext \in {".exe", ".sh"} /\ f.dir \in {"lab", "temp"}
        /\ \/ f.dir = "lab" \/ h.platform \notin {"windows", "linux"}
           \/ h.platform = "windows" /\ f.ext = ".sh"
    BY <1>3, <2>2, <2>3
  <2> QED
    BY <2>1, <2>3, <2>4, T1105Missed
<1> QED
  BY <1>1, <1>2, <1>3, T1021001Missed, CatalogMissed
=============================================================================
