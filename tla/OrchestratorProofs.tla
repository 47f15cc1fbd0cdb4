------------------------- MODULE OrchestratorProofs -------------------------
(***************************************************************************)
(* Theorems about Orchestrator, for every set of agents and operators and   *)
(* every plan and bound.  A step of the request handlers is a step of the   *)
(* planner or leaves it alone, so what PlannerProofs shows of the planner   *)
(* holds here; the rest relates the planner, the store and the calls that   *)
(* the handlers have still to make.                                         *)
(***************************************************************************)
EXTENDS Orchestrator, PlannerProofs, FiniteSetTheorems

-----------------------------------------------------------------------------
(* The inductive invariant. *)

Ops == {"next", "abort", "stop", "step", "sync", "status", "run", "start", "create", "retry", "list",
        "abortedRun", "abortedStep"}

CallRecord == [op : Ops, run : Nat, step : Nat,
               val : Scenarios \cup StepStatus \cup RunStatus \cup {""}]

\* A call to come is about a run and a step that exist; one that will store a
\* success stores what the planner has, or what abort_all has overtaken.
GoodCall(call) ==
    /\ call.op \in {"step", "sync", "status", "run", "create", "retry", "abortedRun", "abortedStep"} =>
           call.run \in DOMAIN runs
    /\ call.op \in {"step", "abortedStep"} => call.step \in Steps(runs[call.run])
    /\ call.op = "step" => call.val \in StepStatus
    /\ call.op = "step" /\ call.val = "success" =>
           \/ runs[call.run].step[call.step] = "success"
           \/ <<call.run, call.step>> \in cutShort
    /\ call.op = "run" => call.val \in RunStatus
    /\ call.op = "start" => call.val \in Scenarios
    /\ call.op = "create" => call.val = runs[call.run].scenario

\* The calls of a beacon that ask the planner for a task and that record it.
Hands(call) == call.op = "next" \/ (call.op = "step" /\ call.val = "dispatched")

\* They are the first their agent has to make, and only agents make them.
CallsInv ==
    /\ todo \in [Clients -> Seq(CallRecord)]
    /\ \A c \in Clients : \A i \in DOMAIN todo[c] :
          /\ GoodCall(todo[c][i])
          /\ Hands(todo[c][i]) => i = 1 /\ c \in Agents

\* The rows of the store, and the successes in them.
RowsInv ==
    /\ DOMAIN db = RunIds
    /\ \A r \in RunIds : db[r] # NoRow => r \in DOMAIN runs /\ db[r] \in RowOf(runs[r].scenario)
    /\ StoredSuccessIsTrue

\* Agents that got a task since the killswitch was engaged ask for no other.
StopInv ==
    /\ active \in BOOLEAN
    /\ since \in [Agents -> Nat]
    /\ active => \A a \in Agents :
          /\ since[a] <= 1
          /\ since[a] = 1 => \A i \in DOMAIN todo[a] : todo[a][i].op # "next"

\* The agents whose dispatch of step s of run r is yet to be recorded.
Recording(r, s) ==
    {a \in Agents : todo[a] # << >> /\ Head(todo[a]) = Call("step", r, s, "dispatched")}

Attempts(r, s) == IF db[r] = NoRow THEN 0 ELSE db[r].attempt[s]

\* A step that is queued was dispatched once per retry at most, any other once
\* more; a dispatch is recorded or on its way to be.
AttemptInv ==
    \A r \in DOMAIN runs : \A s \in Steps(runs[r]) :
        /\ IsFiniteSet(Recording(r, s))
        /\ Attempts(r, s) + Cardinality(Recording(r, s)) <=
              retries + (IF runs[r].step[s] = "queued" THEN 0 ELSE 1)

OrchIInv ==
    /\ IInv /\ TaskInv
    /\ DOMAIN runs \subseteq RunIds
    /\ engaged \in 0 .. MaxEngage /\ gone \subseteq Agents
    /\ CallsInv /\ RowsInv /\ StopInv /\ AttemptInv

-----------------------------------------------------------------------------
(* What a step of the planner does to a step of a run. *)

StepRule(r, s) ==
    /\ runs[r].step[s] = "success" => runs'[r].step[s] = "success" \/ <<r, s>> \in cutShort
    /\ runs'[r].step[s] = "queued" => runs[r].step[s] = "queued" \/ retries' = retries + 1

RunsRule ==
    /\ \A r \in DOMAIN runs :
          /\ r \in DOMAIN runs' /\ runs'[r].scenario = runs[r].scenario
          /\ \A s \in Steps(runs[r]) : StepRule(r, s)
    /\ DOMAIN runs' \subseteq RunIds
    /\ cutShort \subseteq cutShort'
    /\ retries' \in {retries, retries + 1}

\* A run whose steps stay as they are obeys it.
LEMMA SameSteps ==
    ASSUME NEW r \in DOMAIN runs, runs'[r].step = runs[r].step
    PROVE  \A s \in Steps(runs[r]) : StepRule(r, s)
BY DEF StepRule

LEMMA StartRunRule ==
    ASSUME IInv, DOMAIN runs \subseteq RunIds, NEW sc \in Scenarios, StartRun(sc)
    PROVE  RunsRule
<1>1. runs \in Seq(Run) /\ Len(runs) \in Nat /\ DOMAIN runs = 1 .. Len(runs)
  BY RunsElement DEF IInv, TypeOK
<1>2. NewRun(sc) \in Run
  BY NewRunInv
<1>3. /\ runs' \in Seq(Run) /\ Len(runs') = Len(runs) + 1
      /\ \A r \in 1 .. Len(runs) : runs'[r] = runs[r]
      /\ Len(runs) < MaxRuns /\ cutShort' = cutShort /\ retries' = retries
  BY <1>1, <1>2, AppendProperties DEF StartRun
<1>4. DOMAIN runs' = 1 .. Len(runs) + 1
  BY <1>3, LenProperties
<1>5. DOMAIN runs' \subseteq RunIds
  BY <1>1, <1>3, <1>4, BoundsAssumption DEF RunIds
<1> QED
  BY <1>1, <1>3, <1>4, <1>5, SameSteps DEF RunsRule

LEMMA PauseRunsRule ==
    ASSUME IInv, DOMAIN runs \subseteq RunIds, NEW ids \in SUBSET DOMAIN runs,
           PauseRuns(ids) \/ ResumeRuns(ids)
    PROVE  RunsRule
<1>1. DOMAIN runs' = DOMAIN runs /\ cutShort' = cutShort /\ retries' = retries
  BY DEF PauseRuns, ResumeRuns
<1>2. ASSUME NEW r \in DOMAIN runs
      PROVE  runs'[r].step = runs[r].step /\ runs'[r].scenario = runs[r].scenario
  <2>1. runs[r] \in Run
    BY RunsElement DEF IInv, TypeOK
  <2>2. \/ runs'[r] = runs[r]
        \/ \E status \in {"running", "paused"} : runs'[r] = [runs[r] EXCEPT !.status = status]
    BY DEF PauseRuns, ResumeRuns
  <2>3. CASE runs'[r] = runs[r]
    BY <2>3
  <2>4. ASSUME NEW status \in {"running", "paused"}, runs'[r] = [runs[r] EXCEPT !.status = status]
        PROVE  runs'[r].step = runs[r].step /\ runs'[r].scenario = runs[r].scenario
    BY <2>1, <2>4, PausedChanges
  <2> QED
    BY <2>2, <2>3, <2>4
<1> QED
  BY <1>1, <1>2, SameSteps DEF RunsRule

\* A method that changes one run.
LEMMA OneRunRule ==
    ASSUME IInv, DOMAIN runs \subseteq RunIds, NEW q \in DOMAIN runs, NEW run,
           runs' = [runs EXCEPT ![q] = run], run.scenario = runs[q].scenario,
           cutShort' = cutShort, retries' \in {retries, retries + 1},
           \A s \in Steps(runs[q]) : StepRule(q, s)
    PROVE  RunsRule
<1>1. DOMAIN runs' = DOMAIN runs /\ runs'[q] = run /\ \A r \in DOMAIN runs \ {q} : runs'[r] = runs[r]
  OBVIOUS
<1>2. ASSUME NEW r \in DOMAIN runs
      PROVE  /\ runs'[r].scenario = runs[r].scenario
             /\ \A s \in Steps(runs[r]) : StepRule(r, s)
  <2>1. CASE r = q
    BY <1>1, <2>1
  <2>2. CASE r # q
    BY <1>1, <2>2, SameSteps
  <2> QED
    BY <2>1, <2>2
<1> QED
  BY <1>1, <1>2 DEF RunsRule

LEMMA RetryFailedStepsRule ==
    ASSUME IInv, DOMAIN runs \subseteq RunIds, NEW q \in DOMAIN runs, RetryFailedSteps(q)
    PROVE  RunsRule
<1>1. /\ runs' = [runs EXCEPT ![q] = Retried(runs[q])] /\ cutShort' = cutShort
      /\ retries' = retries + 1
  BY DEF RetryFailedSteps
<1>2. runs[q] \in Run /\ RunInv(runs[q]) /\ Retryable(runs[q]) # {}
  BY RunsElement DEF IInv, TypeOK, RetryFailedSteps
<1>3. Retried(runs[q]).scenario = runs[q].scenario
  BY <1>2, RetriedInv
<1>4. runs'[q] = Retried(runs[q])
  BY <1>1
<1>5. ASSUME NEW s \in Steps(runs[q]) PROVE StepRule(q, s)
  <2>1. s \in Retryable(runs[q]) => runs[q].step[s] # "success"
    BY DEF Retryable
  <2>2. s \notin Retryable(runs[q]) => runs'[q].step[s] = runs[q].step[s]
    BY <1>2, <1>4, RetriedChanges
  <2> QED
    BY <1>1, <2>1, <2>2 DEF StepRule
<1> QED
  BY <1>1, <1>3, <1>5, OneRunRule

LEMMA ReportResultRule ==
    ASSUME IInv, TaskInv, DOMAIN runs \subseteq RunIds, NEW a \in Agents, NEW ok \in BOOLEAN,
           ReportResult(a, ok)
    PROVE  /\ RunsRule
           /\ held[a][1] \in DOMAIN runs /\ held[a][2] \in Steps(runs[held[a][1]])
           /\ runs'[held[a][1]].step[held[a][2]] = IF ok THEN "success" ELSE "failed"
<1> DEFINE q == held[a][1]
           i == held[a][2]
<1>1. /\ held[a] # NoTask /\ runs' = [runs EXCEPT ![q] = Reported(runs[q], i, ok)]
      /\ cutShort' = cutShort /\ retries' = retries
  BY DEF ReportResult
<1>2. q \in DOMAIN runs /\ i \in Steps(runs[q]) /\ held[a] = <<q, i>>
  BY <1>1 DEF IInv, TypeOK, Task
<1>3. <<q, i>> \notin cutShort => runs[q].step[i] = "dispatched"
  <2>1. <<q, i>> \notin cutShort => held[a] \notin cutShort
    BY <1>2
  <2> QED
    BY <1>1, <2>1 DEF TaskInv, HeldIsDispatched
<1> HIDE DEF q, i
<1>4. runs[q] \in Run
  BY <1>2, RunsElement DEF IInv, TypeOK
<1>5. /\ runs'[q].step = AfterResult(runs[q], i, ok)
      /\ Reported(runs[q], i, ok).scenario = runs[q].scenario
  BY <1>1, <1>2, <1>4, ReportedChanges
<1>6. /\ runs'[q].step[i] = IF ok THEN "success" ELSE "failed"
      /\ \A s \in Steps(runs[q]) \ {i} :
            \/ runs'[q].step[s] = runs[q].step[s]
            \/ runs[q].step[s] = "queued" /\ runs'[q].step[s] = "skipped"
  BY <1>2, <1>4, <1>5, AfterResultSteps
<1>7. \A s \in Steps(runs[q]) : StepRule(q, s)
  BY <1>3, <1>6 DEF StepRule
<1>8. RunsRule
  BY <1>1, <1>2, <1>5, <1>7, OneRunRule
<1> QED
  BY <1>2, <1>6, <1>8 DEF q, i

\* The step an agent is given was queued and is so no longer.
LEMMA NextTaskRule ==
    ASSUME IInv, DOMAIN runs \subseteq RunIds, NEW a \in Agents, NextTaskForAgent(a)
    PROVE  /\ RunsRule
           /\ \E q \in DOMAIN runs : \E i \in Steps(runs[q]) :
                 /\ held'[a] = <<q, i>> /\ retries' = retries
                 /\ runs[q].step[i] = "queued" /\ runs'[q].step[i] = "dispatched"
<1>a. PICK q \in DOMAIN runs : \E i \in ReadyFor(a, q) :
        /\ runs' = [runs EXCEPT ![q] = Dispatched(@, i, a)]
        /\ held' = [held EXCEPT ![a] = <<q, i>>]
  BY DEF NextTaskForAgent
<1>1. PICK i \in ReadyFor(a, q) :
        /\ runs' = [runs EXCEPT ![q] = Dispatched(@, i, a)]
        /\ held' = [held EXCEPT ![a] = <<q, i>>]
  BY <1>a
<1>2. cutShort' = cutShort /\ retries' = retries
  BY DEF NextTaskForAgent
<1>3. runs[q] \in Run /\ i \in Steps(runs[q]) /\ runs[q].step[i] = "queued"
  BY RunsElement DEF IInv, TypeOK, ReadyFor, IsStepReady
<1>4. runs'[q] = Dispatched(runs[q], i, a) /\ runs' = [runs EXCEPT ![q] = Dispatched(runs[q], i, a)]
  BY <1>1
<1>5. /\ runs'[q].step[i] = "dispatched"
      /\ Dispatched(runs[q], i, a).scenario = runs[q].scenario
      /\ \A s \in Steps(runs[q]) \ {i} : runs'[q].step[s] = runs[q].step[s]
  BY <1>3, <1>4, DispatchedChanges
<1>6. \A s \in Steps(runs[q]) : StepRule(q, s)
  BY <1>3, <1>5 DEF StepRule
<1>7. RunsRule
  BY <1>2, <1>4, <1>5, <1>6, OneRunRule
<1>8. held'[a] = <<q, i>>
  BY <1>1 DEF IInv, TypeOK
<1> QED
  BY <1>2, <1>3, <1>5, <1>7, <1>8

LEMMA AbortAllRule ==
    ASSUME IInv, DOMAIN runs \subseteq RunIds, AbortAll
    PROVE  RunsRule
<1>1. /\ DOMAIN runs' = DOMAIN runs /\ cutShort \subseteq cutShort' /\ retries' = retries
      /\ \A r \in DOMAIN runs : runs'[r] = Aborted(runs[r])
  BY DEF AbortAll
<1>2. ASSUME NEW r \in DOMAIN runs
      PROVE  /\ runs'[r].scenario = runs[r].scenario
             /\ \A s \in Steps(runs[r]) : StepRule(r, s)
  <2>1. runs[r] \in Run /\ RunInv(runs[r])
    BY RunsElement DEF IInv, TypeOK
  <2>2. runs'[r].scenario = runs[r].scenario
    BY <1>1, <2>1, AbortedInv
  <2>3. CASE runs[r].status = "running"
    <3>1. \A s \in Steps(runs[r]) :
            runs'[r].step[s] = IF runs[r].step[s] \in Active THEN "aborted" ELSE runs[r].step[s]
      BY <1>1, <2>1, <2>3, AbortedChanges
    <3> QED
      BY <2>2, <3>1 DEF StepRule, Active
  <2>4. CASE runs[r].status # "running"
    BY <1>1, <2>4, SameSteps DEF Aborted
  <2> QED
    BY <2>3, <2>4
<1> QED
  BY <1>1, <1>2 DEF RunsRule

LEMMA PlannerRule ==
    ASSUME IInv, TaskInv, DOMAIN runs \subseteq RunIds, [Next]_vars
    PROVE  RunsRule
<1>1. CASE \E sc \in Scenarios : StartRun(sc)
  BY <1>1, StartRunRule
<1>2. CASE \E ids \in SUBSET DOMAIN runs : PauseRuns(ids) \/ ResumeRuns(ids)
  BY <1>2, PauseRunsRule
<1>3. CASE \E r \in DOMAIN runs : RetryFailedSteps(r)
  BY <1>3, RetryFailedStepsRule
<1>4. CASE \E a \in Agents : NextTaskForAgent(a)
  BY <1>4, NextTaskRule
<1>5. CASE \E a \in Agents, ok \in BOOLEAN : ReportResult(a, ok)
  BY <1>5, ReportResultRule
<1>6. CASE AbortAll
  BY <1>6, AbortAllRule
<1>7. CASE (\E a \in Agents : LoseResult(a)) \/ UNCHANGED vars
  BY <1>7, SameSteps DEF RunsRule, LoseResult, vars
<1> QED
  BY <1>1, <1>2, <1>3, <1>4, <1>5, <1>6, <1>7 DEF Next

-----------------------------------------------------------------------------
(* Requests. *)

\* The call a client makes, and those behind it.
LEMMA CallTypes ==
    ASSUME CallsInv, NEW c \in Clients, todo[c] # << >>
    PROVE  /\ Head(todo[c]) = todo[c][1] /\ 1 \in DOMAIN todo[c]
           /\ Head(todo[c]) \in CallRecord /\ GoodCall(Head(todo[c]))
           /\ Hands(Head(todo[c])) => c \in Agents
           /\ Tail(todo[c]) \in Seq(CallRecord)
           /\ \A i \in DOMAIN Tail(todo[c]) :
                 /\ i + 1 \in DOMAIN todo[c] \ {1}
                 /\ Tail(todo[c])[i] = todo[c][i + 1]
<1> DEFINE q == todo[c]
           n == Len(q)
<1>1. q \in Seq(CallRecord) /\ q # << >>
  BY DEF CallsInv
<1>2. n \in Nat /\ n # 0 /\ DOMAIN q = 1 .. n
  BY <1>1, LenProperties, EmptySeq
<1>3. /\ Head(q) \in CallRecord /\ Tail(q) \in Seq(CallRecord) /\ Len(Tail(q)) = n - 1
      /\ \A i \in 1 .. n - 1 : Tail(q)[i] = q[i + 1]
  BY <1>1, HeadTailProperties
<1>4. Head(q) = q[1]
  BY <1>1
<1>5. DOMAIN Tail(q) = 1 .. n - 1
  BY <1>2, <1>3, LenProperties
<1>6. 1 \in DOMAIN q
  BY <1>2
<1>7. GoodCall(q[1]) /\ (Hands(q[1]) => c \in Agents)
  BY <1>6 DEF CallsInv
<1> HIDE DEF n
<1>8. ASSUME NEW i \in DOMAIN Tail(q) PROVE i + 1 \in 1 .. n /\ i + 1 # 1 /\ Tail(q)[i] = q[i + 1]
  BY <1>2, <1>3, <1>5
<1> QED
  BY <1>2, <1>3, <1>4, <1>6, <1>7, <1>8

\* A request whose calls are what is left of it, or new ones that hand out no
\* task; the form of every step but two.
QuietTodo ==
    /\ todo' \in [Clients -> Seq(CallRecord)]
    /\ \A c \in Clients :
          \/ todo'[c] = todo[c]
          \/ \A i \in DOMAIN todo'[c] :
                \/ \E j \in DOMAIN todo[c] \ {1} : todo'[c][i] = todo[c][j]
                \/ \E call \in CallRecord :
                      todo'[c][i] = call /\ GoodCall(call)' /\ ~Hands(call)

LEMMA SameTodo ==
    ASSUME CallsInv, todo' = todo
    PROVE  QuietTodo
BY DEF CallsInv, QuietTodo

LEMMA ProceedTodo ==
    ASSUME CallsInv, NEW c \in Clients, todo[c] # << >>, NEW calls \in Seq(CallRecord),
           Proceed(c, calls)
    PROVE  /\ todo' \in [Clients -> Seq(CallRecord)]
           /\ \A d \in Clients \ {c} : todo'[d] = todo[d]
           /\ todo'[c] = calls \o Tail(todo[c])
           /\ \A i \in DOMAIN todo'[c] :
                 \/ \E j \in DOMAIN todo[c] \ {1} : todo'[c][i] = todo[c][j]
                 \/ i \in DOMAIN calls /\ todo'[c][i] = calls[i]
<1> DEFINE t == Tail(todo[c])
           q == todo'[c]
           n == Len(calls)
           m == Len(t)
<1>1. /\ t \in Seq(CallRecord)
      /\ \A i \in DOMAIN t : i + 1 \in DOMAIN todo[c] \ {1} /\ t[i] = todo[c][i + 1]
  BY CallTypes
<1>2. todo \in [Clients -> Seq(CallRecord)] /\ todo' = [todo EXCEPT ![c] = calls \o t]
  BY DEF CallsInv, Proceed
<1>3. calls \o t \in Seq(CallRecord)
  BY <1>1, ConcatProperties
<1>4. /\ todo' \in [Clients -> Seq(CallRecord)] /\ q = calls \o t
      /\ \A d \in Clients \ {c} : todo'[d] = todo[d]
  <2> HIDE DEF t
  <2> QED
    BY <1>2, <1>3
<1>5. /\ Len(calls \o t) = n + m
      /\ \A i \in 1 .. n + m : (calls \o t)[i] = IF i <= n THEN calls[i] ELSE t[i - n]
  BY <1>1, ConcatProperties
<1>6. n \in Nat /\ m \in Nat /\ DOMAIN calls = 1 .. n /\ DOMAIN t = 1 .. m
  BY <1>1, LenProperties
<1>7. DOMAIN q = 1 .. n + m /\ \A i \in 1 .. n + m : q[i] = IF i <= n THEN calls[i] ELSE t[i - n]
  BY <1>3, <1>4, <1>5, LenProperties
<1> HIDE DEF t, q, n, m
<1>8. ASSUME NEW i \in DOMAIN q
      PROVE  \/ \E j \in DOMAIN todo[c] \ {1} : q[i] = todo[c][j]
             \/ i \in DOMAIN calls /\ q[i] = calls[i]
  <2>1. CASE i <= n
    BY <1>6, <1>7, <2>1
  <2>2. CASE ~(i <= n)
    <3>1. i - n \in DOMAIN t /\ q[i] = t[i - n]
      BY <1>6, <1>7, <2>2
    <3> QED
      BY <1>1, <3>1
  <2> QED
    BY <2>1, <2>2
<1> QED
  BY <1>4, <1>8 DEF q, t

\* Calls that come before the rest of a request.
LEMMA QuietProceed ==
    ASSUME CallsInv, NEW c \in Clients, todo[c] # << >>, NEW calls \in Seq(CallRecord),
           Proceed(c, calls), \A i \in DOMAIN calls : GoodCall(calls[i])' /\ ~Hands(calls[i])
    PROVE  QuietTodo
<1>1. /\ todo' \in [Clients -> Seq(CallRecord)]
      /\ \A d \in Clients \ {c} : todo'[d] = todo[d]
      /\ \A i \in DOMAIN todo'[c] :
            \/ \E j \in DOMAIN todo[c] \ {1} : todo'[c][i] = todo[c][j]
            \/ i \in DOMAIN calls /\ todo'[c][i] = calls[i]
  BY ProceedTodo
<1>2. ASSUME NEW i \in DOMAIN todo'[c]
      PROVE  \/ \E j \in DOMAIN todo[c] \ {1} : todo'[c][i] = todo[c][j]
             \/ \E call \in CallRecord :
                   todo'[c][i] = call /\ GoodCall(call)' /\ ~Hands(call)
  <2>1. ASSUME i \in DOMAIN calls, todo'[c][i] = calls[i]
        PROVE  \E call \in CallRecord :
                   todo'[c][i] = call /\ GoodCall(call)' /\ ~Hands(call)
    <3>1. PICK call \in CallRecord : call = calls[i]
      BY <2>1, ElementOfSeq, LenProperties
    <3>2. GoodCall(call)' /\ ~Hands(call)
      BY <2>1, <3>1
    <3> QED
      BY <2>1, <3>1, <3>2
  <2> QED
    BY <1>1, <2>1
<1> QED
  BY <1>1, <1>2 DEF QuietTodo

\* The calls of a new request.
LEMMA QuietBegin ==
    ASSUME CallsInv, NEW c \in Clients, NEW calls \in Seq(CallRecord),
           Begin(c, calls), \A i \in DOMAIN calls : GoodCall(calls[i])' /\ ~Hands(calls[i])
    PROVE  QuietTodo
<1>1. /\ todo' \in [Clients -> Seq(CallRecord)]
      /\ todo'[c] = calls
      /\ \A d \in Clients \ {c} : todo'[d] = todo[d]
  BY DEF CallsInv, Begin
<1>2. ASSUME NEW i \in DOMAIN calls
      PROVE  \E call \in CallRecord : calls[i] = call /\ GoodCall(call)' /\ ~Hands(call)
  <2>1. PICK call \in CallRecord : call = calls[i]
    BY ElementOfSeq, LenProperties
  <2>2. GoodCall(call)' /\ ~Hands(call)
    BY <2>1
  <2> QED
    BY <2>1, <2>2
<1> QED
  BY <1>1, <1>2 DEF QuietTodo

\* A request that goes on without new calls.
LEMMA QuietDone ==
    ASSUME CallsInv, NEW c \in Clients, todo[c] # << >>, Proceed(c, << >>)
    PROVE  QuietTodo
<1>1. << >> \in Seq(CallRecord) /\ DOMAIN << >> = {}
  BY EmptySeq
<1> QED
  BY <1>1, QuietProceed

LEMMA OneCall ==
    ASSUME NEW call \in CallRecord
    PROVE  << call >> \in Seq(CallRecord) /\ DOMAIN << call >> = {1} /\ << call >>[1] = call
OBVIOUS

\* The calls of a loop over 1 .. n.
LEMMA LoopCalls ==
    ASSUME NEW n \in Nat, NEW calls \in [1 .. n -> CallRecord]
    PROVE  calls \in Seq(CallRecord)
BY SeqDef

LEMMA TwoCalls ==
    ASSUME NEW call \in CallRecord, NEW next \in CallRecord
    PROVE  /\ << call, next >> \in Seq(CallRecord) /\ DOMAIN << call, next >> = {1, 2}
           /\ << call, next >>[1] = call /\ << call, next >>[2] = next
OBVIOUS

-----------------------------------------------------------------------------
(* Rows. *)

\* What a write of the store that records no dispatch does.
QuietDb ==
    /\ DOMAIN db' = RunIds
    /\ \A r \in RunIds :
          \/ db'[r] = db[r]
          \/ /\ r \in DOMAIN runs /\ db'[r] \in RowOf(runs[r].scenario)
             /\ \A s \in Steps(runs[r]) :
                   /\ db'[r].step[s] = "success" =>
                         \/ db[r] # NoRow /\ db[r].step[s] = "success"
                         \/ runs[r].step[s] = "success"
                         \/ <<r, s>> \in cutShort
                   /\ db'[r].attempt[s] <= Attempts(r, s)

\* What a write of the store does to the successes in it.
SoundDb ==
    /\ DOMAIN db' = RunIds
    /\ \A r \in RunIds :
          \/ db'[r] = db[r]
          \/ /\ r \in DOMAIN runs /\ db'[r] \in RowOf(runs[r].scenario)
             /\ \A s \in Steps(runs[r]) :
                   db'[r].step[s] = "success" =>
                      \/ db[r] # NoRow /\ db[r].step[s] = "success"
                      \/ runs[r].step[s] = "success"
                      \/ <<r, s>> \in cutShort

\* What becomes of the killswitch.
StopRule ==
    \/ active' = active /\ since' = since
    \/ active' = TRUE /\ since' = [a \in Agents |-> 0]
    \/ active' = FALSE /\ since' = since

\* The parts of a row.
LEMMA RowParts ==
    ASSUME NEW sc, NEW row \in RowOf(sc)
    PROVE  /\ row.status \in RunStatus /\ row.finished \in BOOLEAN
           /\ row.step \in [StepsOf(Plan[sc]) -> StepStatus]
           /\ row.attempt \in [StepsOf(Plan[sc]) -> Nat]
           /\ row.cleanup \in [StepsOf(Plan[sc]) -> CleanupStatus]
BY DEF RowOf

LEMMA AttemptsNat ==
    ASSUME RowsInv, NEW r \in RunIds, r \in DOMAIN runs, NEW s \in Steps(runs[r])
    PROVE  Attempts(r, s) \in Nat
BY RowParts DEF RowsInv, Attempts, Steps

LEMMA CreatedRowOK ==
    ASSUME NEW sc
    PROVE  /\ CreatedRow(sc) \in RowOf(sc)
           /\ \A s \in StepsOf(Plan[sc]) :
                 CreatedRow(sc).step[s] # "success" /\ CreatedRow(sc).attempt[s] = 0
BY DEF CreatedRow, RowOf, RunStatus, StepStatus, CleanupStatus

LEMMA StepWrittenOK ==
    ASSUME NEW sc, NEW row \in RowOf(sc), NEW i \in StepsOf(Plan[sc]), NEW status \in StepStatus
    PROVE  /\ StepWritten(row, i, status) \in RowOf(sc)
           /\ StepWritten(row, i, status).step = [row.step EXCEPT ![i] = status]
           /\ StepWritten(row, i, status).attempt =
                 [row.attempt EXCEPT ![i] = IF status = "dispatched" THEN @ + 1 ELSE @]
<1> DEFINE step == [row.step EXCEPT ![i] = status]
           attempt == [row.attempt EXCEPT ![i] = IF status = "dispatched" THEN @ + 1 ELSE @]
           cleanup == [row.cleanup EXCEPT ![i] =
                         CASE status = "success" -> "not_required"
                           [] status \in {"failed", "aborted", "skipped"} -> "pending"
                           [] OTHER -> @]
<1>1. /\ row.status \in RunStatus /\ row.finished \in BOOLEAN
      /\ row.step \in [StepsOf(Plan[sc]) -> StepStatus]
      /\ row.attempt \in [StepsOf(Plan[sc]) -> Nat]
      /\ row.cleanup \in [StepsOf(Plan[sc]) -> CleanupStatus]
  BY RowParts
<1>2. step \in [StepsOf(Plan[sc]) -> StepStatus]
  BY <1>1
<1>3. attempt \in [StepsOf(Plan[sc]) -> Nat]
  BY <1>1
<1>4. cleanup \in [StepsOf(Plan[sc]) -> CleanupStatus]
  <2> DEFINE c == CASE status = "success" -> "not_required"
                    [] status \in {"failed", "aborted", "skipped"} -> "pending"
                    [] OTHER -> row.cleanup[i]
  <2>1. c \in CleanupStatus
    BY <1>1 DEF CleanupStatus
  <2>2. cleanup = [row.cleanup EXCEPT ![i] = c]
    OBVIOUS
  <2> HIDE DEF c, cleanup
  <2> QED
    BY <1>1, <2>1, <2>2
<1>5. StepWritten(row, i, status) =
        [row EXCEPT !.step = step, !.attempt = attempt, !.cleanup = cleanup]
  BY DEF StepWritten, RowOf
<1> HIDE DEF step, attempt, cleanup
<1>6. /\ StepWritten(row, i, status) \in RowOf(sc)
      /\ StepWritten(row, i, status).step = step
      /\ StepWritten(row, i, status).attempt = attempt
  BY <1>2, <1>3, <1>4, <1>5 DEF RowOf
<1> QED
  BY <1>6 DEF step, attempt

LEMMA RunWrittenOK ==
    ASSUME NEW sc, NEW row \in RowOf(sc), NEW status \in RunStatus
    PROVE  /\ RunWritten(row, status) \in RowOf(sc)
           /\ RunWritten(row, status).step = row.step
           /\ RunWritten(row, status).attempt = row.attempt
<1>1. CleanupClosed(row.cleanup) \in [StepsOf(Plan[sc]) -> CleanupStatus]
  BY RowParts DEF CleanupClosed, CleanupStatus
<1>2. RunWritten(row, status) =
        [row EXCEPT !.status = status, !.finished = TRUE, !.cleanup = CleanupClosed(row.cleanup)]
  BY DEF RunWritten, RowOf
<1> QED
  BY <1>1, <1>2 DEF RowOf

LEMMA RowRetriedOK ==
    ASSUME NEW sc, NEW row \in RowOf(sc)
    PROVE  /\ RowRetried(row) \in RowOf(sc)
           /\ \A s \in StepsOf(Plan[sc]) :
                 RowRetried(row).step[s] = "success" => row.step[s] = "success"
           /\ RowRetried(row).attempt = row.attempt
<1> DEFINE again == {s \in StepsOf(Plan[sc]) : row.step[s] \in {"failed", "skipped", "aborted"}}
           step == [s \in StepsOf(Plan[sc]) |-> IF s \in again THEN "queued" ELSE row.step[s]]
           cleanup == [s \in StepsOf(Plan[sc]) |-> IF s \in again THEN "pending" ELSE row.cleanup[s]]
<1>1. /\ step \in [StepsOf(Plan[sc]) -> StepStatus]
      /\ cleanup \in [StepsOf(Plan[sc]) -> CleanupStatus]
      /\ \A s \in StepsOf(Plan[sc]) : step[s] = "success" => row.step[s] = "success"
  BY RowParts DEF StepStatus, CleanupStatus
<1>2. DOMAIN row.step = StepsOf(Plan[sc]) /\ DOMAIN row.cleanup = StepsOf(Plan[sc])
  BY RowParts
<1>3. CASE again = {}
  BY <1>2, <1>3 DEF RowRetried
<1>4. CASE again # {}
  <2>1. RowRetried(row) = [row EXCEPT !.status = "running", !.finished = FALSE,
                                      !.step = step, !.cleanup = cleanup]
    BY <1>2, <1>4 DEF RowRetried, RowOf
  <2> HIDE DEF step, cleanup
  <2> QED
    BY <1>1, <2>1 DEF RowOf, RunStatus
<1> QED
  BY <1>3, <1>4

LEMMA RowCleanedOK ==
    ASSUME NEW sc, NEW row \in RowOf(sc)
    PROVE  /\ RowCleaned(row) \in RowOf(sc)
           /\ RowCleaned(row).step = row.step
           /\ RowCleaned(row).attempt = row.attempt
<1> DEFINE cleanup == [s \in StepsOf(Plan[sc]) |-> "complete"]
<1>1. cleanup \in [StepsOf(Plan[sc]) -> CleanupStatus]
  BY DEF CleanupStatus
<1>2. RowCleaned(row) = [row EXCEPT !.cleanup = cleanup]
  BY RowParts DEF RowCleaned, RowOf
<1> HIDE DEF cleanup
<1> QED
  BY <1>1, <1>2 DEF RowOf

-----------------------------------------------------------------------------
(* What keeps each part of the invariant. *)

\* A call that is good stays so: runs stay, and successes in the planner do,
\* until abort_all takes the step away.
LEMMA GoodCallStays ==
    ASSUME RunsRule, NEW call, GoodCall(call)
    PROVE  GoodCall(call)'
<1>1. /\ call.op \in {"step", "sync", "status", "run", "create", "retry", "abortedRun", "abortedStep"} =>
             /\ call.run \in DOMAIN runs
             /\ call.run \in DOMAIN runs' /\ runs'[call.run].scenario = runs[call.run].scenario
             /\ Steps(runs'[call.run]) = Steps(runs[call.run])
  BY DEF GoodCall, RunsRule, Steps
<1>2. call.op = "step" /\ call.val = "success" =>
          \/ runs'[call.run].step[call.step] = "success"
          \/ <<call.run, call.step>> \in cutShort'
  BY DEF GoodCall, RunsRule, StepRule
<1> QED
  BY <1>1, <1>2 DEF GoodCall

LEMMA QuietCalls ==
    ASSUME CallsInv, RunsRule, QuietTodo
    PROVE  CallsInv'
<1>1. todo' \in [Clients -> Seq(CallRecord)]
  BY DEF QuietTodo
<1>2. ASSUME NEW c \in Clients, NEW i \in DOMAIN todo'[c]
      PROVE  \E call : /\ todo'[c][i] = call /\ GoodCall(call)'
                       /\ Hands(call) => i = 1 /\ c \in Agents
  <2>1. CASE todo'[c] = todo[c]
    <3>1. /\ GoodCall(todo[c][i])
          /\ Hands(todo[c][i]) => i = 1 /\ c \in Agents
      BY <1>2, <2>1 DEF CallsInv
    <3>2. PICK call : call = todo[c][i]
      OBVIOUS
    <3>3. GoodCall(call)'
      BY <3>1, <3>2, GoodCallStays
    <3> QED
      BY <2>1, <3>1, <3>2, <3>3
  <2>2. ASSUME NEW j \in DOMAIN todo[c] \ {1}, todo'[c][i] = todo[c][j]
        PROVE  \E call : /\ todo'[c][i] = call /\ GoodCall(call)'
                         /\ Hands(call) => i = 1 /\ c \in Agents
    <3>1. GoodCall(todo[c][j]) /\ ~Hands(todo[c][j])
      BY <2>2 DEF CallsInv
    <3>2. PICK call : call = todo[c][j]
      OBVIOUS
    <3>3. GoodCall(call)'
      BY <3>1, <3>2, GoodCallStays
    <3> QED
      BY <2>2, <3>1, <3>2, <3>3
  <2> QED
    BY <1>2, <2>1, <2>2 DEF QuietTodo
<1>3. ASSUME NEW c \in Clients, NEW i \in DOMAIN todo'[c]
      PROVE  GoodCall(todo[c][i])' /\ (Hands(todo[c][i])' => i = 1 /\ c \in Agents)
  <2>1. PICK call : /\ todo'[c][i] = call /\ GoodCall(call)'
                    /\ Hands(call) => i = 1 /\ c \in Agents
    BY <1>2
  <2>2. GoodCall(todo[c][i])'
    BY <2>1 DEF GoodCall
  <2> QED
    BY <2>1, <2>2 DEF Hands
<1> QED
  BY <1>1, <1>3 DEF CallsInv

LEMMA SoundRows ==
    ASSUME RowsInv, RunsRule, SoundDb
    PROVE  RowsInv'
<1>1. ASSUME NEW r \in RunIds, db'[r] # NoRow
      PROVE  /\ r \in DOMAIN runs /\ r \in DOMAIN runs'
             /\ runs'[r].scenario = runs[r].scenario
             /\ db'[r] \in RowOf(runs[r].scenario)
  BY <1>1 DEF RowsInv, RunsRule, SoundDb
<1>2. ASSUME NEW r \in RunIds, db'[r] # NoRow, NEW s \in Steps(runs[r]),
             db'[r].step[s] = "success"
      PROVE  runs'[r].step[s] = "success" \/ <<r, s>> \in cutShort'
  <2>1. /\ r \in DOMAIN runs
        /\ \/ db[r] # NoRow /\ db[r].step[s] = "success"
           \/ runs[r].step[s] = "success"
           \/ <<r, s>> \in cutShort
    BY <1>1, <1>2 DEF SoundDb
  <2>2. runs[r].step[s] = "success" \/ <<r, s>> \in cutShort
    BY <1>2, <2>1 DEF RowsInv, StoredSuccessIsTrue
  <2> QED
    BY <1>2, <2>1, <2>2 DEF RunsRule, StepRule
<1>3. \A r \in RunIds : db'[r] # NoRow => Steps(runs'[r]) = Steps(runs[r])
  BY <1>1 DEF Steps
<1>4. StoredSuccessIsTrue'
  <2> SUFFICES ASSUME NEW r \in DOMAIN runs', db'[r] # NoRow, NEW s \in Steps(runs'[r]),
                      db'[r].step[s] = "success"
               PROVE  runs'[r].step[s] = "success" \/ <<r, s>> \in cutShort'
    BY DEF StoredSuccessIsTrue, Steps
  <2>1. r \in RunIds
    BY DEF RunsRule
  <2> QED
    BY <1>2, <1>3, <2>1
<1> QED
  BY <1>1, <1>4 DEF RowsInv, SoundDb

LEMMA QuietRows ==
    ASSUME RowsInv, RunsRule, QuietDb
    PROVE  RowsInv'
BY SoundRows DEF QuietDb, SoundDb

\* An agent's calls ask for a task only if they did before.
LEMMA QuietStop ==
    ASSUME CallsInv, StopInv, StopRule, QuietTodo
    PROVE  StopInv'
<1>1. ASSUME NEW a \in Agents, NEW i \in DOMAIN todo'[a], todo'[a][i].op = "next"
      PROVE  todo'[a] = todo[a]
  <2>1. a \in Clients /\ Hands(todo'[a][i])
    BY <1>1 DEF Clients, Hands
  <2>2. \A j \in DOMAIN todo[a] \ {1} : ~Hands(todo[a][j])
    BY <2>1 DEF CallsInv
  <2> QED
    BY <1>1, <2>1, <2>2 DEF QuietTodo
<1>2. CASE active' = active /\ since' = since
  BY <1>1, <1>2 DEF StopInv
<1>3. CASE active' = TRUE /\ since' = [a \in Agents |-> 0]
  <2>1. since' \in [Agents -> Nat] /\ \A a \in Agents : since'[a] = 0
    BY <1>3
  <2>2. \A a \in Agents : since'[a] <= 1 /\ since'[a] # 1
    BY <2>1
  <2> QED
    BY <1>3, <2>1, <2>2 DEF StopInv
<1>4. CASE active' = FALSE /\ since' = since
  BY <1>4 DEF StopInv
<1> QED
  BY <1>2, <1>3, <1>4 DEF StopRule

\* A dispatch that is to be recorded is of a run that exists.
LEMMA RecordingOfRun ==
    ASSUME CallsInv, NEW r, NEW s
    PROVE  Recording(r, s) # {} => r \in DOMAIN runs
<1> SUFFICES ASSUME NEW a \in Recording(r, s)
             PROVE  r \in DOMAIN runs
  OBVIOUS
<1>1. /\ a \in Clients /\ todo[a] # << >>
      /\ Head(todo[a]) = Call("step", r, s, "dispatched")
  BY DEF Recording, Clients
<1>2. GoodCall(Call("step", r, s, "dispatched"))
  BY <1>1, CallTypes
<1> QED
  BY <1>2 DEF GoodCall, Call

\* An agent that still has to record a dispatch had to before.
LEMMA QuietRecording ==
    ASSUME CallsInv, QuietTodo, NEW r, NEW s
    PROVE  Recording(r, s)' \subseteq Recording(r, s)
<1>1. ASSUME NEW a \in Recording(r, s)'
      PROVE  a \in Recording(r, s)
  <2>1. /\ a \in Agents /\ a \in Clients /\ todo'[a] # << >>
        /\ Head(todo'[a]) = Call("step", r, s, "dispatched")
    BY DEF Recording, Clients
  <2>2. Hands(Head(todo'[a]))
    BY <2>1 DEF Hands, Call
  <2>3. Head(todo'[a]) = todo'[a][1] /\ 1 \in DOMAIN todo'[a]
    <3>1. todo'[a] \in Seq(CallRecord)
      BY <2>1 DEF QuietTodo
    <3>2. Len(todo'[a]) \in Nat /\ Len(todo'[a]) # 0 /\ DOMAIN todo'[a] = 1 .. Len(todo'[a])
      BY <2>1, <3>1, LenProperties, EmptySeq
    <3>3. 1 \in DOMAIN todo'[a]
      BY <3>2
    <3> QED
      BY <3>3
  <2>4. \A j \in DOMAIN todo[a] \ {1} : ~Hands(todo[a][j])
    BY <2>1 DEF CallsInv
  <2>5. todo'[a] = todo[a]
    BY <2>1, <2>2, <2>3, <2>4 DEF QuietTodo
  <2> QED
    BY <2>1, <2>5 DEF Recording
<1> QED
  BY <1>1

\* A run that is new to the planner has no row yet and nothing to record.
LEMMA NewRunAttempts ==
    ASSUME RowsInv, RunsRule, retries \in Nat, NEW r \in DOMAIN runs' \ DOMAIN runs, NEW s,
           db'[r] = db[r], Recording(r, s)' = {}
    PROVE  /\ IsFiniteSet(Recording(r, s)')
           /\ Attempts(r, s)' + Cardinality(Recording(r, s)') <=
                 retries' + (IF runs'[r].step[s] = "queued" THEN 0 ELSE 1)
<1>1. r \in RunIds /\ db'[r] = NoRow
  BY DEF RowsInv, RunsRule
<1>2. Attempts(r, s)' = 0
  BY <1>1 DEF Attempts
<1>3. IsFiniteSet(Recording(r, s)') /\ Cardinality(Recording(r, s)') = 0
  BY FS_EmptySet
<1>4. retries' \in Nat
  BY DEF RunsRule
<1> QED
  BY <1>2, <1>3, <1>4

\* The bound on the attempts of one step, when nothing more is recorded.
LEMMA FewerAttempts ==
    ASSUME RowsInv, RunsRule, AttemptInv, retries \in Nat,
           NEW r \in DOMAIN runs, NEW s \in Steps(runs[r]), r \in RunIds,
           Attempts(r, s)' \in Nat, Attempts(r, s)' <= Attempts(r, s),
           Recording(r, s)' \subseteq Recording(r, s)
    PROVE  /\ IsFiniteSet(Recording(r, s)')
           /\ Attempts(r, s)' + Cardinality(Recording(r, s)') <=
                 retries' + (IF runs'[r].step[s] = "queued" THEN 0 ELSE 1)
<1> DEFINE m == Cardinality(Recording(r, s))
           n == Cardinality(Recording(r, s)')
           x == Attempts(r, s)
           y == Attempts(r, s)'
<1>1. IsFiniteSet(Recording(r, s)) /\ x + m <= retries + (IF runs[r].step[s] = "queued" THEN 0 ELSE 1)
  BY DEF AttemptInv
<1>2. IsFiniteSet(Recording(r, s)') /\ n <= m /\ n \in Nat /\ m \in Nat
  BY <1>1, FS_Subset, FS_CardinalityType
<1>3. x \in Nat /\ y \in Nat /\ y <= x
  BY AttemptsNat
<1>4. StepRule(r, s) /\ retries' \in {retries, retries + 1}
  BY DEF RunsRule
<1> HIDE DEF m, n, x, y
<1>5. y + n <= retries + (IF runs[r].step[s] = "queued" THEN 0 ELSE 1)
  BY <1>1, <1>2, <1>3
<1>6. y + n <= retries' + (IF runs'[r].step[s] = "queued" THEN 0 ELSE 1)
  BY <1>2, <1>3, <1>4, <1>5 DEF StepRule
<1> QED
  BY <1>2, <1>6 DEF n, y

\* The bound for a step of any run, new ones included.
LEMMA OtherAttempts ==
    ASSUME CallsInv, RowsInv, RunsRule, AttemptInv, DOMAIN runs \subseteq RunIds,
           retries \in Nat, RowsInv', NEW r \in DOMAIN runs', NEW s \in Steps(runs'[r]),
           r \in DOMAIN runs => Attempts(r, s)' <= Attempts(r, s),
           r \notin DOMAIN runs => db'[r] = db[r],
           Recording(r, s)' \subseteq Recording(r, s)
    PROVE  /\ IsFiniteSet(Recording(r, s)')
           /\ Attempts(r, s)' + Cardinality(Recording(r, s)') <=
                 retries' + (IF runs'[r].step[s] = "queued" THEN 0 ELSE 1)
<1>1. r \in RunIds
  BY DEF RunsRule
<1>2. CASE r \in DOMAIN runs
  <2>1. s \in Steps(runs[r])
    BY <1>2 DEF RunsRule, Steps
  <2>2. Attempts(r, s)' \in Nat
    <3>1. db'[r] # NoRow => db'[r] \in RowOf(runs'[r].scenario)
      BY <1>1 DEF RowsInv
    <3> QED
      BY <3>1, RowParts DEF Attempts, Steps
  <2> QED
    BY <1>1, <1>2, <2>1, <2>2, FewerAttempts
<1>3. CASE r \notin DOMAIN runs
  BY <1>3, RecordingOfRun, NewRunAttempts
<1> QED
  BY <1>2, <1>3

LEMMA QuietAttempts ==
    ASSUME CallsInv, RowsInv, RowsInv', RunsRule, AttemptInv, DOMAIN runs \subseteq RunIds,
           retries \in Nat, QuietDb,
           \A r, s : Recording(r, s)' \subseteq Recording(r, s)
    PROVE  AttemptInv'
<1> SUFFICES ASSUME NEW r \in DOMAIN runs', NEW s \in Steps(runs'[r])
             PROVE  /\ IsFiniteSet(Recording(r, s)')
                    /\ Attempts(r, s)' + Cardinality(Recording(r, s)') <=
                          retries' + (IF runs'[r].step[s] = "queued" THEN 0 ELSE 1)
  BY DEF AttemptInv, Steps
<1>1. r \in RunIds
  BY DEF RunsRule
<1>2. ASSUME r \in DOMAIN runs
      PROVE  Attempts(r, s)' <= Attempts(r, s)
  <2>1. s \in Steps(runs[r])
    BY <1>2 DEF RunsRule, Steps
  <2>2. Attempts(r, s) \in Nat
    BY <1>1, <1>2, <2>1, AttemptsNat
  <2>3. Attempts(r, s)' \in Nat
    <3>1. db'[r] # NoRow => db'[r] \in RowOf(runs'[r].scenario)
      BY <1>1 DEF RowsInv
    <3> QED
      BY <3>1, RowParts DEF Attempts, Steps
  <2>4. CASE db'[r] = db[r]
    BY <2>2, <2>4 DEF Attempts
  <2>5. CASE db'[r].attempt[s] <= Attempts(r, s)
    BY <2>2, <2>5 DEF Attempts
  <2> QED
    BY <1>1, <2>1, <2>4, <2>5 DEF QuietDb
<1>3. r \notin DOMAIN runs => db'[r] = db[r]
  BY <1>1 DEF QuietDb
<1> QED
  BY <1>2, <1>3, OtherAttempts

-----------------------------------------------------------------------------
(* The steps of the handlers. *)

\* A step that hands out no task and records no dispatch.
LEMMA QuietStep ==
    ASSUME OrchIInv, [Next]_vars, QuietTodo, QuietDb, StopRule,
           engaged' \in 0 .. MaxEngage, gone' \subseteq Agents
    PROVE  OrchIInv'
<1>1. IInv' /\ TaskInv'
  BY NextIInv, StutterIInv, NextTasks DEF OrchIInv
<1>2. RunsRule
  BY PlannerRule DEF OrchIInv
<1>3. CallsInv' /\ RowsInv' /\ StopInv'
  BY <1>2, QuietCalls, QuietRows, QuietStop DEF OrchIInv
<1>4. AttemptInv'
  <2>1. retries \in Nat
    BY BoundsAssumption DEF OrchIInv, IInv, TypeOK
  <2>2. \A r, s : Recording(r, s)' \subseteq Recording(r, s)
    BY QuietRecording DEF OrchIInv
  <2> QED
    BY <1>2, <1>3, <2>1, <2>2, QuietAttempts DEF OrchIInv
<1>5. DOMAIN runs' \subseteq RunIds
  BY <1>2 DEF RunsRule
<1> QED
  BY <1>1, <1>3, <1>4, <1>5 DEF OrchIInv

LEMMA SameDb ==
    ASSUME RowsInv, db' = db
    PROVE  QuietDb
BY DEF RowsInv, QuietDb

\* A step that leaves everything but the requests alone.
LEMMA OnlyTodo ==
    ASSUME OrchIInv, QuietTodo, UNCHANGED <<vars, active, engaged, db, gone, since>>
    PROVE  OrchIInv' /\ [Next]_vars
<1>1. /\ vars' = vars /\ active' = active /\ engaged' = engaged /\ db' = db
      /\ gone' = gone /\ since' = since
  OBVIOUS
<1>2. QuietDb /\ StopRule
  BY <1>1, SameDb DEF OrchIInv, StopRule
<1> QED
  BY <1>1, <1>2, QuietStep DEF OrchIInv

LEMMA BeaconIdleStep ==
    ASSUME OrchIInv, NEW a \in Agents, BeaconIdle(a)
    PROVE  OrchIInv' /\ [Next]_vars
<1>1. a \in Clients /\ todo[a] # << >> /\ Proceed(a, << >>)
  BY DEF BeaconIdle, At, Clients
<1>2. QuietTodo
  BY <1>1, QuietDone DEF OrchIInv
<1> QED
  BY <1>2, OnlyTodo DEF BeaconIdle

LEMMA BeaconStopStep ==
    ASSUME OrchIInv, NEW a \in Agents, BeaconStop(a)
    PROVE  OrchIInv' /\ [Next]_vars
<1>1. /\ a \in Clients /\ todo[a] # << >> /\ Proceed(a, << >>)
      /\ vars' = vars /\ active' = active /\ engaged' = engaged /\ db' = db /\ since' = since
      /\ gone' = gone \cup {a}
  BY DEF BeaconStop, At, Clients
<1>2. QuietTodo /\ QuietDb /\ StopRule
  BY <1>1, QuietDone, SameDb DEF OrchIInv, StopRule
<1> QED
  BY <1>1, <1>2, QuietStep DEF OrchIInv

LEMMA ResultStep ==
    ASSUME OrchIInv, NEW a \in Agents, NEW ok \in BOOLEAN, Result(a, ok)
    PROVE  OrchIInv' /\ [Next]_vars
<1> DEFINE r == held[a][1]
           s == held[a][2]
           status == IF ok THEN "success" ELSE "failed"
<1>1. /\ a \in Clients /\ ReportResult(a, ok)
      /\ Begin(a, << Call("step", r, s, status), Call("sync", r, 0, "") >>)
      /\ active' = active /\ engaged' = engaged /\ db' = db /\ since' = since /\ gone' = gone
  BY DEF Result, Clients
<1>2. /\ RunsRule /\ r \in DOMAIN runs /\ s \in Steps(runs[r])
      /\ runs'[r].step[s] = status
  BY <1>1, ReportResultRule DEF OrchIInv
<1>3. /\ r \in DOMAIN runs' /\ s \in Steps(runs'[r]) /\ r \in Nat /\ s \in Nat
  <2>1. runs[r].scenario \in Scenarios
    BY <1>2, RunsElement, RunParts DEF OrchIInv, IInv, TypeOK
  <2> QED
    BY <1>2, <2>1, PlanAssumption DEF RunsRule, Steps, StepsOf, OrchIInv, RunIds
<1>4. status \in StepStatus /\ status # "dispatched"
  BY DEF StepStatus
<1>5. PICK call : call = Call("step", r, s, status)
  OBVIOUS
<1>6. PICK next : next = Call("sync", r, 0, "")
  OBVIOUS
<1> HIDE DEF r, s, status
<1>7. call \in CallRecord /\ next \in CallRecord
  BY <1>3, <1>4, <1>5, <1>6 DEF CallRecord, Call, Ops
<1>8. GoodCall(call)' /\ ~Hands(call) /\ GoodCall(next)' /\ ~Hands(next)
  BY <1>2, <1>3, <1>4, <1>5, <1>6 DEF GoodCall, Hands, Call
<1>9. Begin(a, << call, next >>)
  BY <1>1, <1>5, <1>6 DEF r, s, status
<1>10. QuietTodo
  <2>1. PICK calls \in Seq(CallRecord) :
          /\ calls = << call, next >> /\ DOMAIN calls = {1, 2}
          /\ calls[1] = call /\ calls[2] = next
    BY <1>7, TwoCalls
  <2>2. \A i \in DOMAIN calls : GoodCall(calls[i])' /\ ~Hands(calls[i])
    BY <1>8, <2>1
  <2>3. Begin(a, calls)
    BY <1>9, <2>1
  <2> QED
    BY <1>1, <2>2, <2>3, QuietBegin DEF OrchIInv
<1>11. [Next]_vars
  BY <1>1 DEF Next
<1> QED
  BY <1>1, <1>10, <1>11, QuietStep, SameDb DEF OrchIInv, StopRule

LEMMA ResultLostStep ==
    ASSUME OrchIInv, NEW a \in Agents, ResultLost(a)
    PROVE  OrchIInv' /\ [Next]_vars
<1>1. /\ [Next]_vars /\ todo' = todo
      /\ active' = active /\ engaged' = engaged /\ db' = db /\ since' = since /\ gone' = gone
  BY DEF ResultLost, Next
<1>2. QuietTodo /\ QuietDb /\ StopRule
  BY <1>1, SameTodo, SameDb DEF OrchIInv, StopRule
<1> QED
  BY <1>1, <1>2, QuietStep DEF OrchIInv

\* A request of one call.
LEMMA BeginOne ==
    ASSUME CallsInv, NEW c \in Clients, NEW call \in CallRecord, Begin(c, << call >>),
           GoodCall(call)', ~Hands(call)
    PROVE  QuietTodo
<1>1. PICK calls \in Seq(CallRecord) : calls = << call >> /\ DOMAIN calls = {1} /\ calls[1] = call
  BY OneCall
<1>2. \A i \in DOMAIN calls : GoodCall(calls[i])' /\ ~Hands(calls[i])
  BY <1>1
<1> QED
  BY <1>1, <1>2, QuietBegin

\* A request that goes on with one more call.
LEMMA ProceedOne ==
    ASSUME CallsInv, NEW c \in Clients, todo[c] # << >>, NEW call \in CallRecord,
           Proceed(c, << call >>), GoodCall(call)', ~Hands(call)
    PROVE  QuietTodo
<1>1. PICK calls \in Seq(CallRecord) : calls = << call >> /\ DOMAIN calls = {1} /\ calls[1] = call
  BY OneCall
<1>2. \A i \in DOMAIN calls : GoodCall(calls[i])' /\ ~Hands(calls[i])
  BY <1>1
<1> QED
  BY <1>1, <1>2, QuietProceed

LEMMA RunScenarioStep ==
    ASSUME OrchIInv, NEW o \in Operators, NEW sc \in Scenarios, RunScenario(o, sc)
    PROVE  OrchIInv' /\ [Next]_vars
<1> DEFINE call == Call("start", 0, 0, sc)
<1>1. o \in Clients /\ Begin(o, << call >>)
  BY DEF RunScenario, Clients
<1>2. call \in CallRecord /\ GoodCall(call)' /\ ~Hands(call)
  BY DEF CallRecord, Call, Ops, GoodCall, Hands
<1> HIDE DEF call
<1>3. QuietTodo
  BY <1>1, <1>2, BeginOne DEF OrchIInv
<1> QED
  BY <1>3, OnlyTodo DEF RunScenario

LEMMA StartForCampaignStep ==
    ASSUME OrchIInv, NEW o \in Operators, NEW sc \in Scenarios, StartForCampaign(o, sc)
    PROVE  OrchIInv' /\ [Next]_vars
<1> DEFINE call == Call("start", 0, 0, sc)
<1>1. o \in Clients /\ Begin(o, << call >>)
  BY DEF StartForCampaign, Clients
<1>2. call \in CallRecord /\ GoodCall(call)' /\ ~Hands(call)
  BY DEF CallRecord, Call, Ops, GoodCall, Hands
<1> HIDE DEF call
<1>3. QuietTodo
  BY <1>1, <1>2, BeginOne DEF OrchIInv
<1> QED
  BY <1>3, OnlyTodo DEF StartForCampaign

LEMMA StartCallStep ==
    ASSUME OrchIInv, NEW o \in Operators, StartCall(o)
    PROVE  OrchIInv' /\ [Next]_vars
<1> DEFINE sc == Head(todo[o]).val
<1>1. /\ o \in Clients /\ todo[o] # << >> /\ Head(todo[o]).op = "start"
      /\ StartRun(sc)
      /\ Proceed(o, << Call("create", Len(runs'), 0, sc) >>)
      /\ active' = active /\ engaged' = engaged /\ db' = db /\ since' = since /\ gone' = gone
  BY DEF StartCall, At, Clients
<1>2. sc \in Scenarios
  BY <1>1, CallTypes DEF OrchIInv, GoodCall
<1> HIDE DEF sc
<1>3. [Next]_vars
  BY <1>1, <1>2 DEF Next
<1>4. runs \in Seq(Run) /\ NewRun(sc) \in Run /\ NewRun(sc).scenario = sc
  BY <1>2, NewRunInv DEF OrchIInv, IInv, TypeOK, NewRun
<1>5. /\ runs' \in Seq(Run) /\ Len(runs) \in Nat /\ Len(runs') = Len(runs) + 1
      /\ runs'[Len(runs) + 1] = NewRun(sc)
  BY <1>1, <1>4, AppendProperties, LenProperties DEF StartRun
<1>6. Len(runs') \in Nat /\ Len(runs') \in DOMAIN runs' /\ runs'[Len(runs')].scenario = sc
  BY <1>4, <1>5, LenProperties
<1>7. PICK call : call = Call("create", Len(runs'), 0, sc)
  OBVIOUS
<1>8. call \in CallRecord /\ GoodCall(call)' /\ ~Hands(call)
  BY <1>2, <1>6, <1>7 DEF CallRecord, Call, Ops, GoodCall, Hands
<1>9. Proceed(o, << call >>)
  BY <1>1, <1>7
<1>10. QuietTodo
  BY <1>1, <1>8, <1>9, ProceedOne DEF OrchIInv
<1> QED
  BY <1>1, <1>3, <1>10, QuietStep, SameDb DEF OrchIInv, StopRule

LEMMA StartRefusedStep ==
    ASSUME OrchIInv, NEW o \in Operators, StartRefused(o)
    PROVE  OrchIInv' /\ [Next]_vars
<1>1. o \in Clients /\ todo[o] # << >> /\ Proceed(o, << >>)
  BY DEF StartRefused, At, Clients
<1>2. QuietTodo
  BY <1>1, QuietDone DEF OrchIInv
<1> QED
  BY <1>2, OnlyTodo DEF StartRefused

LEMMA PauseOrResumeStep ==
    ASSUME OrchIInv, NEW ids \in SUBSET DOMAIN runs, NEW o, PauseOrResume(o, ids)
    PROVE  OrchIInv' /\ [Next]_vars
<1>1. /\ [Next]_vars /\ todo' = todo
      /\ active' = active /\ engaged' = engaged /\ db' = db /\ since' = since /\ gone' = gone
  BY DEF PauseOrResume, Next
<1>2. QuietTodo /\ QuietDb /\ StopRule
  BY <1>1, SameTodo, SameDb DEF OrchIInv, StopRule
<1> QED
  BY <1>1, <1>2, QuietStep DEF OrchIInv

LEMMA RetryRunStep ==
    ASSUME OrchIInv, NEW o \in Operators, NEW r \in DOMAIN runs, RetryRun(o, r)
    PROVE  OrchIInv' /\ [Next]_vars
<1> DEFINE call == Call("retry", r, 0, "")
<1>1. /\ o \in Clients /\ [Next]_vars /\ Begin(o, << call >>)
      /\ active' = active /\ engaged' = engaged /\ db' = db /\ since' = since /\ gone' = gone
  BY DEF RetryRun, Next, Clients
<1>2. r \in DOMAIN runs' /\ r \in Nat
  <2>1. RunsRule /\ r \in RunIds
    BY <1>1, PlannerRule DEF OrchIInv
  <2> QED
    BY <2>1 DEF RunsRule, RunIds
<1>3. call \in CallRecord /\ GoodCall(call)' /\ ~Hands(call)
  BY <1>2 DEF CallRecord, Call, Ops, GoodCall, Hands
<1> HIDE DEF call
<1>4. QuietTodo
  BY <1>1, <1>3, BeginOne DEF OrchIInv
<1> QED
  BY <1>1, <1>4, QuietStep, SameDb DEF OrchIInv, StopRule

\* A row that is written where there is one.
LEMMA StoredDb ==
    ASSUME RowsInv, DOMAIN runs \subseteq RunIds, NEW r \in DOMAIN runs, NEW row, Stored(r, row),
           db[r] # NoRow =>
              /\ row \in RowOf(runs[r].scenario)
              /\ \A s \in Steps(runs[r]) :
                    /\ row.step[s] = "success" =>
                          \/ db[r].step[s] = "success"
                          \/ runs[r].step[s] = "success"
                          \/ <<r, s>> \in cutShort
                    /\ row.attempt[s] <= db[r].attempt[s]
    PROVE  QuietDb
<1>1. db' = [db EXCEPT ![r] = IF db[r] = NoRow THEN NoRow ELSE row]
  BY DEF Stored
<1>2. /\ DOMAIN db' = RunIds /\ r \in RunIds
      /\ \A q \in RunIds \ {r} : db'[q] = db[q]
      /\ db'[r] = IF db[r] = NoRow THEN db[r] ELSE row
  BY <1>1 DEF RowsInv
<1>3. \/ db'[r] = db[r]
      \/ /\ r \in DOMAIN runs /\ db'[r] \in RowOf(runs[r].scenario)
         /\ \A s \in Steps(runs[r]) :
               /\ db'[r].step[s] = "success" =>
                     \/ db[r] # NoRow /\ db[r].step[s] = "success"
                     \/ runs[r].step[s] = "success"
                     \/ <<r, s>> \in cutShort
               /\ db'[r].attempt[s] <= Attempts(r, s)
  BY <1>2 DEF Attempts
<1> QED
  BY <1>2, <1>3 DEF QuietDb

\* The row of a run that has one.
LEMMA StoredRow ==
    ASSUME RowsInv, DOMAIN runs \subseteq RunIds, NEW r \in DOMAIN runs, db[r] # NoRow
    PROVE  /\ db[r] \in RowOf(runs[r].scenario) /\ Steps(runs[r]) = StepsOf(Plan[runs[r].scenario])
           /\ db[r].step \in [Steps(runs[r]) -> StepStatus]
           /\ db[r].attempt \in [Steps(runs[r]) -> Nat]
BY RowParts DEF RowsInv, Steps

LEMMA CleanupRunStep ==
    ASSUME OrchIInv, NEW o, NEW r \in DOMAIN runs, CleanupRun(o, r)
    PROVE  OrchIInv' /\ [Next]_vars
<1>1. /\ Stored(r, RowCleaned(db[r])) /\ vars' = vars /\ todo' = todo
      /\ active' = active /\ engaged' = engaged /\ since' = since /\ gone' = gone
  BY DEF CleanupRun
<1>2. ASSUME db[r] # NoRow
      PROVE  /\ RowCleaned(db[r]) \in RowOf(runs[r].scenario)
             /\ RowCleaned(db[r]).step = db[r].step
             /\ \A s \in Steps(runs[r]) : RowCleaned(db[r]).attempt[s] <= db[r].attempt[s]
  <2>1. db[r] \in RowOf(runs[r].scenario) /\ db[r].attempt \in [Steps(runs[r]) -> Nat]
    BY <1>2, StoredRow DEF OrchIInv
  <2>2. /\ RowCleaned(db[r]) \in RowOf(runs[r].scenario)
        /\ RowCleaned(db[r]).step = db[r].step /\ RowCleaned(db[r]).attempt = db[r].attempt
    BY <2>1, RowCleanedOK
  <2>3. \A s \in Steps(runs[r]) : db[r].attempt[s] <= db[r].attempt[s]
    BY <2>1
  <2> QED
    BY <2>2, <2>3
<1>3. PICK row : row = RowCleaned(db[r])
  OBVIOUS
<1>4. QuietDb
  <2>1. Stored(r, row)
    BY <1>1, <1>3
  <2> QED
    BY <1>2, <1>3, <2>1, StoredDb DEF OrchIInv
<1>5. QuietTodo /\ StopRule
  BY <1>1, SameTodo DEF OrchIInv, StopRule
<1> QED
  BY <1>1, <1>4, <1>5, QuietStep DEF OrchIInv

LEMMA EngageStep ==
    ASSUME OrchIInv, Engage
    PROVE  OrchIInv' /\ [Next]_vars
<1>1. /\ Begin(Admin, << Call("abort", 0, 0, ""), Call("list", 0, 0, "") >>)
      /\ active' = TRUE /\ engaged' = engaged + 1 /\ engaged < MaxEngage
      /\ since' = [a \in Agents |-> 0] /\ vars' = vars /\ db' = db /\ gone' = gone
  BY DEF Engage
<1>2. PICK call \in CallRecord : call = Call("abort", 0, 0, "")
  BY DEF CallRecord, Call, Ops
<1>3. PICK next \in CallRecord : next = Call("list", 0, 0, "")
  BY DEF CallRecord, Call, Ops
<1>4. GoodCall(call)' /\ ~Hands(call) /\ GoodCall(next)' /\ ~Hands(next)
  BY <1>2, <1>3 DEF GoodCall, Hands, Call
<1>5. PICK calls \in Seq(CallRecord) :
        /\ calls = << call, next >> /\ DOMAIN calls = {1, 2}
        /\ calls[1] = call /\ calls[2] = next
  BY TwoCalls
<1>6. \A i \in DOMAIN calls : GoodCall(calls[i])' /\ ~Hands(calls[i])
  BY <1>4, <1>5
<1>7. Begin(Admin, calls) /\ Admin \in Clients
  BY <1>1, <1>2, <1>3, <1>5 DEF Clients
<1>8. QuietTodo
  BY <1>6, <1>7, QuietBegin DEF OrchIInv
<1>9. engaged' \in 0 .. MaxEngage
  <2>1. engaged \in 0 .. MaxEngage
    BY DEF OrchIInv
  <2>2. engaged' = engaged + 1 /\ engaged < MaxEngage
    BY <1>1
  <2> QED
    BY <2>1, <2>2, EngageAssumption
<1>10. QuietDb /\ StopRule
  BY <1>1, SameDb DEF OrchIInv, StopRule
<1> QED
  BY <1>1, <1>8, <1>9, <1>10, QuietStep DEF OrchIInv

LEMMA EngageByFlagStep ==
    ASSUME OrchIInv, EngageByFlag
    PROVE  OrchIInv' /\ [Next]_vars
<1>1. /\ active' = TRUE /\ engaged' = engaged + 1 /\ engaged < MaxEngage
      /\ since' = [a \in Agents |-> 0] /\ vars' = vars /\ db' = db /\ gone' = gone
      /\ todo' = todo
  BY DEF EngageByFlag
<1>2. engaged' \in 0 .. MaxEngage
  BY <1>1, EngageAssumption DEF OrchIInv
<1>3. QuietTodo /\ QuietDb /\ StopRule
  BY <1>1, SameTodo, SameDb DEF OrchIInv, StopRule
<1> QED
  BY <1>1, <1>2, <1>3, QuietStep DEF OrchIInv

LEMMA DisengageStep ==
    ASSUME OrchIInv, Disengage
    PROVE  OrchIInv' /\ [Next]_vars
<1>1. /\ active' = FALSE /\ since' = since /\ engaged' = engaged
      /\ vars' = vars /\ db' = db /\ gone' = gone /\ todo' = todo
  BY DEF Disengage
<1>2. QuietTodo /\ QuietDb /\ StopRule
  BY <1>1, SameTodo, SameDb DEF OrchIInv, StopRule
<1> QED
  BY <1>1, <1>2, QuietStep DEF OrchIInv

LEMMA AbortCallStep ==
    ASSUME OrchIInv, NEW c \in Clients, AbortCall(c)
    PROVE  OrchIInv' /\ [Next]_vars
<1>1. /\ todo[c] # << >> /\ Proceed(c, << >>) /\ [Next]_vars
      /\ active' = active /\ engaged' = engaged /\ db' = db /\ since' = since /\ gone' = gone
  BY DEF AbortCall, At, Next
<1>2. QuietTodo /\ QuietDb /\ StopRule
  BY <1>1, QuietDone, SameDb DEF OrchIInv, StopRule
<1> QED
  BY <1>1, <1>2, QuietStep DEF OrchIInv

\* Calls that are good now are good after a step that leaves the planner alone.
LEMMA GoodCallKept ==
    ASSUME vars' = vars, NEW call, GoodCall(call)
    PROVE  GoodCall(call)'
BY DEF GoodCall, vars

LEMMA ListCallStep ==
    ASSUME OrchIInv, ListCall
    PROVE  OrchIInv' /\ [Next]_vars
<1>1. /\ Admin \in Clients /\ todo[Admin] # << >> /\ vars' = vars
      /\ Proceed(Admin, [r \in DOMAIN runs |-> Call("abortedRun", r, 0, "")])
  BY DEF ListCall, At, Clients
<1>2. Len(runs) \in Nat /\ DOMAIN runs = 1 .. Len(runs)
  BY RunsElement DEF OrchIInv, IInv, TypeOK
<1>3. \A r \in DOMAIN runs : /\ Call("abortedRun", r, 0, "") \in CallRecord
                             /\ GoodCall(Call("abortedRun", r, 0, ""))
                             /\ ~Hands(Call("abortedRun", r, 0, ""))
  BY <1>2 DEF CallRecord, Call, Ops, GoodCall, Hands
<1>4. [r \in DOMAIN runs |-> Call("abortedRun", r, 0, "")] \in Seq(CallRecord)
  <2> DEFINE f == [r \in DOMAIN runs |-> Call("abortedRun", r, 0, "")]
             n == Len(runs)
  <2>1. f \in [1 .. n -> CallRecord] /\ n \in Nat
    BY <1>2, <1>3
  <2> HIDE DEF f, n
  <2>2. f \in Seq(CallRecord)
    BY <2>1, LoopCalls
  <2> QED
    BY <2>2 DEF f
<1>5. PICK calls \in Seq(CallRecord) : calls = [r \in DOMAIN runs |-> Call("abortedRun", r, 0, "")]
  BY <1>4
<1>6. \A i \in DOMAIN calls : GoodCall(calls[i]) /\ ~Hands(calls[i])
  BY <1>3, <1>5
<1>7. \A i \in DOMAIN calls : GoodCall(calls[i])'
  BY <1>1, <1>6, GoodCallKept
<1>8. Proceed(Admin, calls)
  BY <1>1, <1>5
<1>9. QuietTodo
  BY <1>1, <1>6, <1>7, <1>8, QuietProceed DEF OrchIInv
<1> QED
  BY <1>9, OnlyTodo DEF ListCall

LEMMA AbortedStepCallStep ==
    ASSUME OrchIInv, AbortedStepCall
    PROVE  OrchIInv' /\ [Next]_vars
<1> DEFINE h == Head(todo[Admin])
<1>1. /\ Admin \in Clients /\ todo[Admin] # << >> /\ vars' = vars
      /\ h.op = "abortedStep"
      /\ \/ Proceed(Admin, << >>)
         \/ Proceed(Admin, << Call("step", h.run, h.step, "aborted") >>)
  BY DEF AbortedStepCall, At, Clients
<1>2. h \in CallRecord /\ GoodCall(h)
  BY <1>1, CallTypes DEF OrchIInv
<1> HIDE DEF h
<1>3. PICK call : call = Call("step", h.run, h.step, "aborted")
  OBVIOUS
<1>4. call \in CallRecord /\ GoodCall(call) /\ ~Hands(call)
  BY <1>1, <1>2, <1>3 DEF CallRecord, Call, Ops, GoodCall, Hands, StepStatus
<1>5. GoodCall(call)'
  BY <1>1, <1>4, GoodCallKept
<1>6. QuietTodo
  <2>1. CASE Proceed(Admin, << >>)
    BY <1>1, <2>1, QuietDone DEF OrchIInv
  <2>2. CASE Proceed(Admin, << Call("step", h.run, h.step, "aborted") >>)
    <3>1. Proceed(Admin, << call >>)
      BY <1>3, <2>2
    <3> QED
      BY <1>1, <1>4, <1>5, <3>1, ProceedOne DEF OrchIInv
  <2> QED
    BY <1>1, <2>1, <2>2
<1> QED
  BY <1>6, OnlyTodo DEF AbortedStepCall

LEMMA AbortedRunCallStep ==
    ASSUME OrchIInv, AbortedRunCall
    PROVE  OrchIInv' /\ [Next]_vars
<1> DEFINE r == Head(todo[Admin]).run
           rest == [s \in DOMAIN runs[r].step |-> Call("abortedStep", r, s, "")]
<1>1. /\ Admin \in Clients /\ todo[Admin] # << >> /\ vars' = vars
      /\ Head(todo[Admin]).op = "abortedRun"
      /\ \/ Proceed(Admin, << >>)
         \/ Proceed(Admin, << Call("run", r, 0, "aborted") >> \o rest)
  BY DEF AbortedRunCall, At, Clients
<1>2. r \in DOMAIN runs /\ r \in Nat
  <2>1. r \in DOMAIN runs
    BY <1>1, CallTypes DEF OrchIInv, GoodCall
  <2> QED
    BY <2>1 DEF OrchIInv, RunIds
<1> HIDE DEF r
<1>3. DOMAIN runs[r].step = Steps(runs[r]) /\ runs[r].scenario \in Scenarios
  BY <1>2, RunsElement, RunParts DEF OrchIInv, IInv, TypeOK
<1>4. PICK n \in Nat : Steps(runs[r]) = 1 .. n
  BY <1>3, PlanAssumption DEF Steps, StepsOf
<1>5. \A s \in Steps(runs[r]) : /\ Call("abortedStep", r, s, "") \in CallRecord
                                /\ GoodCall(Call("abortedStep", r, s, ""))
                                /\ ~Hands(Call("abortedStep", r, s, ""))
  BY <1>2, <1>4 DEF CallRecord, Call, Ops, GoodCall, Hands
<1>6. /\ rest \in Seq(CallRecord) /\ DOMAIN rest = 1 .. n
      /\ \A i \in DOMAIN rest : GoodCall(rest[i]) /\ ~Hands(rest[i])
  <2>1. rest = [s \in 1 .. n |-> Call("abortedStep", r, s, "")]
    BY <1>3, <1>4
  <2>2. \A s \in 1 .. n : Call("abortedStep", r, s, "") \in CallRecord
    BY <1>4, <1>5
  <2>3. rest \in [1 .. n -> CallRecord]
    BY <2>1, <2>2
  <2>4. rest \in Seq(CallRecord)
    <3> HIDE DEF rest
    <3> QED
      BY <2>3, LoopCalls
  <2> QED
    BY <1>4, <1>5, <2>1, <2>4
<1> HIDE DEF rest
<1>7. PICK call : call = Call("run", r, 0, "aborted")
  OBVIOUS
<1>8. call \in CallRecord /\ GoodCall(call) /\ ~Hands(call)
  BY <1>2, <1>7 DEF CallRecord, Call, Ops, GoodCall, Hands, RunStatus
<1>9. PICK calls \in Seq(CallRecord) :
        /\ calls = << call >> \o rest
        /\ \A i \in DOMAIN calls : GoodCall(calls[i]) /\ ~Hands(calls[i])
  <2>1. << call >> \in Seq(CallRecord) /\ << call >>[1] = call /\ Len(<< call >>) = 1
    BY <1>8
  <2> DEFINE whole == << call >> \o rest
             k == Len(rest)
  <2>2. /\ whole \in Seq(CallRecord) /\ Len(whole) = 1 + k
        /\ \A i \in 1 .. 1 + k : whole[i] = IF i <= 1 THEN << call >>[i] ELSE rest[i - 1]
    BY <1>6, <2>1, ConcatProperties
  <2>3. k \in Nat /\ DOMAIN rest = 1 .. k /\ DOMAIN whole = 1 .. 1 + k
    BY <1>6, <2>2, LenProperties
  <2> HIDE DEF whole, k
  <2>4. ASSUME NEW i \in DOMAIN whole PROVE GoodCall(whole[i]) /\ ~Hands(whole[i])
    <3>1. CASE i = 1
      BY <1>8, <2>1, <2>2, <2>3, <3>1
    <3>2. CASE i # 1
      <4>1. i - 1 \in DOMAIN rest /\ whole[i] = rest[i - 1]
        BY <2>2, <2>3, <3>2
      <4> QED
        BY <1>6, <4>1
    <3> QED
      BY <3>1, <3>2
  <2> QED
    BY <2>2, <2>4 DEF whole
<1>10. \A i \in DOMAIN calls : GoodCall(calls[i])'
  BY <1>1, <1>9, GoodCallKept
<1>11. QuietTodo
  <2>1. CASE Proceed(Admin, << >>)
    BY <1>1, <2>1, QuietDone DEF OrchIInv
  <2>2. CASE Proceed(Admin, << Call("run", r, 0, "aborted") >> \o rest)
    <3>1. Proceed(Admin, calls)
      BY <1>7, <1>9, <2>2
    <3> QED
      BY <1>1, <1>9, <1>10, <3>1, QuietProceed DEF OrchIInv
  <2> QED
    BY <1>1, <2>1, <2>2 DEF rest
<1> QED
  BY <1>11, OnlyTodo DEF AbortedRunCall

LEMMA CreateRowCallStep ==
    ASSUME OrchIInv, NEW c \in Clients, CreateRowCall(c)
    PROVE  OrchIInv' /\ [Next]_vars
<1> DEFINE r == Head(todo[c]).run
           sc == Head(todo[c]).val
<1>1. /\ todo[c] # << >> /\ Head(todo[c]).op = "create" /\ Proceed(c, << >>)
      /\ db' = [db EXCEPT ![r] = CreatedRow(sc)] /\ vars' = vars
      /\ active' = active /\ engaged' = engaged /\ since' = since /\ gone' = gone
  BY DEF CreateRowCall, At
<1>2. r \in DOMAIN runs /\ r \in RunIds /\ sc = runs[r].scenario
  <2>1. r \in DOMAIN runs /\ sc = runs[r].scenario
    BY <1>1, CallTypes DEF OrchIInv, GoodCall
  <2> QED
    BY <2>1 DEF OrchIInv
<1> HIDE DEF r, sc
<1>3. /\ DOMAIN db' = RunIds /\ db'[r] = CreatedRow(runs[r].scenario)
      /\ \A q \in RunIds \ {r} : db'[q] = db[q]
  BY <1>1, <1>2 DEF OrchIInv, RowsInv
<1>4. /\ CreatedRow(runs[r].scenario) \in RowOf(runs[r].scenario)
      /\ \A s \in Steps(runs[r]) : /\ CreatedRow(runs[r].scenario).step[s] # "success"
                                   /\ CreatedRow(runs[r].scenario).attempt[s] = 0
  BY CreatedRowOK DEF Steps
<1>5. \A s \in Steps(runs[r]) : 0 <= Attempts(r, s)
  BY <1>2, AttemptsNat DEF OrchIInv
<1>6. QuietDb
  BY <1>2, <1>3, <1>4, <1>5 DEF QuietDb
<1>7. QuietTodo /\ StopRule
  BY <1>1, QuietDone DEF OrchIInv, StopRule
<1> QED
  BY <1>1, <1>6, <1>7, QuietStep DEF OrchIInv

\* The write of a step that is no dispatch.
LEMMA UpdateOtherStepStep ==
    ASSUME OrchIInv, NEW c \in Clients, UpdateStepCall(c), Head(todo[c]).val # "dispatched"
    PROVE  OrchIInv' /\ [Next]_vars
<1> DEFINE r == Head(todo[c]).run
           i == Head(todo[c]).step
           v == Head(todo[c]).val
<1>1. /\ todo[c] # << >> /\ Head(todo[c]).op = "step" /\ Proceed(c, << >>) /\ vars' = vars
      /\ Stored(r, StepWritten(db[r], i, v))
      /\ active' = active /\ engaged' = engaged /\ since' = since /\ gone' = gone
  BY DEF UpdateStepCall, At
<1>2. /\ r \in DOMAIN runs /\ i \in Steps(runs[r]) /\ v \in StepStatus /\ v # "dispatched"
      /\ v = "success" => runs[r].step[i] = "success" \/ <<r, i>> \in cutShort
  BY <1>1, CallTypes DEF OrchIInv, GoodCall
<1> HIDE DEF r, i, v
<1>3. PICK row : row = StepWritten(db[r], i, v)
  OBVIOUS
<1>4. ASSUME db[r] # NoRow
      PROVE  /\ row \in RowOf(runs[r].scenario)
             /\ \A s \in Steps(runs[r]) :
                   /\ row.step[s] = "success" =>
                         \/ db[r].step[s] = "success"
                         \/ runs[r].step[s] = "success"
                         \/ <<r, s>> \in cutShort
                   /\ row.attempt[s] <= db[r].attempt[s]
  <2>1. /\ db[r] \in RowOf(runs[r].scenario)
        /\ Steps(runs[r]) = StepsOf(Plan[runs[r].scenario])
        /\ db[r].step \in [Steps(runs[r]) -> StepStatus]
        /\ db[r].attempt \in [Steps(runs[r]) -> Nat]
    BY <1>2, <1>4, StoredRow DEF OrchIInv
  <2>2. /\ row \in RowOf(runs[r].scenario)
        /\ row.step = [db[r].step EXCEPT ![i] = v]
        /\ row.attempt = [db[r].attempt EXCEPT ![i] = @]
    <3>1. PICK sc : sc = runs[r].scenario
      OBVIOUS
    <3>2. db[r] \in RowOf(sc) /\ i \in StepsOf(Plan[sc]) /\ v \in StepStatus
      BY <1>2, <2>1, <3>1
    <3>3. /\ row \in RowOf(sc)
          /\ row.step = [db[r].step EXCEPT ![i] = v]
          /\ row.attempt = [db[r].attempt EXCEPT ![i] =
                               IF v = "dispatched" THEN @ + 1 ELSE @]
      BY <1>3, <3>2, StepWrittenOK
    <3> QED
      BY <1>2, <3>1, <3>3
  <2>3. row.attempt = db[r].attempt
    BY <2>1, <2>2
  <2>4. \A s \in Steps(runs[r]) : row.attempt[s] <= db[r].attempt[s]
    BY <2>1, <2>3
  <2>5. \A s \in Steps(runs[r]) : row.step[s] = IF s = i THEN v ELSE db[r].step[s]
    BY <2>1, <2>2
  <2> QED
    BY <1>2, <2>2, <2>4, <2>5
<1>5. QuietDb
  BY <1>1, <1>2, <1>3, <1>4, StoredDb DEF OrchIInv
<1>6. QuietTodo /\ StopRule
  BY <1>1, QuietDone DEF OrchIInv, StopRule
<1> QED
  BY <1>1, <1>5, <1>6, QuietStep DEF OrchIInv

LEMMA SyncRunCallStep ==
    ASSUME OrchIInv, NEW c \in Clients, SyncRunCall(c)
    PROVE  OrchIInv' /\ [Next]_vars
<1> DEFINE r == Head(todo[c]).run
<1>1. /\ todo[c] # << >> /\ Head(todo[c]).op = "sync" /\ vars' = vars
      /\ \/ Proceed(c, << >>)
         \/ Proceed(c, << Call("status", r, 0, "") >>)
  BY DEF SyncRunCall, At
<1>2. r \in DOMAIN runs
  BY <1>1, CallTypes DEF OrchIInv, GoodCall
<1> HIDE DEF r
<1>3. r \in Nat
  BY <1>2 DEF OrchIInv, RunIds
<1>4. PICK call : call = Call("status", r, 0, "")
  OBVIOUS
<1>5. call \in CallRecord /\ GoodCall(call) /\ ~Hands(call)
  BY <1>2, <1>3, <1>4 DEF CallRecord, Call, Ops, GoodCall, Hands
<1>6. GoodCall(call)'
  BY <1>1, <1>5, GoodCallKept
<1>7. QuietTodo
  <2>1. CASE Proceed(c, << >>)
    BY <1>1, <2>1, QuietDone DEF OrchIInv
  <2>2. CASE Proceed(c, << Call("status", r, 0, "") >>)
    <3>1. Proceed(c, << call >>)
      BY <1>4, <2>2
    <3> QED
      BY <1>1, <1>5, <1>6, <3>1, ProceedOne DEF OrchIInv
  <2> QED
    BY <1>1, <2>1, <2>2
<1> QED
  BY <1>7, OnlyTodo DEF SyncRunCall

LEMMA RunStatusCallStep ==
    ASSUME OrchIInv, NEW c \in Clients, RunStatusCall(c)
    PROVE  OrchIInv' /\ [Next]_vars
<1> DEFINE r == Head(todo[c]).run
<1>1. /\ todo[c] # << >> /\ Head(todo[c]).op = "status" /\ vars' = vars
      /\ Proceed(c, << Call("run", r, 0, runs[r].status) >>)
  BY DEF RunStatusCall, At
<1>2. r \in DOMAIN runs
  BY <1>1, CallTypes DEF OrchIInv, GoodCall
<1> HIDE DEF r
<1>3. r \in Nat /\ runs[r].status \in RunStatus
  <2>1. r \in Nat
    BY <1>2 DEF OrchIInv, RunIds
  <2> QED
    BY <1>2, <2>1, RunsElement, RunParts DEF OrchIInv, IInv, TypeOK
<1>4. PICK call : call = Call("run", r, 0, runs[r].status)
  OBVIOUS
<1>5. call \in CallRecord /\ GoodCall(call) /\ ~Hands(call)
  BY <1>2, <1>3, <1>4 DEF CallRecord, Call, Ops, GoodCall, Hands
<1>6. GoodCall(call)'
  BY <1>1, <1>5, GoodCallKept
<1>7. Proceed(c, << call >>)
  BY <1>1, <1>4
<1>8. QuietTodo
  BY <1>1, <1>5, <1>6, <1>7, ProceedOne DEF OrchIInv
<1> QED
  BY <1>8, OnlyTodo DEF RunStatusCall

\* A write of a run's row that leaves its attempts and adds no success.
LEMMA StoredStep ==
    ASSUME OrchIInv, NEW c \in Clients, todo[c] # << >>, Proceed(c, << >>), vars' = vars,
           active' = active, engaged' = engaged, since' = since, gone' = gone,
           NEW r \in DOMAIN runs, NEW row, Stored(r, row),
           db[r] # NoRow =>
              /\ row \in RowOf(runs[r].scenario) /\ row.attempt = db[r].attempt
              /\ \A s \in Steps(runs[r]) : row.step[s] = "success" => db[r].step[s] = "success"
    PROVE  OrchIInv' /\ [Next]_vars
<1>1. ASSUME db[r] # NoRow, NEW s \in Steps(runs[r])
      PROVE  row.attempt[s] <= db[r].attempt[s]
  <2>1. db[r].attempt \in [Steps(runs[r]) -> Nat]
    BY <1>1, StoredRow DEF OrchIInv
  <2> QED
    BY <1>1, <2>1
<1>2. QuietDb
  BY <1>1, StoredDb DEF OrchIInv
<1>3. QuietTodo /\ StopRule
  BY QuietDone DEF OrchIInv, StopRule
<1> QED
  BY <1>2, <1>3, QuietStep DEF OrchIInv

LEMMA UpdateRunCallStep ==
    ASSUME OrchIInv, NEW c \in Clients, UpdateRunCall(c)
    PROVE  OrchIInv' /\ [Next]_vars
<1> DEFINE r == Head(todo[c]).run
           v == Head(todo[c]).val
<1>1. /\ todo[c] # << >> /\ Head(todo[c]).op = "run" /\ Proceed(c, << >>) /\ vars' = vars
      /\ Stored(r, RunWritten(db[r], v))
      /\ active' = active /\ engaged' = engaged /\ since' = since /\ gone' = gone
  BY DEF UpdateRunCall, At
<1>2. r \in DOMAIN runs /\ v \in RunStatus
  BY <1>1, CallTypes DEF OrchIInv, GoodCall
<1> HIDE DEF r, v
<1>3. PICK row : row = RunWritten(db[r], v)
  OBVIOUS
<1>4. ASSUME db[r] # NoRow
      PROVE  /\ row \in RowOf(runs[r].scenario)
             /\ row.step = db[r].step /\ row.attempt = db[r].attempt
  BY <1>2, <1>3, <1>4, StoredRow, RunWrittenOK DEF OrchIInv
<1> QED
  BY <1>1, <1>2, <1>3, <1>4, StoredStep

LEMMA RetryRowCallStep ==
    ASSUME OrchIInv, NEW c \in Clients, RetryRowCall(c)
    PROVE  OrchIInv' /\ [Next]_vars
<1> DEFINE r == Head(todo[c]).run
<1>1. /\ todo[c] # << >> /\ Head(todo[c]).op = "retry" /\ Proceed(c, << >>) /\ vars' = vars
      /\ Stored(r, RowRetried(db[r]))
      /\ active' = active /\ engaged' = engaged /\ since' = since /\ gone' = gone
  BY DEF RetryRowCall, At
<1>2. r \in DOMAIN runs
  BY <1>1, CallTypes DEF OrchIInv, GoodCall
<1> HIDE DEF r
<1>3. PICK row : row = RowRetried(db[r])
  OBVIOUS
<1>4. ASSUME db[r] # NoRow
      PROVE  /\ row \in RowOf(runs[r].scenario) /\ row.attempt = db[r].attempt
             /\ \A s \in Steps(runs[r]) : row.step[s] = "success" => db[r].step[s] = "success"
  BY <1>2, <1>3, <1>4, StoredRow, RowRetriedOK DEF OrchIInv
<1> QED
  BY <1>1, <1>2, <1>3, <1>4, StoredStep

\* An agent's first call is replaced by a call that hands out or records a task.
LEMMA AgentCalls ==
    ASSUME CallsInv, RunsRule, NEW a \in Agents, NEW call, GoodCall(call)',
           todo' \in [Clients -> Seq(CallRecord)],
           \A c \in Clients \ {a} : todo'[c] = todo[c],
           \A i \in DOMAIN todo'[a] :
              \/ \E j \in DOMAIN todo[a] \ {1} : todo'[a][i] = todo[a][j]
              \/ i = 1 /\ todo'[a][i] = call
    PROVE  CallsInv'
<1>1. ASSUME NEW c \in Clients, NEW i \in DOMAIN todo'[c]
      PROVE  \E k : /\ todo'[c][i] = k /\ GoodCall(k)'
                    /\ Hands(k) => i = 1 /\ c \in Agents
  <2>1. CASE c = a /\ i = 1 /\ todo'[a][i] = call
    BY <2>1
  <2>2. ASSUME NEW j \in DOMAIN todo[c], todo'[c][i] = todo[c][j], j # 1 \/ (c # a /\ j = i)
        PROVE  \E k : /\ todo'[c][i] = k /\ GoodCall(k)'
                      /\ Hands(k) => i = 1 /\ c \in Agents
    <3>1. /\ GoodCall(todo[c][j])
          /\ Hands(todo[c][j]) => j = 1 /\ c \in Agents
      BY <2>2 DEF CallsInv
    <3>2. PICK k : k = todo[c][j]
      OBVIOUS
    <3>3. GoodCall(k)'
      BY <3>1, <3>2, GoodCallStays
    <3> QED
      BY <2>2, <3>1, <3>2, <3>3
  <2> QED
    BY <1>1, <2>1, <2>2
<1>2. ASSUME NEW c \in Clients, NEW i \in DOMAIN todo'[c]
      PROVE  GoodCall(todo[c][i])' /\ (Hands(todo[c][i])' => i = 1 /\ c \in Agents)
  <2>1. PICK k : /\ todo'[c][i] = k /\ GoodCall(k)'
                 /\ Hands(k) => i = 1 /\ c \in Agents
    BY <1>1
  <2>2. GoodCall(todo[c][i])'
    BY <2>1 DEF GoodCall
  <2> QED
    BY <2>1, <2>2 DEF Hands
<1> QED
  BY <1>2 DEF CallsInv

\* The beacon asks for a task only while the killswitch is not active.
LEMMA BeaconStep ==
    ASSUME OrchIInv, NEW a \in Agents, Beacon(a)
    PROVE  OrchIInv' /\ [Next]_vars
<1>1. /\ a \in Clients /\ vars' = vars /\ active' = active /\ engaged' = engaged
      /\ db' = db /\ gone' = gone /\ since' = since /\ todo[a] = << >>
  BY DEF Beacon, Begin, Idle, Clients
<1>2. CASE active
  <2>1. PICK call \in CallRecord : call = Call("abort", 0, 0, "")
    BY DEF CallRecord, Call, Ops
  <2>2. PICK next \in CallRecord : next = Call("stop", 0, 0, "")
    BY DEF CallRecord, Call, Ops
  <2>3. GoodCall(call)' /\ ~Hands(call) /\ GoodCall(next)' /\ ~Hands(next)
    BY <2>1, <2>2 DEF GoodCall, Hands, Call
  <2>4. PICK calls \in Seq(CallRecord) :
          /\ calls = << call, next >> /\ DOMAIN calls = {1, 2}
          /\ calls[1] = call /\ calls[2] = next
    BY TwoCalls
  <2>5. \A i \in DOMAIN calls : GoodCall(calls[i])' /\ ~Hands(calls[i])
    BY <2>3, <2>4
  <2>6. Begin(a, calls)
    BY <1>2, <2>1, <2>2, <2>4 DEF Beacon
  <2>7. QuietTodo
    BY <1>1, <2>5, <2>6, QuietBegin DEF OrchIInv
  <2> QED
    BY <1>1, <2>7, OnlyTodo DEF Beacon
<1>3. CASE ~active
  <2>1. PICK call \in CallRecord : call = Call("next", 0, 0, "")
    BY DEF CallRecord, Call, Ops
  <2>2. PICK calls \in Seq(CallRecord) : calls = << call >> /\ DOMAIN calls = {1} /\ calls[1] = call
    BY OneCall
  <2>3. todo' = [todo EXCEPT ![a] = calls]
    BY <1>3, <2>1, <2>2 DEF Beacon, Begin
  <2>4. /\ todo' \in [Clients -> Seq(CallRecord)] /\ todo'[a] = calls
        /\ \A c \in Clients \ {a} : todo'[c] = todo[c]
    BY <1>1, <2>3 DEF OrchIInv, CallsInv
  <2>5. [Next]_vars
    BY <1>1
  <2>6. IInv' /\ TaskInv' /\ RunsRule
    BY <2>5, NextIInv, StutterIInv, NextTasks, PlannerRule DEF OrchIInv
  <2>7. GoodCall(call)'
    BY <2>1 DEF GoodCall, Call
  <2>8. CallsInv'
    BY <2>2, <2>4, <2>6, <2>7, AgentCalls DEF OrchIInv
  <2>9. QuietDb
    BY <1>1, SameDb DEF OrchIInv
  <2>10. RowsInv'
    BY <2>6, <2>9, QuietRows DEF OrchIInv
  <2>11. StopInv'
    <3>1. ~active' /\ active' \in BOOLEAN
      BY <1>1, <1>3 DEF OrchIInv, StopInv
    <3>2. since' \in [Agents -> Nat]
      BY <1>1 DEF OrchIInv, StopInv
    <3> QED
      BY <3>1, <3>2 DEF StopInv
  <2>12. \A r, s : Recording(r, s)' \subseteq Recording(r, s)
    <3>1. Head(todo'[a]) = call
      BY <2>2, <2>4
    <3>2. \A r, s : Call("step", r, s, "dispatched") # call
      BY <2>1 DEF Call
    <3>3. \A c \in Agents \ {a} : todo'[c] = todo[c]
      BY <2>4 DEF Clients
    <3> QED
      BY <3>1, <3>2, <3>3 DEF Recording
  <2>13. AttemptInv'
    <3>1. retries \in Nat
      BY BoundsAssumption DEF OrchIInv, IInv, TypeOK
    <3> QED
      BY <2>6, <2>9, <2>10, <2>12, <3>1, QuietAttempts DEF OrchIInv
  <2>14. DOMAIN runs' \subseteq RunIds
    BY <2>6 DEF RunsRule
  <2> QED
    BY <1>1, <2>5, <2>6, <2>8, <2>10, <2>11, <2>13, <2>14 DEF OrchIInv
<1> QED
  BY <1>2, <1>3

\* The bound for the step an agent is given: the dispatch is one more to be
\* recorded, and the step is queued no longer.
LEMMA DispatchAttempts ==
    ASSUME RowsInv, AttemptInv, retries \in Nat, NEW a, db' = db,
           NEW r \in DOMAIN runs, NEW s \in Steps(runs[r]), r \in RunIds,
           runs[r].step[s] = "queued", runs'[r].step[s] = "dispatched", retries' = retries,
           Recording(r, s)' \subseteq Recording(r, s) \cup {a}
    PROVE  /\ IsFiniteSet(Recording(r, s)')
           /\ Attempts(r, s)' + Cardinality(Recording(r, s)') <=
                 retries' + (IF runs'[r].step[s] = "queued" THEN 0 ELSE 1)
<1> DEFINE more == Recording(r, s) \cup {a}
           m == Cardinality(Recording(r, s))
           k == Cardinality(more)
           n == Cardinality(Recording(r, s)')
           x == Attempts(r, s)
<1>1. IsFiniteSet(Recording(r, s)) /\ x + m <= retries
  <2>1. /\ IsFiniteSet(Recording(r, s))
        /\ x + m <= retries + (IF runs[r].step[s] = "queued" THEN 0 ELSE 1)
    BY DEF AttemptInv
  <2>2. x \in Nat /\ m \in Nat
    BY <2>1, AttemptsNat, FS_CardinalityType
  <2> HIDE DEF x, m
  <2> QED
    BY <2>1, <2>2
<1>2. IsFiniteSet(more) /\ k <= m + 1 /\ k \in Nat /\ m \in Nat
  <2>1. IsFiniteSet(more) /\ (k = m \/ k = m + 1)
    BY <1>1, FS_AddElement
  <2>2. m \in Nat /\ k \in Nat
    BY <1>1, <2>1, FS_CardinalityType
  <2> HIDE DEF more, k, m
  <2> QED
    BY <2>1, <2>2
<1>3. IsFiniteSet(Recording(r, s)') /\ n <= k /\ n \in Nat
  <2> HIDE DEF k
  <2>1. IsFiniteSet(Recording(r, s)') /\ n <= Cardinality(more)
    BY <1>2, FS_Subset
  <2> QED
    BY <2>1, FS_CardinalityType DEF k
<1>4. x \in Nat /\ Attempts(r, s)' = x
  BY AttemptsNat DEF Attempts
<1>5. runs'[r].step[s] # "queued"
  OBVIOUS
<1> HIDE DEF more, m, k, n, x
<1>6. x + n <= retries + 1
  BY <1>1, <1>2, <1>3, <1>4
<1> QED
  BY <1>3, <1>4, <1>5, <1>6 DEF n

\* An agent gets a task: it asks for no other before it has recorded it.
LEMMA BeaconTaskStep ==
    ASSUME OrchIInv, NEW a \in Agents, BeaconTask(a)
    PROVE  OrchIInv' /\ [Next]_vars
<1>1. /\ a \in Clients /\ todo[a] # << >> /\ Head(todo[a]).op = "next" /\ NextTaskForAgent(a)
      /\ Proceed(a, << Call("step", held'[a][1], held'[a][2], "dispatched") >>)
      /\ since' = [since EXCEPT ![a] = IF active THEN @ + 1 ELSE @]
      /\ active' = active /\ engaged' = engaged /\ db' = db /\ gone' = gone
  BY DEF BeaconTask, At, Clients
<1>2. [Next]_vars
  BY <1>1 DEF Next
<1>3. IInv' /\ TaskInv' /\ RunsRule
  BY <1>2, NextIInv, StutterIInv, NextTasks, PlannerRule DEF OrchIInv
<1>4. PICK q \in DOMAIN runs : \E i \in Steps(runs[q]) :
        /\ held'[a] = <<q, i>> /\ retries' = retries
        /\ runs[q].step[i] = "queued" /\ runs'[q].step[i] = "dispatched"
  BY <1>1, NextTaskRule DEF OrchIInv
<1>5. PICK i \in Steps(runs[q]) :
        /\ held'[a] = <<q, i>> /\ retries' = retries
        /\ runs[q].step[i] = "queued" /\ runs'[q].step[i] = "dispatched"
  BY <1>4
<1>6. q \in RunIds /\ q \in Nat /\ i \in Nat /\ q \in DOMAIN runs' /\ i \in Steps(runs'[q])
  <2>1. runs[q].scenario \in Scenarios
    BY RunsElement, RunParts DEF OrchIInv, IInv, TypeOK
  <2>2. q \in RunIds
    BY DEF OrchIInv
  <2> QED
    BY <1>3, <2>1, <2>2, PlanAssumption DEF RunsRule, Steps, StepsOf, RunIds
<1>7. PICK call : call = Call("step", q, i, "dispatched")
  OBVIOUS
<1>8. call \in CallRecord /\ GoodCall(call)' /\ call.op = "step"
  BY <1>6, <1>7 DEF CallRecord, Call, Ops, GoodCall, StepStatus
<1>9. PICK calls \in Seq(CallRecord) : calls = << call >> /\ DOMAIN calls = {1} /\ calls[1] = call
  BY <1>8, OneCall
<1>10. Proceed(a, calls)
  <2>1. held'[a][1] = q /\ held'[a][2] = i
    BY <1>5
  <2>2. calls = << Call("step", held'[a][1], held'[a][2], "dispatched") >>
    BY <1>7, <1>9, <2>1
  <2> QED
    BY <1>1, <2>2
<1>11. /\ todo' \in [Clients -> Seq(CallRecord)]
       /\ \A c \in Clients \ {a} : todo'[c] = todo[c]
       /\ \A j \in DOMAIN todo'[a] :
             \/ \E k \in DOMAIN todo[a] \ {1} : todo'[a][j] = todo[a][k]
             \/ j = 1 /\ todo'[a][j] = call
  <2>1. /\ todo' \in [Clients -> Seq(CallRecord)]
        /\ \A c \in Clients \ {a} : todo'[c] = todo[c]
        /\ \A j \in DOMAIN todo'[a] :
              \/ \E k \in DOMAIN todo[a] \ {1} : todo'[a][j] = todo[a][k]
              \/ j \in DOMAIN calls /\ todo'[a][j] = calls[j]
    <3>1. CallsInv /\ a \in Clients /\ todo[a] # << >>
      BY <1>1 DEF OrchIInv
    <3> QED
      BY <1>10, <3>1, ProceedTodo
  <2>2. \A j \in DOMAIN calls : j = 1 /\ calls[j] = call
    BY <1>9
  <2> QED
    BY <2>1, <2>2
<1>12. CallsInv'
  BY <1>3, <1>8, <1>11, AgentCalls DEF OrchIInv
<1>13. RowsInv'
  BY <1>1, <1>3, SameDb, QuietRows DEF OrchIInv
<1>14. StopInv'
  <2>1. active \in BOOLEAN /\ active' = active
    BY <1>1 DEF OrchIInv, StopInv
  <2>2. since \in [Agents -> Nat] /\ since' \in [Agents -> Nat]
    BY <1>1 DEF OrchIInv, StopInv
  <2>3. \A b \in Agents \ {a} : since'[b] = since[b] /\ todo'[b] = todo[b]
    BY <1>1, <1>11, <2>2 DEF Clients
  <2>4. ASSUME active PROVE since'[a] = 1
    <3>1. since[a] <= 1 /\ since[a] # 1
      <4>1. Head(todo[a]) = todo[a][1] /\ 1 \in DOMAIN todo[a]
        BY <1>1, CallTypes DEF OrchIInv
      <4> QED
        BY <1>1, <2>4, <4>1 DEF OrchIInv, StopInv
    <3>2. since'[a] = since[a] + 1
      BY <1>1, <2>2, <2>4
    <3> QED
      BY <2>2, <3>1, <3>2
  <2>5. \A j \in DOMAIN todo'[a] : todo'[a][j].op # "next"
    <3>1. \A k \in DOMAIN todo[a] \ {1} : todo[a][k].op # "next"
      BY <1>1 DEF OrchIInv, CallsInv, Hands
    <3> QED
      BY <1>8, <1>11, <3>1
  <2>6. ASSUME active, NEW b \in Agents
        PROVE  since'[b] <= 1 /\ (since'[b] = 1 => \A j \in DOMAIN todo'[b] : todo'[b][j].op # "next")
    <3>1. CASE b = a
      BY <2>4, <2>5, <2>6, <3>1
    <3>2. CASE b # a
      BY <2>3, <2>6, <3>2 DEF OrchIInv, StopInv
    <3> QED
      BY <3>1, <3>2
  <2> QED
    BY <2>1, <2>2, <2>6 DEF StopInv
<1>15. retries \in Nat
  BY BoundsAssumption DEF OrchIInv, IInv, TypeOK
<1>16. ASSUME NEW r, NEW s, NEW c \in Recording(r, s)', c \notin Recording(r, s)
       PROVE  c = a /\ r = q /\ s = i
  <2>1. c \in Agents /\ c \in Clients /\ Head(todo'[c]) = Call("step", r, s, "dispatched")
    BY <1>16 DEF Recording, Clients
  <2>2. c = a
    BY <1>11, <1>16, <2>1 DEF Recording
  <2>3. Head(todo'[a]) = todo'[a][1] /\ 1 \in DOMAIN todo'[a]
    <3>1. todo'[a] \in Seq(CallRecord) /\ todo'[a] # << >>
      BY <1>11, <1>16, <2>1, <2>2 DEF Recording
    <3>2. Len(todo'[a]) \in Nat /\ Len(todo'[a]) # 0 /\ DOMAIN todo'[a] = 1 .. Len(todo'[a])
      BY <3>1, LenProperties, EmptySeq
    <3>3. 1 \in DOMAIN todo'[a]
      BY <3>2
    <3> QED
      BY <3>3
  <2>4. \A k \in DOMAIN todo[a] \ {1} : todo[a][k] # Call("step", r, s, "dispatched")
    BY <1>1 DEF OrchIInv, CallsInv, Hands, Call
  <2>5. Call("step", r, s, "dispatched") = Call("step", q, i, "dispatched")
    BY <1>7, <1>11, <2>1, <2>2, <2>3, <2>4
  <2> QED
    BY <2>2, <2>5 DEF Call
<1>17. AttemptInv'
  <2> SUFFICES ASSUME NEW r \in DOMAIN runs', NEW s \in Steps(runs'[r])
               PROVE  /\ IsFiniteSet(Recording(r, s)')
                      /\ Attempts(r, s)' + Cardinality(Recording(r, s)') <=
                            retries' + (IF runs'[r].step[s] = "queued" THEN 0 ELSE 1)
    BY DEF AttemptInv, Steps
  <2>1. CASE r = q /\ s = i
    <3>1. Recording(q, i)' \subseteq Recording(q, i) \cup {a}
      BY <1>16
    <3> QED
      BY <1>1, <1>5, <1>6, <1>15, <2>1, <3>1, DispatchAttempts DEF OrchIInv
  <2>2. CASE ~(r = q /\ s = i)
    <3>1. Recording(r, s)' \subseteq Recording(r, s)
      BY <1>16, <2>2
    <3>2. r \in DOMAIN runs => Attempts(r, s)' <= Attempts(r, s)
      <4>1. ASSUME r \in DOMAIN runs PROVE Attempts(r, s) \in Nat
        <5>1. r \in RunIds /\ s \in Steps(runs[r])
          BY <1>3, <4>1 DEF RunsRule, Steps
        <5> QED
          BY <4>1, <5>1, AttemptsNat DEF OrchIInv
      <4>2. Attempts(r, s)' = Attempts(r, s)
        BY <1>1 DEF Attempts
      <4> QED
        BY <4>1, <4>2
    <3> QED
      BY <1>1, <1>3, <1>13, <1>15, <3>1, <3>2, OtherAttempts DEF OrchIInv
  <2> QED
    BY <2>1, <2>2
<1>18. DOMAIN runs' \subseteq RunIds
  BY <1>3 DEF RunsRule
<1> QED
  BY <1>1, <1>2, <1>3, <1>12, <1>13, <1>14, <1>17, <1>18 DEF OrchIInv

\* An agent's dispatch is recorded: what was on its way is now in the row.
LEMMA UpdateDispatchStep ==
    ASSUME OrchIInv, NEW c \in Clients, UpdateStepCall(c), Head(todo[c]).val = "dispatched"
    PROVE  OrchIInv' /\ [Next]_vars
<1>a. PICK q : q = Head(todo[c]).run
  OBVIOUS
<1>b. PICK i : i = Head(todo[c]).step
  OBVIOUS
<1>1. /\ todo[c] # << >> /\ Head(todo[c]).op = "step" /\ Proceed(c, << >>) /\ vars' = vars
      /\ Stored(q, StepWritten(db[q], i, "dispatched"))
      /\ active' = active /\ engaged' = engaged /\ since' = since /\ gone' = gone
  BY <1>a, <1>b DEF UpdateStepCall, At
<1>2. /\ q \in DOMAIN runs /\ q \in RunIds /\ i \in Steps(runs[q]) /\ c \in Agents
      /\ Head(todo[c]) = Call("step", q, i, "dispatched")
  <2>1. /\ q \in DOMAIN runs /\ i \in Steps(runs[q]) /\ c \in Agents
        /\ Head(todo[c]) \in CallRecord
    BY <1>1, <1>a, <1>b, CallTypes DEF OrchIInv, GoodCall, Hands
  <2>2. Head(todo[c]) = Call("step", q, i, "dispatched")
    BY <1>1, <1>a, <1>b, <2>1 DEF CallRecord, Call
  <2> QED
    BY <2>1, <2>2 DEF OrchIInv
<1>3. PICK row : row = StepWritten(db[q], i, "dispatched")
  OBVIOUS
<1>4. /\ DOMAIN db' = RunIds
      /\ \A r \in RunIds \ {q} : db'[r] = db[r]
      /\ db'[q] = IF db[q] = NoRow THEN db[q] ELSE row
  BY <1>1, <1>2, <1>3 DEF Stored, OrchIInv, RowsInv
<1>5. ASSUME db[q] # NoRow
      PROVE  /\ row \in RowOf(runs[q].scenario)
             /\ db[q].attempt \in [Steps(runs[q]) -> Nat]
             /\ \A s \in Steps(runs[q]) :
                   /\ row.step[s] = "success" => db[q].step[s] = "success"
                   /\ row.attempt[s] = IF s = i THEN db[q].attempt[s] + 1 ELSE db[q].attempt[s]
  <2>1. /\ db[q] \in RowOf(runs[q].scenario)
        /\ Steps(runs[q]) = StepsOf(Plan[runs[q].scenario])
        /\ db[q].step \in [Steps(runs[q]) -> StepStatus]
        /\ db[q].attempt \in [Steps(runs[q]) -> Nat]
    BY <1>2, <1>5, StoredRow DEF OrchIInv
  <2>2. "dispatched" \in StepStatus
    BY DEF StepStatus
  <2>3. /\ row \in RowOf(runs[q].scenario)
        /\ row.step = [db[q].step EXCEPT ![i] = "dispatched"]
        /\ row.attempt = [db[q].attempt EXCEPT ![i] = @ + 1]
    BY <1>2, <1>3, <2>1, <2>2, StepWrittenOK
  <2>4. \A s \in Steps(runs[q]) : row.step[s] = "success" => db[q].step[s] = "success"
    BY <2>1, <2>3
  <2>5. \A s \in Steps(runs[q]) :
          row.attempt[s] = IF s = i THEN db[q].attempt[s] + 1 ELSE db[q].attempt[s]
    BY <2>1, <2>3
  <2> QED
    BY <2>1, <2>3, <2>4, <2>5
<1>6. QuietTodo /\ StopRule /\ [Next]_vars
  BY <1>1, QuietDone DEF OrchIInv, StopRule
<1>7. IInv' /\ TaskInv' /\ RunsRule
  BY <1>6, NextIInv, StutterIInv, NextTasks, PlannerRule DEF OrchIInv
<1>8. CallsInv' /\ StopInv'
  BY <1>6, <1>7, QuietCalls, QuietStop DEF OrchIInv
<1>9. RowsInv'
  <2>1. SoundDb
    BY <1>2, <1>4, <1>5 DEF SoundDb
  <2> QED
    BY <1>7, <2>1, SoundRows DEF OrchIInv
<1>10. \A r, s : Recording(r, s)' \subseteq Recording(r, s)
  BY <1>6, QuietRecording DEF OrchIInv
<1>11. c \in Recording(q, i) /\ c \notin Recording(q, i)'
  <2>1. c \in Recording(q, i)
    BY <1>1, <1>2 DEF Recording
  <2>2. todo'[c] = Tail(todo[c])
    <3>1. todo'[c] = << >> \o Tail(todo[c]) /\ Tail(todo[c]) \in Seq(CallRecord)
      BY <1>1, CallTypes DEF OrchIInv, CallsInv, Proceed
    <3> QED
      BY <3>1, ConcatEmptySeq
  <2>3. \A j \in DOMAIN Tail(todo[c]) : ~Hands(Tail(todo[c])[j])
    <3>1. \A j \in DOMAIN Tail(todo[c]) :
             j + 1 \in DOMAIN todo[c] \ {1} /\ Tail(todo[c])[j] = todo[c][j + 1]
      BY <1>1, CallTypes DEF OrchIInv
    <3>2. \A j \in DOMAIN todo[c] \ {1} : ~Hands(todo[c][j])
      BY DEF OrchIInv, CallsInv
    <3> QED
      BY <3>1, <3>2
  <2>4. ASSUME c \in Recording(q, i)' PROVE FALSE
    <3>1. todo'[c] \in Seq(CallRecord) /\ todo'[c] # << >>
      BY <1>6, <2>4 DEF QuietTodo, Recording
    <3>2. Head(todo'[c]) = todo'[c][1] /\ 1 \in DOMAIN todo'[c]
      <4>1. Len(todo'[c]) \in Nat /\ Len(todo'[c]) # 0 /\ DOMAIN todo'[c] = 1 .. Len(todo'[c])
        BY <3>1, LenProperties, EmptySeq
      <4>2. 1 \in DOMAIN todo'[c]
        BY <4>1
      <4> QED
        BY <4>2
    <3>3. Hands(Head(todo'[c]))
      BY <2>4 DEF Recording, Hands, Call
    <3> QED
      BY <2>2, <2>3, <3>2, <3>3
  <2> QED
    BY <2>1, <2>4
<1>12. retries \in Nat
  BY BoundsAssumption DEF OrchIInv, IInv, TypeOK
<1>13. AttemptInv'
  <2> SUFFICES ASSUME NEW r \in DOMAIN runs', NEW s \in Steps(runs'[r])
               PROVE  /\ IsFiniteSet(Recording(r, s)')
                      /\ Attempts(r, s)' + Cardinality(Recording(r, s)') <=
                            retries' + (IF runs'[r].step[s] = "queued" THEN 0 ELSE 1)
    BY DEF AttemptInv, Steps
  <2>1. runs' = runs /\ retries' = retries /\ r \in DOMAIN runs /\ s \in Steps(runs[r]) /\ r \in RunIds
    BY <1>1 DEF vars, OrchIInv
  <2>2. Attempts(r, s) \in Nat
    BY <2>1, AttemptsNat DEF OrchIInv
  <2>3. CASE r = q /\ s = i
    <3> DEFINE m == Cardinality(Recording(q, i))
               n == Cardinality(Recording(q, i)')
               x == Attempts(q, i)
               y == Attempts(q, i)'
    <3>1. IsFiniteSet(Recording(q, i)) /\ x + m <= retries + (IF runs[q].step[i] = "queued" THEN 0 ELSE 1)
      BY <1>2 DEF OrchIInv, AttemptInv
    <3>2. IsFiniteSet(Recording(q, i)') /\ n + 1 <= m /\ n \in Nat /\ m \in Nat
      <4> DEFINE others == Recording(q, i) \ {c}
                 k == Cardinality(others)
      <4>1. IsFiniteSet(others) /\ k = m - 1
        BY <1>11, <3>1, FS_RemoveElement
      <4>2. Recording(q, i)' \subseteq others
        BY <1>10, <1>11
      <4>3. IsFiniteSet(Recording(q, i)') /\ n <= k
        <5> HIDE DEF others
        <5> QED
          BY <4>1, <4>2, FS_Subset
      <4>4. n \in Nat /\ m \in Nat /\ k \in Nat
        BY <3>1, <4>1, <4>3, FS_CardinalityType
      <4> HIDE DEF others, k, m, n
      <4>5. n + 1 <= m
        BY <4>1, <4>3, <4>4
      <4> QED
        BY <4>3, <4>4, <4>5
    <3>3. x \in Nat /\ y \in Nat /\ y <= x + 1
      <4>1. CASE db[q] = NoRow
        BY <1>4, <2>2, <2>3, <4>1 DEF Attempts
      <4>2. CASE db[q] # NoRow
        <5>1. row # NoRow => y = db[q].attempt[i] + 1
          BY <1>2, <1>4, <1>5, <4>2 DEF Attempts
        <5>2. row = NoRow => y = 0
          BY <1>4, <4>2 DEF Attempts
        <5>3. x = db[q].attempt[i] /\ x \in Nat
          BY <2>2, <2>3, <4>2 DEF Attempts
        <5> HIDE DEF x, y
        <5> QED
          BY <5>1, <5>2, <5>3
      <4> QED
        BY <4>1, <4>2
    <3> HIDE DEF m, n, x, y
    <3>4. y + n <= retries + (IF runs[q].step[i] = "queued" THEN 0 ELSE 1)
      BY <1>12, <3>1, <3>2, <3>3
    <3> QED
      BY <2>1, <2>3, <3>2, <3>4 DEF n, y
  <2>4. CASE ~(r = q /\ s = i)
    <3>1. Attempts(r, s)' <= Attempts(r, s)
      <4>1. CASE db'[r] = db[r]
        BY <2>2, <4>1 DEF Attempts
      <4>2. CASE db'[r] = NoRow
        BY <2>2, <4>2 DEF Attempts
      <4>3. CASE r = q /\ db[q] # NoRow /\ row # NoRow
        <5>1. Attempts(r, s)' = Attempts(r, s)
          BY <1>4, <1>5, <2>1, <2>4, <4>3 DEF Attempts
        <5> QED
          BY <2>2, <5>1
      <4> QED
        BY <1>4, <2>1, <4>1, <4>2, <4>3
    <3> QED
      BY <1>7, <1>9, <1>10, <1>12, <2>1, <3>1, OtherAttempts DEF OrchIInv
  <2> QED
    BY <2>3, <2>4
<1>14. DOMAIN runs' \subseteq RunIds
  BY <1>7 DEF RunsRule
<1> QED
  BY <1>1, <1>6, <1>7, <1>8, <1>9, <1>13, <1>14 DEF OrchIInv

-----------------------------------------------------------------------------
LEMMA OrchInitIInv == OrchInit => OrchIInv
<1> SUFFICES ASSUME OrchInit PROVE OrchIInv
  OBVIOUS
<1>1. /\ Init /\ active = FALSE /\ engaged = 0 /\ gone = {}
      /\ db = [r \in RunIds |-> NoRow] /\ todo = [c \in Clients |-> << >>]
      /\ since = [a \in Agents |-> 0]
  BY DEF OrchInit
<1>2. IInv /\ TaskInv
  BY <1>1, InitIInv, InitTasks
<1>3. DOMAIN runs = {}
  BY <1>1, EmptySeq DEF Init
<1>4. engaged \in 0 .. MaxEngage
  BY <1>1, EngageAssumption
<1>5. CallsInv
  <2>1. << >> \in Seq(CallRecord) /\ DOMAIN << >> = {}
    BY EmptySeq
  <2>2. \A c \in Clients : todo[c] = << >>
    BY <1>1
  <2> QED
    BY <1>1, <2>1, <2>2 DEF CallsInv
<1>6. RowsInv
  BY <1>1, <1>3 DEF RowsInv, StoredSuccessIsTrue
<1>7. StopInv
  BY <1>1 DEF StopInv
<1>8. AttemptInv
  BY <1>3 DEF AttemptInv
<1> QED
  BY <1>1, <1>2, <1>3, <1>4, <1>5, <1>6, <1>7, <1>8 DEF OrchIInv

LEMMA StoreCallStep ==
    ASSUME OrchIInv, NEW c \in Clients, StoreCall(c)
    PROVE  OrchIInv' /\ [Next]_vars
<1>1. CASE CreateRowCall(c)
  BY <1>1, CreateRowCallStep
<1>2. CASE UpdateStepCall(c)
  BY <1>2, UpdateOtherStepStep, UpdateDispatchStep
<1>3. CASE SyncRunCall(c)
  BY <1>3, SyncRunCallStep
<1>6. CASE RunStatusCall(c)
  BY <1>6, RunStatusCallStep
<1>4. CASE UpdateRunCall(c)
  BY <1>4, UpdateRunCallStep
<1>5. CASE RetryRowCall(c)
  BY <1>5, RetryRowCallStep
<1> QED
  BY <1>1, <1>2, <1>3, <1>4, <1>5, <1>6 DEF StoreCall

LEMMA HandleStep ==
    ASSUME OrchIInv, NEW c \in Clients, Handle(c)
    PROVE  OrchIInv' /\ [Next]_vars
<1>1. CASE c \in Agents /\ (BeaconTask(c) \/ BeaconIdle(c) \/ BeaconStop(c))
  BY <1>1, BeaconTaskStep, BeaconIdleStep, BeaconStopStep
<1>2. CASE c \in Operators /\ (StartCall(c) \/ StartRefused(c))
  BY <1>2, StartCallStep, StartRefusedStep
<1>3. CASE ListCall \/ AbortedRunCall \/ AbortedStepCall
  BY <1>3, ListCallStep, AbortedRunCallStep, AbortedStepCallStep
<1>4. CASE AbortCall(c) \/ StoreCall(c)
  BY <1>4, AbortCallStep, StoreCallStep
<1> QED
  BY <1>1, <1>2, <1>3, <1>4 DEF Handle

\* Every step of the handlers keeps the invariant, and to the planner it is a
\* step of its own or none.
LEMMA OrchNextIInv ==
    ASSUME OrchIInv, [OrchNext]_orchVars
    PROVE  OrchIInv' /\ [Next]_vars
<1>1. CASE \E c \in Clients : Handle(c)
  BY <1>1, HandleStep
<1>2. CASE \E a \in Agents : Beacon(a) \/ ResultLost(a)
  BY <1>2, BeaconStep, ResultLostStep
<1>3. CASE \E a \in Agents, ok \in BOOLEAN : Result(a, ok)
  BY <1>3, ResultStep
<1>4. CASE \E o \in Operators, sc \in Scenarios : RunScenario(o, sc) \/ StartForCampaign(o, sc)
  BY <1>4, RunScenarioStep, StartForCampaignStep
<1>5. CASE \E o \in Operators, ids \in SUBSET DOMAIN runs : PauseOrResume(o, ids)
  BY <1>5, PauseOrResumeStep
<1>6. CASE \E o \in Operators, r \in DOMAIN runs : RetryRun(o, r) \/ CleanupRun(o, r)
  BY <1>6, RetryRunStep, CleanupRunStep
<1>7. CASE Engage \/ EngageByFlag \/ Disengage
  BY <1>7, EngageStep, EngageByFlagStep, DisengageStep
<1>8. CASE UNCHANGED orchVars
  <2>1. /\ vars' = vars /\ active' = active /\ engaged' = engaged /\ db' = db
        /\ todo' = todo /\ gone' = gone /\ since' = since
    BY <1>8 DEF orchVars
  <2>2. QuietTodo
    BY <2>1, SameTodo DEF OrchIInv
  <2> QED
    BY <2>1, <2>2, OnlyTodo
<1> QED
  BY <1>1, <1>2, <1>3, <1>4, <1>5, <1>6, <1>7, <1>8 DEF OrchNext

-----------------------------------------------------------------------------
(* The theorems. *)

\* The planner, its agents, the store and the calls that are still to be made
\* stay consistent however the calls of the handlers interleave.
THEOREM OrchestratorInvariant == OrchSafetySpec => []OrchIInv
<1>1. OrchInit => OrchIInv
  BY OrchInitIInv
<1>2. OrchIInv /\ [OrchNext]_orchVars => OrchIInv'
  BY OrchNextIInv
<1> QED
  BY <1>1, <1>2, PTL DEF OrchSafetySpec

\* Whatever the handlers do to the planner is what the planner's own
\* specification allows: its theorems hold of the orchestrator.
THEOREM HandlersImplementPlanner == OrchSafetySpec => SafetySpec
<1>1. OrchInit => Init
  BY DEF OrchInit
<1>2. OrchIInv /\ [OrchNext]_orchVars => [Next]_vars
  BY OrchNextIInv
<1> QED
  BY <1>1, <1>2, OrchestratorInvariant, PTL DEF OrchSafetySpec, SafetySpec

\* The shape of the store and of the requests.
THEOREM OrchestratorTypeCorrect == OrchSafetySpec => []OrchTypeOK
<1>1. OrchIInv => OrchTypeOK
  BY DEF OrchIInv, IInv, CallsInv, RowsInv, StopInv, OrchTypeOK
<1> QED
  BY <1>1, OrchestratorInvariant, PTL

\* Once the killswitch is active no agent gets a second task: only a beacon
\* that had looked at the flag before can still be given one.
THEOREM DispatchStopsWithTheKillswitch == OrchSafetySpec => []KillswitchStopsDispatch
<1>1. OrchIInv => KillswitchStopsDispatch
  BY DEF OrchIInv, StopInv, KillswitchStopsDispatch
<1> QED
  BY <1>1, OrchestratorInvariant, PTL

\* A success in the store is one of the planner, or of a step that abort_all
\* took from its agent.
THEOREM StoredSuccessesAreTrue == OrchSafetySpec => []StoredSuccessIsTrue
<1>1. OrchIInv => StoredSuccessIsTrue
  BY DEF OrchIInv, RowsInv
<1> QED
  BY <1>1, OrchestratorInvariant, PTL

\* The attempts the store counts for a step are one, and one for each retry.
THEOREM AttemptsAreBounded == OrchSafetySpec => []AttemptsBoundedByRetries
<1>1. OrchIInv => AttemptsBoundedByRetries
  <2> SUFFICES ASSUME OrchIInv, NEW r \in DOMAIN runs, db[r] # NoRow, NEW s \in Steps(runs[r])
               PROVE  db[r].attempt[s] <= 1 + retries
    BY DEF AttemptsBoundedByRetries
  <2> DEFINE m == Cardinality(Recording(r, s))
             x == Attempts(r, s)
  <2>1. r \in RunIds /\ x = db[r].attempt[s]
    BY DEF OrchIInv, Attempts
  <2>2. /\ IsFiniteSet(Recording(r, s))
        /\ x + m <= retries + (IF runs[r].step[s] = "queued" THEN 0 ELSE 1)
    BY DEF OrchIInv, AttemptInv
  <2>3. m \in Nat /\ x \in Nat
    BY <2>1, <2>2, AttemptsNat, FS_CardinalityType DEF OrchIInv
  <2>4. retries \in Nat
    BY BoundsAssumption DEF OrchIInv, IInv, TypeOK
  <2> HIDE DEF m, x
  <2> QED
    BY <2>1, <2>2, <2>3, <2>4
<1> QED
  BY <1>1, OrchestratorInvariant, PTL
=============================================================================
