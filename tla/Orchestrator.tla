---------------------------- MODULE Orchestrator ----------------------------
(***************************************************************************)
(* The request handlers of the orchestrator (api/agents.py,                *)
(* api/killswitch.py, api/scenarios.py, execution_engine_v3.py) over the    *)
(* planner, the killswitch flag and the SQLite store (storage/db.py).       *)
(*                                                                          *)
(* FastAPI runs each handler in a worker thread.  A planner method is       *)
(* atomic (its lock) and so is a Repository method (its transaction), but a *)
(* handler makes several such calls and nothing spans them: the calls of    *)
(* different handlers interleave.  todo[c] holds the calls the request of   *)
(* client c has still to make, in order.  A client waits for its response   *)
(* before it sends another request.                                         *)
(***************************************************************************)
EXTENDS Planner

CONSTANTS
    Operators,    \* clients with the operator role
    Admin,        \* the client with the admin role
    NoRow,        \* a run that has no row in the store
    MaxEngage     \* bound on the times the killswitch is engaged

Clients == Agents \cup Operators \cup {Admin}

ASSUME ClientAssumption ==
    /\ Agents \cap Operators = {}
    /\ Admin \notin Agents \cup Operators

ASSUME EngageAssumption == MaxEngage \in Nat

VARIABLES
    active,    \* KillSwitch.is_active(): the flag file exists
    engaged,   \* how often it has been engaged
    db,        \* the rows of the store: run, step instances, queue entries
    todo,      \* the calls each client's request has still to make
    gone,      \* agents that were told to stop and exited
    since      \* history: dispatches to each agent since the last engagement

orchVars == <<vars, active, engaged, db, todo, gone, since>>

RunIds == 1 .. MaxRuns

CleanupStatus == {"pending", "complete", "not_required"}

\* One run in the store.  A StepInstance and its QueueEntry are created and
\* updated together, so one record stands for both.
RowOf(sc) ==
    [status : RunStatus, finished : BOOLEAN,
     step    : [StepsOf(Plan[sc]) -> StepStatus],
     attempt : [StepsOf(Plan[sc]) -> Nat],
     cleanup : [StepsOf(Plan[sc]) -> CleanupStatus]]

\* A call: its kind, and the run, step or status it is about.
Call(op, r, s, v) == [op |-> op, run |-> r, step |-> s, val |-> v]

-----------------------------------------------------------------------------
(* The store. *)

\* A mutation of CreatedRow: the run is stored as "queued".
CreatedRowQueued(sc) ==
    [status |-> "queued", finished |-> FALSE,
     step    |-> [s \in StepsOf(Plan[sc]) |-> "queued"],
     attempt |-> [s \in StepsOf(Plan[sc]) |-> 0],
     cleanup |-> [s \in StepsOf(Plan[sc]) |-> "pending"]]

\* Repository.create_run.
CreatedRow(sc) ==
    [status |-> "running", finished |-> FALSE,
     step    |-> [s \in StepsOf(Plan[sc]) |-> "queued"],
     attempt |-> [s \in StepsOf(Plan[sc]) |-> 0],
     cleanup |-> [s \in StepsOf(Plan[sc]) |-> "pending"]]

\* A mutation of StepWritten: every write counts as an attempt.
StepWrittenCounting(row, s, status) ==
    [row EXCEPT !.step[s] = status, !.attempt[s] = @ + 1]

\* Repository.update_step; mark_started comes with "dispatched" only.
StepWritten(row, s, status) ==
    [row EXCEPT
        !.step[s] = status,
        !.attempt[s] = IF status = "dispatched" THEN @ + 1 ELSE @,
        !.cleanup[s] = CASE status = "success" -> "not_required"
                         [] status \in {"failed", "aborted", "skipped"} -> "pending"
                         [] OTHER -> @]

\* _mark_cleanup_complete.
CleanupClosed(cleanup) ==
    [s \in DOMAIN cleanup |-> IF cleanup[s] = "pending" THEN "complete" ELSE cleanup[s]]

\* Repository.update_run_status with finished=True.
RunWritten(row, status) ==
    [row EXCEPT !.status = status, !.finished = TRUE, !.cleanup = CleanupClosed(@)]

\* Repository.retry_failed_steps.
RowRetried(row) ==
    LET again == {s \in DOMAIN row.step : row.step[s] \in {"failed", "skipped", "aborted"}}
    IN  IF again = {} THEN row
        ELSE [row EXCEPT
                !.status = "running", !.finished = FALSE,
                !.step = [s \in DOMAIN @ |-> IF s \in again THEN "queued" ELSE @[s]],
                !.cleanup = [s \in DOMAIN @ |-> IF s \in again THEN "pending" ELSE @[s]]]

\* Repository.mark_cleanup_complete (cleanup_required keeps its default).
RowCleaned(row) == [row EXCEPT !.cleanup = [s \in DOMAIN @ |-> "complete"]]

\* Every update looks the row up first and returns when there is none.
Stored(r, row) ==
    db' = [db EXCEPT ![r] = IF @ = NoRow THEN NoRow ELSE row]

-----------------------------------------------------------------------------
(* Requests and their calls. *)

Idle(c) == todo[c] = << >>

\* The request of client c is about to make the call op.
At(c, op) == todo[c] # << >> /\ Head(todo[c]).op = op

\* The call is made, and calls come before what is left of the request.
Proceed(c, calls) == todo' = [todo EXCEPT ![c] = calls \o Tail(@)]

\* The request of an idle client begins with calls.
Begin(c, calls) ==
    /\ Idle(c)
    /\ todo' = [todo EXCEPT ![c] = calls]

-----------------------------------------------------------------------------
(* POST /agents/beacon. *)

\* A mutation of Beacon: the killswitch is not looked at.
BeaconUnchecked(a) ==
    /\ a \notin gone /\ held[a] = NoTask
    /\ Begin(a, << Call("next", 0, 0, "") >>)
    /\ UNCHANGED <<vars, active, engaged, db, gone, since>>

\* Another: the agent is told to stop, but the runs are left alone.
BeaconWithoutAbort(a) ==
    /\ a \notin gone /\ held[a] = NoTask
    /\ Begin(a, << Call(IF active THEN "stop" ELSE "next", 0, 0, "") >>)
    /\ UNCHANGED <<vars, active, engaged, db, gone, since>>

\* The handler looks at the killswitch first.
Beacon(a) ==
    /\ a \notin gone /\ held[a] = NoTask
    /\ Begin(a, IF active
                THEN << Call("abort", 0, 0, ""), Call("stop", 0, 0, "") >>
                ELSE << Call("next", 0, 0, "") >>)
    /\ UNCHANGED <<vars, active, engaged, db, gone, since>>

\* next_task_for_agent found a task: it is signed, recorded and sent.
BeaconTask(a) ==
    /\ At(a, "next")
    /\ NextTaskForAgent(a)
    /\ Proceed(a, << Call("step", held'[a][1], held'[a][2], "dispatched") >>)
    /\ since' = [since EXCEPT ![a] = IF active THEN @ + 1 ELSE @]
    /\ UNCHANGED <<active, engaged, db, gone>>

\* It found none: "idle".
BeaconIdle(a) ==
    /\ At(a, "next")
    /\ \A r \in DOMAIN runs : ReadyFor(a, r) = {}
    /\ Proceed(a, << >>)
    /\ UNCHANGED <<vars, active, engaged, db, gone, since>>

\* The response carries killswitch=True and the agent exits.
BeaconStop(a) ==
    /\ At(a, "stop")
    /\ Proceed(a, << >>)
    /\ gone' = gone \cup {a}
    /\ UNCHANGED <<vars, active, engaged, db, since>>

\* A mutation of Result: the row is set to "success" whatever the outcome.
ResultAlwaysSuccess(a, ok) ==
    /\ ReportResult(a, ok)
    /\ Begin(a, << Call("step", held[a][1], held[a][2], "success"),
                   Call("sync", held[a][1], 0, "") >>)
    /\ UNCHANGED <<active, engaged, db, gone, since>>

(* POST /agents/result: the planner first, then the step's row, then the run. *)
Result(a, ok) ==
    /\ ReportResult(a, ok)
    /\ Begin(a, << Call("step", held[a][1], held[a][2], IF ok THEN "success" ELSE "failed"),
                   Call("sync", held[a][1], 0, "") >>)
    /\ UNCHANGED <<active, engaged, db, gone, since>>

\* The agent's report is lost before it reaches the handler.
ResultLost(a) ==
    /\ Idle(a)
    /\ LoseResult(a)
    /\ UNCHANGED <<active, engaged, db, todo, gone, since>>

-----------------------------------------------------------------------------
(* Operators. *)

\* POST /scenarios/run: refused with 409 while the killswitch is active.
RunScenario(o, sc) ==
    /\ ~active
    /\ Begin(o, << Call("start", 0, 0, sc) >>)
    /\ UNCHANGED <<vars, active, engaged, db, gone, since>>

\* The runs the campaign tick launches and those retry-failed starts anew: the
\* killswitch is not looked at.
StartForCampaign(o, sc) ==
    /\ Begin(o, << Call("start", 0, 0, sc) >>)
    /\ UNCHANGED <<vars, active, engaged, db, gone, since>>

\* _start_run: the run is in the planner before it has a row.
StartCall(o) ==
    /\ At(o, "start")
    /\ StartRun(Head(todo[o]).val)
    /\ Proceed(o, << Call("create", Len(runs'), 0, Head(todo[o]).val) >>)
    /\ UNCHANGED <<active, engaged, db, gone, since>>

\* No more runs fit the bound.
StartRefused(o) ==
    /\ At(o, "start")
    /\ Len(runs) = MaxRuns \/ ~ValidDag(Plan[Head(todo[o]).val])
    /\ Proceed(o, << >>)
    /\ UNCHANGED <<vars, active, engaged, db, gone, since>>

\* pause_campaign and resume_campaign, for the runs of a campaign.
PauseOrResume(o, ids) ==
    /\ Idle(o)
    /\ PauseRuns(ids) \/ ResumeRuns(ids)
    /\ UNCHANGED <<active, engaged, db, todo, gone, since>>

\* retry_failed_run: the planner, then the store; the killswitch is not
\* looked at.
RetryRun(o, r) ==
    /\ RetryFailedSteps(r) \/ (UNCHANGED vars /\ Retryable(runs[r]) = {})
    /\ Begin(o, << Call("retry", r, 0, "") >>)
    /\ UNCHANGED <<active, engaged, db, gone, since>>

\* cleanup_run.
CleanupRun(o, r) ==
    /\ Idle(o)
    /\ Stored(r, RowCleaned(db[r]))
    /\ UNCHANGED <<vars, active, engaged, todo, gone, since>>

-----------------------------------------------------------------------------
(* The killswitch. *)

\* POST /killswitch/engage: the flag, abort_all, then the store.
Engage ==
    /\ engaged < MaxEngage
    /\ Begin(Admin, << Call("abort", 0, 0, ""), Call("list", 0, 0, "") >>)
    /\ active' = TRUE
    /\ engaged' = engaged + 1
    /\ since' = [a \in Agents |-> 0]
    /\ UNCHANGED <<vars, db, gone>>

\* The flag file is created without the endpoint (APT_SIM_STOP is given to the
\* process when it starts, and then never changes).
EngageByFlag ==
    /\ ~active /\ engaged < MaxEngage
    /\ active' = TRUE
    /\ engaged' = engaged + 1
    /\ since' = [a \in Agents |-> 0]
    /\ UNCHANGED <<vars, db, todo, gone>>

\* POST /killswitch/disengage.
Disengage ==
    /\ active /\ Idle(Admin)
    /\ active' = FALSE
    /\ UNCHANGED <<vars, engaged, db, todo, gone, since>>

\* abort_all, called by the beacon handler and by engage.
AbortCall(c) ==
    /\ At(c, "abort")
    /\ AbortAll \/ (UNCHANGED vars /\ \A r \in DOMAIN runs : runs[r].status # "running")
    /\ Proceed(c, << >>)
    /\ UNCHANGED <<active, engaged, db, gone, since>>

\* The loop of engage over list_runs.
ListCall ==
    /\ At(Admin, "list")
    /\ Proceed(Admin, [r \in DOMAIN runs |-> Call("abortedRun", r, 0, "")])
    /\ UNCHANGED <<vars, active, engaged, db, gone, since>>

\* One run of the loop: only a run that is aborted by now is written.
AbortedRunCall ==
    /\ At(Admin, "abortedRun")
    /\ LET r == Head(todo[Admin]).run
       IN  Proceed(Admin,
             IF runs[r].status # "aborted" THEN << >>
             ELSE << Call("run", r, 0, "aborted") >> \o
                  [s \in DOMAIN runs[r].step |-> Call("abortedStep", r, s, "")])
    /\ UNCHANGED <<vars, active, engaged, db, gone, since>>

\* One step of the inner loop.
AbortedStepCall ==
    /\ At(Admin, "abortedStep")
    /\ LET call == Head(todo[Admin])
       IN  Proceed(Admin,
             IF runs[call.run].step[call.step] # "aborted" THEN << >>
             ELSE << Call("step", call.run, call.step, "aborted") >>)
    /\ UNCHANGED <<vars, active, engaged, db, gone, since>>

-----------------------------------------------------------------------------
(* The calls into the store. *)

CreateRowCall(c) ==
    /\ At(c, "create")
    /\ db' = [db EXCEPT ![Head(todo[c]).run] = CreatedRow(Head(todo[c]).val)]
    /\ Proceed(c, << >>)
    /\ UNCHANGED <<vars, active, engaged, gone, since>>

UpdateStepCall(c) ==
    /\ At(c, "step")
    /\ LET call == Head(todo[c])
       IN  Stored(call.run, StepWritten(db[call.run], call.step, call.val))
    /\ Proceed(c, << >>)
    /\ UNCHANGED <<vars, active, engaged, gone, since>>

\* report_result looks at the run's status: any but "running", "paused"
\* included, is to be written as that of a finished run, ...
SyncRunCall(c) ==
    /\ At(c, "sync")
    /\ LET r == Head(todo[c]).run
       IN  Proceed(c, IF runs[r].status = "running" THEN << >>
                      ELSE << Call("status", r, 0, "") >>)
    /\ UNCHANGED <<vars, active, engaged, db, gone, since>>

\* ... and is read again for that, without the planner's lock around both.
RunStatusCall(c) ==
    /\ At(c, "status")
    /\ LET r == Head(todo[c]).run
       IN  Proceed(c, << Call("run", r, 0, runs[r].status) >>)
    /\ UNCHANGED <<vars, active, engaged, db, gone, since>>

UpdateRunCall(c) ==
    /\ At(c, "run")
    /\ LET call == Head(todo[c])
       IN  Stored(call.run, RunWritten(db[call.run], call.val))
    /\ Proceed(c, << >>)
    /\ UNCHANGED <<vars, active, engaged, gone, since>>

RetryRowCall(c) ==
    /\ At(c, "retry")
    /\ Stored(Head(todo[c]).run, RowRetried(db[Head(todo[c]).run]))
    /\ Proceed(c, << >>)
    /\ UNCHANGED <<vars, active, engaged, gone, since>>

StoreCall(c) ==
    \/ CreateRowCall(c) \/ UpdateStepCall(c) \/ SyncRunCall(c) \/ RunStatusCall(c)
    \/ UpdateRunCall(c) \/ RetryRowCall(c)

-----------------------------------------------------------------------------
OrchInit ==
    /\ Init
    /\ active = FALSE
    /\ engaged = 0
    /\ db = [r \in RunIds |-> NoRow]
    /\ todo = [c \in Clients |-> << >>]
    /\ gone = {}
    /\ since = [a \in Agents |-> 0]

\* A request that has begun makes its next call.
Handle(c) ==
    \/ c \in Agents /\ (BeaconTask(c) \/ BeaconIdle(c) \/ BeaconStop(c))
    \/ c \in Operators /\ (StartCall(c) \/ StartRefused(c))
    \/ c = Admin /\ (ListCall \/ AbortedRunCall \/ AbortedStepCall)
    \/ AbortCall(c)
    \/ StoreCall(c)

OrchNext ==
    \/ \E c \in Clients : Handle(c)
    \/ \E a \in Agents : Beacon(a) \/ ResultLost(a)
    \/ \E a \in Agents, ok \in BOOLEAN : Result(a, ok)
    \/ \E o \in Operators, sc \in Scenarios : RunScenario(o, sc) \/ StartForCampaign(o, sc)
    \/ \E o \in Operators, ids \in SUBSET DOMAIN runs : PauseOrResume(o, ids)
    \/ \E o \in Operators, r \in DOMAIN runs : RetryRun(o, r) \/ CleanupRun(o, r)
    \/ Engage \/ EngageByFlag \/ Disengage

OrchSafetySpec == OrchInit /\ [][OrchNext]_orchVars

\* A handler thread runs to its end, an agent that has not exited keeps
\* beaconing, and a task ends in a report or in a lost one.
OrchFairness ==
    /\ \A c \in Clients : WF_orchVars(Handle(c))
    /\ \A a \in Agents : /\ WF_orchVars(Beacon(a))
                         /\ WF_orchVars(ResultLost(a) \/ \E ok \in BOOLEAN : Result(a, ok))

OrchSpec == OrchSafetySpec /\ OrchFairness

-----------------------------------------------------------------------------
(* Properties. *)

\* The shape of the store and of the requests.
OrchTypeOK ==
    /\ TypeOK
    /\ active \in BOOLEAN
    /\ engaged \in 0 .. MaxEngage
    /\ gone \subseteq Agents
    /\ since \in [Agents -> Nat]
    /\ DOMAIN db = RunIds /\ DOMAIN todo = Clients
    /\ \A r \in RunIds :
          db[r] # NoRow => r \in DOMAIN runs /\ db[r] \in RowOf(runs[r].scenario)

\* Once the killswitch is active, an agent gets at most the one task its
\* beacon was already asking for: dispatch stops within one beacon cycle,
\* whatever is started, retried or resumed meanwhile.
KillswitchStopsDispatch == active => \A a \in Agents : since[a] <= 1

\* The store never shows a success the planner does not have, except for a
\* step that abort_all took from the agent executing it.
StoredSuccessIsTrue ==
    \A r \in DOMAIN runs : db[r] # NoRow =>
        \A s \in Steps(runs[r]) :
            db[r].step[s] = "success" =>
                runs[r].step[s] = "success" \/ <<r, s>> \in cutShort

\* The attempts the store counts for a step: one, and one for each retry.
AttemptsBoundedByRetries ==
    \A r \in DOMAIN runs : db[r] # NoRow =>
        \A s \in Steps(runs[r]) : db[r].attempt[s] <= 1 + retries

\* While the killswitch is active, and an agent is left that has not yet been
\* told so, a running run stops running: the agent's next beacon calls
\* abort_all.  (Once all agents are gone nobody aborts what an operator
\* retries or resumes, until agents are started again.)
KillswitchDrains ==
    \A r \in RunIds :
        (/\ active /\ r \in DOMAIN runs
         /\ \E a \in Agents \ gone : ~At(a, "stop"))
        ~> (~active \/ (r \in DOMAIN runs /\ runs[r].status # "running"))

\* "Killswitch aborts every active run within one beacon cycle": after the
\* abort_all of a beacon, or of engage, no run is active, that is running or
\* paused (the planner's docstring; build_engine_status counts both).
KillswitchAbortsEveryActiveRun ==
    [][\A c \in Clients : At(c, "abort") /\ todo'[c] = Tail(todo[c]) =>
          \A r \in DOMAIN runs : runs'[r].status \notin {"running", "paused"}]_orchVars

\* "Sync run-level status if planner marked it terminal": a run whose row says
\* it has finished is stored with a terminal status.
StoredFinishedIsTerminal ==
    \A r \in RunIds : db[r] # NoRow /\ db[r].finished =>
        db[r].status \in {"completed", "failed", "aborted"}
=============================================================================
