----------------------------- MODULE Campaigns -----------------------------
(***************************************************************************)
(* Campaigns (orchestrator/api/scenarios.py): a batch of runs that is       *)
(* launched at once or at a time, repeated, paused, resumed, and whose       *)
(* failed runs are run again.  A campaign is a dict that the scheduler loop  *)
(* on the event loop and the request handlers in worker threads read and     *)
(* change without a lock.  One campaign is modelled: the tick visits them    *)
(* one after the other and no handler touches two.                          *)
(*                                                                          *)
(* todo[t] holds the lines thread t has still to execute, as labels; one     *)
(* step is one access to the record that another thread can come between.    *)
(* The planner is seen run by run, each of its methods atomic (its lock).    *)
(***************************************************************************)
EXTENDS Integers, Sequences, FiniteSets, SequencesExt

CONSTANTS
    Clients,       \* threads that serve requests
    Scheduler,     \* the scheduler loop of the application's lifespan
    NoRow,         \* the campaign has no row in the store
    Size,          \* scenarios the campaign request selects
    Interval,      \* the campaigns have a repeat_interval_seconds
    MaxRepeat,     \* bound on repeat_count
    MaxRequests,   \* bound on the requests
    MaxRuns        \* bound on the runs of the planner

Threads == Clients \cup {Scheduler}

ASSUME CampaignBounds ==
    /\ IsFiniteSet(Clients) /\ Scheduler \notin Clients
    /\ Interval \in BOOLEAN /\ Size \in Nat \ {0} /\ MaxRepeat \in Nat \ {0} /\ MaxRequests \in Nat
    /\ MaxRuns \in Nat

VARIABLES
    camp,      \* the record in AppState.campaigns
    row,       \* its row in the store
    runs,      \* the status of each run of the planner, by run id
    todo,      \* what each thread has still to do
    mine,      \* the runs a thread has started and not yet recorded
    scan,      \* the runs retry_failed_campaign has still to look at
    verdict,   \* the status a thread is about to record
    requests   \* requests so far

campVars == <<camp, row, runs, todo, mine, scan, verdict, requests>>

CampaignStatus == {"none", "scheduled", "running", "paused", "completed", "failed"}

\* "closed" is a run that is completed or aborted: a campaign never tells the
\* two apart.
RunState == {"running", "paused", "closed", "failed"}

\* scheduled_at: None, a time to come, or a time that has passed.
When == {"never", "later", "due"}

Finished(r) == runs[r] \in {"closed", "failed"}

AllFinished == \A i \in DOMAIN camp.runIds : Finished(camp.runIds[i])

-----------------------------------------------------------------------------
(* Threads. *)

At(t, label) == todo[t] # << >> /\ Head(todo[t]) = label

\* Thread t goes on with labels before the rest of its work.
Continue(t, labels) == todo' = [todo EXCEPT ![t] = labels \o Tail(@)]

\* An idle thread is given a request.
Request(c, labels) ==
    /\ todo[c] = << >> /\ requests < MaxRequests
    /\ requests' = requests + 1
    /\ todo' = [todo EXCEPT ![c] = labels]

Launch == << "start", "extend", "running", "count" >>

\* A mutation of SaveRow: only the runs the row does not know yet.
SaveRowTail ==
    row' = IF row = NoRow THEN NoRow ELSE SubSeq(camp.runIds, Len(row) + 1, Len(camp.runIds))

\* update_campaign with the run ids; without a row it does nothing.
SaveRow == row' = IF row = NoRow THEN NoRow ELSE camp.runIds

-----------------------------------------------------------------------------
(* Requests. *)

\* POST /campaigns/run: a campaign with a time to come is left to the
\* scheduler, any other is launched.  Its row comes last.
RunCampaign(c) ==
    /\ camp.status = "none"
    /\ \E at \in {"never", "later"}, n \in 1 .. MaxRepeat :
         /\ camp' = [status |-> IF at = "later" THEN "scheduled" ELSE "running",
                     at |-> at, repeat |-> n,
                     names |-> Size, runIds |-> << >>]
         /\ Request(c, IF at = "later" THEN << "insert" >>
                       ELSE Launch \o << "insert" >>)
    /\ UNCHANGED <<row, runs, mine, scan, verdict>>

\* GET /campaigns and GET /campaigns/{id} tick as well.
GetCampaign(c) ==
    /\ camp.status # "none"
    /\ Request(c, << "tick", "summary" >>)
    /\ UNCHANGED <<camp, row, runs, mine, scan, verdict>>

\* The campaign's report has its summary in it, and does not tick.
ReportCampaign(c) ==
    /\ camp.status # "none"
    /\ Request(c, << "summary" >>)
    /\ UNCHANGED <<camp, row, runs, mine, scan, verdict>>

\* POST /campaigns/{id}/pause: the runs known so far.
PauseCampaign(c) ==
    /\ camp.status # "none"
    /\ Request(c, << "paused", "summary" >>)
    /\ runs' = [r \in DOMAIN runs |->
                  IF r \in Range(camp.runIds) /\ runs[r] = "running" THEN "paused" ELSE runs[r]]
    /\ UNCHANGED <<camp, row, mine, scan, verdict>>

\* POST /campaigns/{id}/resume.
ResumeCampaign(c) ==
    /\ camp.status # "none"
    /\ Request(c, << "resumed", "summary" >>)
    /\ runs' = [r \in DOMAIN runs |->
                  IF r \in Range(camp.runIds) /\ runs[r] = "paused" THEN "running" ELSE runs[r]]
    /\ UNCHANGED <<camp, row, mine, scan, verdict>>

\* POST /campaigns/{id}/retry-failed: over a copy of the run ids.
RetryFailedCampaign(c) ==
    /\ camp.status # "none"
    /\ Request(c, << "retry", "add", "save", "summary" >>)
    /\ scan' = [scan EXCEPT ![c] = camp.runIds]
    /\ UNCHANGED <<camp, row, runs, mine, verdict>>

\* The scheduler loop wakes up.
WakeUp ==
    /\ camp.status # "none"
    /\ todo[Scheduler] = << >>
    /\ todo' = [todo EXCEPT ![Scheduler] = << "tick" >>]
    /\ UNCHANGED <<camp, row, runs, mine, scan, verdict, requests>>

-----------------------------------------------------------------------------
(* tick_scheduled_campaigns. *)

\* A scheduled campaign whose time has come, or that has none.
TickLaunches == camp.status = "scheduled" /\ camp.at \in {"never", "due"}

\* A running one with repeats left, all of whose runs are over.
TickRequeues ==
    /\ camp.status = "running" /\ Interval /\ camp.repeat > 0
    /\ camp.runIds # << >> /\ AllFinished

Tick(t) ==
    /\ At(t, "tick")
    /\ Continue(t, IF TickLaunches THEN Launch
                   ELSE IF TickRequeues THEN << "requeue", "postpone" >> ELSE << >>)
    /\ UNCHANGED <<camp, row, runs, mine, scan, verdict, requests>>

\* The status is "scheduled" again before the new time is set.
Requeue(t) ==
    /\ At(t, "requeue")
    /\ camp' = [camp EXCEPT !.status = "scheduled"]
    /\ Continue(t, << >>)
    /\ UNCHANGED <<row, runs, mine, scan, verdict, requests>>

Postpone(t) ==
    /\ At(t, "postpone")
    /\ camp' = [camp EXCEPT !.at = "later"]
    /\ Continue(t, << >>)
    /\ UNCHANGED <<row, runs, mine, scan, verdict, requests>>

-----------------------------------------------------------------------------
(* _launch_campaign_runs and retry_failed_campaign. *)

\* A mutation of StartRuns: the id noted is that of the next run.
StartRunsNextId(t) ==
    /\ At(t, "start")
    /\ IF Len(mine[t]) < camp.names
       THEN /\ Len(runs) < MaxRuns
            /\ runs' = Append(runs, "running")
            /\ mine' = [mine EXCEPT ![t] = Append(@, Len(runs') + 1)]
            /\ UNCHANGED todo
       ELSE Continue(t, << >>) /\ UNCHANGED <<runs, mine>>
    /\ UNCHANGED <<camp, row, scan, verdict, requests>>

\* The comprehension starts a run for each name, of the list as it is now.
StartRuns(t) ==
    /\ At(t, "start")
    /\ IF Len(mine[t]) < camp.names
       THEN /\ Len(runs) < MaxRuns
            /\ runs' = Append(runs, "running")
            /\ mine' = [mine EXCEPT ![t] = Append(@, Len(runs'))]
            /\ UNCHANGED todo
       ELSE Continue(t, << >>) /\ UNCHANGED <<runs, mine>>
    /\ UNCHANGED <<camp, row, scan, verdict, requests>>

\* One round of the retry loop.
RetryRuns(t) ==
    /\ At(t, "retry")
    /\ IF scan[t] = << >> THEN Continue(t, << >>) /\ UNCHANGED <<camp, runs, mine, scan>>
       ELSE /\ scan' = [scan EXCEPT ![t] = Tail(@)]
            /\ IF runs[Head(scan[t])] = "failed"
               THEN /\ Len(runs) < MaxRuns
                    /\ runs' = Append(runs, "running")
                    /\ mine' = [mine EXCEPT ![t] = Append(@, Len(runs'))]
                    /\ camp' = [camp EXCEPT !.names = @ + 1]
               ELSE UNCHANGED <<runs, mine, camp>>
            /\ UNCHANGED todo
    /\ UNCHANGED <<row, verdict, requests>>

\* After a launch the status comes next; retry-failed sets it when it has run
\* something again, and otherwise ...
AfterExtend(t) ==
    CASE At(t, "extend") -> << >>
      [] At(t, "add") -> IF mine[t] # << >> THEN << "running" >> ELSE << "same" >>

\* A mutation of Extend: the list is replaced by the runs just started.
ExtendReplacing(t) ==
    /\ At(t, "extend") \/ At(t, "add")
    /\ camp' = [camp EXCEPT !.runIds = mine[t]]
    /\ mine' = [mine EXCEPT ![t] = << >>]
    /\ Continue(t, AfterExtend(t))
    /\ UNCHANGED <<row, runs, scan, verdict, requests>>

\* record["run_ids"].extend(...).
Extend(t) ==
    /\ At(t, "extend") \/ At(t, "add")
    /\ camp' = [camp EXCEPT !.runIds = @ \o mine[t]]
    /\ mine' = [mine EXCEPT ![t] = << >>]
    /\ Continue(t, AfterExtend(t))
    /\ UNCHANGED <<row, runs, scan, verdict, requests>>

\* ... reads it and writes it back ("close"), over what another thread has
\* written in between.
KeepStatus(t) ==
    /\ At(t, "same")
    /\ verdict' = [verdict EXCEPT ![t] = camp.status]
    /\ Continue(t, << "close" >>)
    /\ UNCHANGED <<camp, row, runs, mine, scan, requests>>

MarkRunning(t) ==
    /\ At(t, "running")
    /\ camp' = [camp EXCEPT !.status = "running"]
    /\ Continue(t, << >>)
    /\ UNCHANGED <<row, runs, mine, scan, verdict, requests>>

\* update_campaign at the end of retry-failed.
SaveRetried(t) ==
    /\ At(t, "save")
    /\ SaveRow
    /\ Continue(t, << >>)
    /\ UNCHANGED <<camp, runs, mine, scan, verdict, requests>>

\* The repeats left are looked at, and counted down if there are any; the
\* row is written either way.
CountRepeat(t) ==
    /\ At(t, "count")
    /\ IF camp.repeat > 0
       THEN Continue(t, << "decrement" >>) /\ UNCHANGED row
       ELSE Continue(t, << >>) /\ SaveRow
    /\ UNCHANGED <<camp, runs, mine, scan, verdict, requests>>

DecrementRepeat(t) ==
    /\ At(t, "decrement")
    /\ camp' = [camp EXCEPT !.repeat = @ - 1]
    /\ SaveRow
    /\ Continue(t, << >>)
    /\ UNCHANGED <<runs, mine, scan, verdict, requests>>

-----------------------------------------------------------------------------
(* pause_campaign and resume_campaign, after the planner's call. *)

MarkPaused(t) ==
    /\ At(t, "paused")
    /\ camp' = [camp EXCEPT !.status = "paused"]
    /\ Continue(t, << >>)
    /\ UNCHANGED <<row, runs, mine, scan, verdict, requests>>

\* scheduled_at is never cleared: a campaign that was scheduled once is
\* scheduled again.
MarkResumed(t) ==
    /\ At(t, "resumed")
    /\ camp' = [camp EXCEPT !.status = IF camp.at = "never" THEN "running" ELSE "scheduled"]
    /\ Continue(t, << >>)
    /\ UNCHANGED <<row, runs, mine, scan, verdict, requests>>

-----------------------------------------------------------------------------
(* _campaign_summary. *)

\* The summary of the response; run_campaign has written the row before it.
Summarise(t) ==
    /\ At(t, "summary") \/ At(t, "insert")
    /\ row' = IF At(t, "insert") THEN camp.runIds ELSE row
    /\ IF camp.status \notin {"paused", "scheduled"} /\ camp.runIds # << >> /\ AllFinished
       THEN /\ verdict' = [verdict EXCEPT ![t] =
                 IF \E i \in DOMAIN camp.runIds : runs[camp.runIds[i]] = "failed"
                 THEN "failed" ELSE "completed"]
            /\ Continue(t, << "close" >>)
       ELSE Continue(t, << >>) /\ UNCHANGED verdict
    /\ UNCHANGED <<camp, runs, mine, scan, requests>>

\* The status a thread has settled on is recorded.
CloseCampaign(t) ==
    /\ At(t, "close")
    /\ camp' = [camp EXCEPT !.status = verdict[t]]
    /\ verdict' = [verdict EXCEPT ![t] = "none"]
    /\ Continue(t, << >>)
    /\ UNCHANGED <<row, runs, mine, scan, requests>>

-----------------------------------------------------------------------------
(* The planner and the clock. *)

\* Reports, aborts and retries move a run; the reports of the steps in flight
\* can finish a paused one as well.
RunMoves(r) ==
    /\ \/ ~Finished(r) /\ \E s \in {"closed", "failed"} : runs' = [runs EXCEPT ![r] = s]
       \/ Finished(r) /\ runs' = [runs EXCEPT ![r] = "running"]
    /\ UNCHANGED <<camp, row, todo, mine, scan, verdict, requests>>

TimePasses ==
    /\ camp.at = "later"
    /\ camp' = [camp EXCEPT !.at = "due"]
    /\ UNCHANGED <<row, runs, todo, mine, scan, verdict, requests>>

-----------------------------------------------------------------------------
CampInit ==
    /\ camp = [status |-> "none", at |-> "never", repeat |-> 0,
               names |-> 0, runIds |-> << >>]
    /\ row = NoRow
    /\ runs = << >>
    /\ todo = [t \in Threads |-> << >>]
    /\ mine = [t \in Threads |-> << >>]
    /\ scan = [t \in Threads |-> << >>]
    /\ verdict = [t \in Threads |-> "none"]
    /\ requests = 0

\* A thread that has work executes its next line.
Run(t) ==
    \/ Tick(t) \/ Requeue(t) \/ Postpone(t)
    \/ StartRuns(t) \/ RetryRuns(t) \/ Extend(t) \/ MarkRunning(t) \/ KeepStatus(t)
    \/ CountRepeat(t) \/ DecrementRepeat(t)
    \/ MarkPaused(t) \/ MarkResumed(t)
    \/ SaveRetried(t)
    \/ Summarise(t) \/ CloseCampaign(t)

CampNext ==
    \/ \E t \in Threads : Run(t)
    \/ \E c \in Clients : RunCampaign(c) \/ GetCampaign(c) \/ ReportCampaign(c)
                          \/ PauseCampaign(c) \/ ResumeCampaign(c) \/ RetryFailedCampaign(c)
    \/ WakeUp
    \/ \E r \in DOMAIN runs : RunMoves(r)
    \/ TimePasses

CampSpec == CampInit /\ [][CampNext]_campVars

-----------------------------------------------------------------------------
(* Properties. *)

\* The shape of the campaign.
CampTypeOK ==
    /\ camp.status \in CampaignStatus /\ camp.at \in When
    /\ camp.repeat \in -Cardinality(Threads) .. MaxRepeat /\ camp.names \in Nat
    /\ camp.runIds \in Seq(DOMAIN runs)
    /\ row = NoRow \/ row \in Seq(DOMAIN runs)
    /\ runs \in Seq(RunState)
    /\ \A t \in Threads : mine[t] \in Seq(DOMAIN runs) /\ scan[t] \in Seq(DOMAIN runs)
    /\ verdict \in [Threads -> CampaignStatus]

\* No run is lost and none is listed twice, however launches and retries
\* overlap: every run of the planner is on the campaign's list, or with the
\* one thread that started it and will put it there.
EveryRunAccounted ==
    LET held == UNION {Range(mine[t]) : t \in Threads}
    IN  /\ DOMAIN runs = Range(camp.runIds) \cup held
        /\ Range(camp.runIds) \cap held = {}
        /\ Cardinality(Range(camp.runIds)) = Len(camp.runIds)
        /\ \A t, u \in Threads : t # u => Range(mine[t]) \cap Range(mine[u]) = {}

\* The stored list of runs is the beginning of the live one: whatever request
\* wrote it last, it names runs of the campaign, in the order they joined it.
StoredRunsArePrefix == row = NoRow \/ IsPrefix(row, camp.runIds)

\* "Start due scheduled campaigns and requeue repeat campaigns": no request
\* leaves a campaign closed that has repeats left (the tick passes over a
\* closed campaign, until an operator resumes it or a retry reopens it).
RepeatsAreRequeued ==
    /\ camp.status \in {"completed", "failed"} /\ Interval
    /\ \A t \in Threads : todo[t] = << >>
    => camp.repeat <= 0
=============================================================================
