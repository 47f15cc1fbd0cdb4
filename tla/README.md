# A TLA+ model of APT-Simulator

APT-Simulator is a purple-team adversary emulator: an orchestrator (FastAPI,
SQLite, one process) holds scenarios, which are DAGs of harmless technique
simulations (TTPs); agents on lab hosts beacon to it over HTTP, get one signed
task at a time, run it and report the result. Operators start, pause, retry
and schedule scenarios, an admin can pull a killswitch, and everything is
appended to a hash-chained audit log that also feeds the live dashboard.

This directory models the part of it that has state, concurrency or decisions
that are easy to get wrong. It holds
modules, TLC configurations, proofs checked by TLAPS, and `PROJECT.json`, which
links every definition to the source lines it stands for, lists the runs, the
mutations each property was tried against, the findings and the hazards.

    tlc -workers 2 -config PlannerOneRun.cfg MCPlanner     # any run of PROJECT.json
    tlapm PlannerProofs.tla                                # the proofs

Contents: 1 the system, 2 the modules, 3 the runs, 4 findings, 5 proofs,
6 abstractions and bounds, 7 what is not modelled, 8 plan.

## 1. The system

All paths are under `src/`.

| Component | State | Operations | Talks to |
|---|---|---|---|
| Planner `orchestrator/core/planner.py` | `_runs`: per run a status, per step a status and the agent | `start_run`, `next_task_for_agent`, `report_result`, `pause_runs`, `resume_runs`, `retry_failed_steps`, `abort_all`; all under one lock | called by every API handler |
| DAG validation `orchestrator/dsl/schema.py` | none | `validate_dag`, `topological_order` | planner, `run-local` |
| Agent API `orchestrator/api/agents.py` | the agents | register, beacon, result | planner, killswitch, store, signer, audit |
| Killswitch `core/killswitch.py`, `api/killswitch.py` | a flag file or `APT_SIM_STOP` | engage, disengage, `is_active` | planner, store |
| Run API `api/scenarios.py`, `execution_engine_v3.py` | none | run, retry, cleanup, summaries | planner, store |
| Campaigns `api/scenarios.py`, loop in `main.py` | `AppState.campaigns`, a dict of dicts without a lock | run, get (which ticks), pause, resume, retry-failed, the scheduler's tick | planner, store |
| Store `storage/db.py` | SQLite rows of runs, steps, queue entries, campaigns | one transaction per method | written by handlers, hardly read back |
| Audit log `core/audit.py` | the JSONL file, `_last_hash` | `append` (under a lock), `verify`, the scan at startup | publishes to the bus |
| Event bus and websocket `core/bus.py`, `api/ws.py` | subscribers, one bounded `asyncio.Queue` each | `publish` (any thread), `_safe_put` (event loop), `subscribe`, `unsubscribe`, the connection's loop | audit log, dashboard |
| Agent beacon `agent/beacon.py`, `safety.py`, `runtime.py` | failure count, TTL, public key | register, beacon, verify, execute, report | agent API |
| `run-local` `agent/main.py` | what is left of the scenario | passes over the DAG | DAG validation, TTPs |

| TTP library `ttps/` | markers, registry values and tasks on the agent's host | `run`, `cleanup`, `sigma_rule`, `synthetic_events` of thirty techniques and of the catalog's entries | agent, detection |
| Detection `detection.py`, `detection_diff.py` | none | `evaluate`, `evaluate_many`, the verdict on a technique | TTP library |
| Scenario loader `dsl/loader.py` | a cache of one directory | `load_scenarios_from_dir` | scenario files, DAG validation |
| Generators `scenario_builder.py`, `ttps/catalog.py` | none | batches of scenario variants, scale packs | TTP registry |
| Maturity `scenario_maturity.py` | none | score and label of a scenario | loader, evidence file, TTP registry |
| Multi-agent smoke `multi_agent_lab.py` | none | one request that plays three agents | planner, store |

The components not modelled are listed in section 7.

**How they interact.** FastAPI runs each handler in a worker thread. A planner
method is atomic (its lock) and so is a store method (its transaction), but a
handler makes several such calls with nothing around them: the result handler,
for one, updates the planner, then the step's row, then reads the run's status
again and writes the run's row. Campaign records are shared between those
threads and the scheduler task on the event loop with no lock at all. The audit
log publishes from any thread; the loop's callbacks put the events into queues.
An agent and the orchestrator share nothing but requests, each of which may be
lost in either direction; a lost report is never sent again.

**What is hard, and what has to be right.**

- *Planner.* Results may be late: a step can be reported after its run was
  paused, aborted, retried or closed, and `report_result` looks at none of
  that. Right means: the run's status still agrees with its steps, the
  `abort_on_fail` cascade stays complete, dispatch respects the DAG, no
  dispatched step is without someone executing it unless its report was lost,
  settled outcomes stay, and no run is starved.
- *Killswitch.* It races with beacons, starts, retries and resumes that have
  passed the check already. Right means: dispatch stops within one beacon of
  each agent, and running runs drain.
- *Store.* Several writers, each with values it read earlier. Right means: no
  false success, an honest attempt count, "finished" only for what has ended.
- *Campaigns.* Right means: no run started is lost from the record or listed
  twice, the stored list never disagrees with the live one, repeats happen.
- *Audit log.* Disk-full, torn lines, crashes, edits. Right means: an untouched
  log verifies, a "valid" log has every acknowledged event, an edit is noticed.
- *Bus.* Right means: order kept, nothing sent twice, a gap only where a queue
  was full.
- *Agent.* Right means: it stops when told to, by whatever means, and finishes
  at most the task it had; a lost orchestrator makes it give up; `run-local`
  executes a DAG in order, completely, and rejects what is none.

- *Techniques.* A run may fail half way, a cleanup too, and they come in any
  order, with different parameters, on hosts of three platforms, with the marker
  directory redirected or not. Right means: a cleanup that reports success has
  left nothing behind and has taken nothing that was another technique's, and
  the rule shipped with a technique matches the events shipped with it.
- *Scenario loader.* The directory changes between and during calls, and the
  cache key is a count, an mtime and a size. Right means: an undisturbed call
  answers what the directory holds.
- *Smoke.* It shares the planner with everybody else. Right means: it is green
  when dispatch works and nobody interferes, and what it calls green succeeded.

`PROJECT.json` lists these hazards one by one, each with its line and with the
properties that would show it going wrong.

## 2. The modules

| Module | Models | Extends |
|---|---|---|
| `ScenarioDag` | `validate_dag`: unknown ids and cycles. `deps` may name ids that are no steps, as the YAML may. | |
| `Planner` | the planner: one action per method, with the agents as its environment | `ScenarioDag` |
| `ScenarioDagProofs` | `validate_dag` is right; least and greatest numbers | `ScenarioDag`, `TLAPS` |
| `PlannerProofs` | theorems about `Planner` | `Planner`, `ScenarioDagProofs` |
| `Orchestrator` | the handlers of agents, operators and admin, call by call, over the planner, the flag and the store | `Planner` |
| `OrchestratorProofs` | theorems about `Orchestrator` | `Orchestrator`, `PlannerProofs` |
| `Campaigns` | one campaign record under the scheduler and request threads, one access at a time | |
| `CampaignsProofs` | theorems about `Campaigns` | `Campaigns`, `TLAPS` |
| `AuditLog` | `append` with its failures and its write in parts, `verify`, the scan at startup | |
| `AuditLogProofs` | the log's inductive invariant | `AuditLog`, `TLAPS` |
| `EventFeed` | the abstract specification of the live stream | |
| `EventBus` | bus and websocket handler, refining `EventFeed` | `INSTANCE EventFeed` |
| `AuditStream` | log and bus in one process, over restarts | `AuditLog`, `EventBus` |
| `AuditStreamProofs` | theorems about log and bus together, and the refinement of `EventFeed` | `AuditStream`, `AuditLogProofs` |
| `AgentBeacon` | the beacon loop | |
| `LocalRunner` | `run-local` | `ScenarioDag` |
| `AgentCli` | the two commands of the agent's program | `AgentBeacon`, `LocalRunner` |
| `AgentCliProofs` | theorems about both commands | `AgentCli`, `ScenarioDagProofs` |
| `Sigma` | the rule evaluator of `detection.py`, and the shapes of the simulator's rules | |
| `Telemetry` | the rule and the synthetic events of each technique | `Sigma` |
| `Markers` | the outcomes of `run` and `cleanup` of each technique | `Telemetry` |
| `Host` | runs and cleanups on one host, and the detection verdict | `Markers` |
| `ScenarioLibrary` | the directory of scenario files and the loader with its cache | |
| `ScenarioBuilder` | batches of scenario variants and catalog scale packs | `ScenarioDag` |
| `Maturity` | score and label while an author improves a scenario | |
| `Smoke` | the multi-agent smoke among the other users of the planner | `Planner` |
| `LabTools` | those five side by side, for one run: a behaviour is one at work | `Host`, `ScenarioLibrary`, `ScenarioBuilder`, `Maturity`, `Smoke` |
| `LabToolsProofs` | theorems about all five | `LabTools`, `PlannerProofs` |
| `MC...` | plans, platforms and symmetry for TLC | the module of that name |

**Planner.** `runs` is `_runs` in insertion order, each run with its `status`,
`step` statuses and `agent` assignments. A scenario is a record: the number of
steps, their dependencies, the steps with `abort_on_fail`, the platforms.
Beyond the code's state there are `held` (the task each agent is executing),
`lost` and `cutShort` (history: reports that were lost; steps `abort_all` took
while an agent was executing them) and `retries`. `report_result` is modelled
for the results agents really send: an agent reports the task it was given, at
most once, whatever has happened to the run meanwhile.

**Orchestrator.** `todo[c]` holds the calls that the request of client `c` has
still to make, so that handlers interleave exactly between their calls.
`Beacon` decides on the killswitch and `BeaconTask` dispatches later; `Result`
is the planner's call and the rest of the handler follows as `step`, `sync`,
`status` and `run` calls: the run's status is read once to decide (`SyncRunCall`)
and once more for the row (`RunStatusCall`). `RunScenario` looks at the killswitch
before it starts a run; the starts of the campaign tick and of retry-failed
(`StartForCampaign`) do not. `db` holds the rows; the step instance and its queue entry, which
the code updates together, are one record. A run that is in the planner but not
yet in the store is modelled (`NoRow`), and updates of it do nothing, as in the
code. `since` counts what each agent was given since the last engagement.

**Campaigns.** `todo[t]` holds labels of the lines a thread has still to
execute; `mine[t]` are the run ids of `_launch_campaign_runs` or of the retry
loop that are not in the record yet, `verdict[t]` the status that
`_campaign_summary` has computed, or a retry-failed with nothing to retry has
read (`KeepStatus`), and that is not written yet. The report of a campaign has
its summary in it, without a tick (`ReportCampaign`).

**AuditLog.** A digest is the sequence of events that it chains over, since all
the log relies on is that a hash determines its entry and what is before it.
`open` says that the file does not end in a newline, so that the next write
runs into the same line and garbles it. `writing` says how far the `append`
that holds the lock is:

| Action | Code | `writing` |
|---|---|---|
| `AppendWrites` | the whole line reaches the disk (`audit.py:64-65`) | "none" to "whole" |
| `AppendBegins`, `AppendEnds` | a line longer than the buffer does so in two parts | "none" to "part" or "glued" (to an open line), then "whole" |
| `AppendReturns` | `_last_hash` moves, the publishers are called, `append` returns (66-72) | "whole" to "none" |
| `AppendFails` | the write raises, with nothing, a part or all but the newline on the disk | to "none" |
| `Restart` | the process dies at any of these points; the new one scans the file | to "none" |

`verify`, that takes no lock, may read at each of them. A restart at "whole"
leaves an entry in the log whose `append` neither returned nor published: the
log verifies, with one line more than was acknowledged, and the chain goes on
behind it. `acked` are the events whose `append` returned, in order.

**AuditStream.** `append` publishes while it holds the log's lock, after the
entry is written (`Appended`, which is `AppendReturns` with the bus's `Publish`).
A restart takes the bus and its connections down; connections made later see
what is published after it.

**EventBus.** `publish` schedules one callback per subscriber at the end of the
loop's queue; `SafePut` runs the oldest. `conn` follows the websocket handler:
`hello` lies outside its `try`, so a connection that dies there stays
subscribed.

**AgentBeacon.** `at` is where the loop is. The environment moves the stop
flag, the TTL, and the network; the orchestrator answers anything. `late`
counts the TTPs run after the flag was raised or the TTL ran out.

**Sigma, Telemetry, Markers, Host.** A rule is data: selections of items
(field, modifier, targets) and a condition. A text is the sequence of its pieces
that some rule names, so that "contains", "startswith" and "endswith" are
decided piece by piece. `T...Rule` and `T...Events` transcribe each technique's
`sigma_rule` and `synthetic_events`, with underscores for what is no letter in a
field's name and for the spaces of a command; `T...Run` and `T...Cleanup` are the sets of
outcomes of its `run` and `cleanup`: how it ends, what is left or removed, which
artifacts are listed. A file is a directory, a stem, a number and an ending; a
number stands for the second or the random name in it. Registry values and
scheduled tasks are files of directories of their own. `Host` applies them to
`disk` in any order; `dirty` and `stuck` are history: runs not cleaned up since,
and files whose unlink was refused by a cleanup that answered ok.

**ScenarioLibrary.** `folder` maps files to bodies and mtimes; `load` is the
call under way, with the signature it took before reading. Files are written
with a new mtime, or come with an old one (`RestoreFile`), which is what the
key cannot tell; `backdated` remembers that one did. The files still to be
read are a set, and the least is read next, which is the order of the sorted
list of paths.

**ScenarioBuilder.** `Variant` takes an index apart as
`build_scenario_variant` does; the draws of `build_scenario` are free, so that
`invalid` stays FALSE only if no draw gives a scenario `validate_dag` rejects.
`pack` grows item by item, as a scale pack is expanded. `platform_sets` is given
by the place of each combination: as many as are `Shorter` come before it.

**Maturity.** `scen` holds what is scored and `proof` the fields of the evidence
entry; the actions are the improvements an author makes. Points are in units of
1/10000, so that `detection_percent * 0.18` is a whole number.

**Smoke.** `smoke` is where `run_multi_agent_smoke` is, between two calls of the
planner or the store; `kept` is what it writes about its own run; `meddled` and
`cleared` remember what others did.

## 3. The runs

| Run (cfg) | Question | Properties |
|---|---|---|
| `planner_one_run` (PlannerOneRun) | one run of each scenario shape, two agents, lost and late results, pauses, aborts, two retries | `TypeOK`, `RunStatusMatchesSteps`, `AbortCascadeComplete`, `OpenRunHasNoAbortedStep`, `DispatchedStepHasOwner`, `DoubleExecutionOnlyAfterAbort`, `StuckOnlyBehindToleratedFailure`, `DispatchAfterSuccess`, `SettledUnlessCutShort` |
| `planner_live` (PlannerLive) | two runs, agents of two platforms, fairness: is a run starved by an older one? | `RunningRunIsServed` |
| `orchestrator_safety` (Orchestrator) | all handlers interleaved | `OrchTypeOK`, `KillswitchStopsDispatch`, `StoredSuccessIsTrue`, `AttemptsBoundedByRetries` |
| `orchestrator_live` (OrchestratorLive) | does an engaged killswitch drain the runs? | `KillswitchDrains` |
| `orchestrator_paused` | finding 1 | `KillswitchAbortsEveryActiveRun`, violated |
| `orchestrator_finished` | finding 2 | `StoredFinishedIsTerminal`, violated |
| `audit_stream` (AuditStream) | appends, failures, torn and split writes, restarts in and between appends, one change from outside; publishers, loop, queues, connections | `StreamTypeOK`, `UntouchedLogVerifies`, `ValidLogIsComplete`, `TamperingIsDetected`, `NoGapWithoutDrop`, `StreamedEventsAreLogged`, `FeedRefined`, `EventsReachOpenConnections` |
| `campaigns` (Campaigns) | scheduler and two request threads | `CampTypeOK`, `EveryRunAccounted`, `StoredRunsArePrefix` |
| `campaigns_repeat` | finding 3 | `RepeatsAreRequeued`, violated |
| `agent_cli` (AgentCli) | the beacon loop in any environment; `run-local` over every scenario of up to three steps | `BeaconTypeOK`, `AtMostOneLateTask`, `RejectedIffIllFormed`, `ExecutedInDagOrder`, `RunObeysStop`, `RunGivesUp` |
| `agent_cli_abort` | finding 4 | `AbortStopsTheRun`, violated |
| `lab_tools` (LabTools) | techniques on a host, loader, generators, maturity and smoke, each by itself | `LabTypeOK`, `LeftoversAreOfUncleanedRuns`, `OnlyOwnMarkersRemoved`, `RunIsDetected`, `LoadIsFresh`, `GeneratedLoadsInFull`, `MaturityNeverDrops`, `SmokeVerdict` |

Each property is stated in words above its definition. Every property of a
passing run has a mutation in `PROJECT.json`, a plausible bug in one of the
modelled definitions under which TLC finds it violated.

What the passing runs show, in short. The planner is consistent under any order
of late results, aborts, pauses and retries. Two agents execute the same step
only after `abort_all` and a retry. A success is undone only by a late result
of that very step: after `abort_all` took it from one agent, and a retry gave it
to another, both report on it, in either order, and the later result wins. Only
a retry reopens a closed run, and only such a late result gives it another
verdict. A run
that cannot go on waits behind a failed step without `abort_on_fail`, whose
dependents stay queued for good. After the killswitch is engaged each agent
gets at most the one task its beacon was already asking for, although retries
and the starts of campaigns do not look at the flag, and other starts not again.
A "valid" audit log has every event whose append returned, in the order of the
calls, though entries of appends that did not return may lie in between: the log
recovers from writes that fail with nothing
written, while a torn line makes `verify` fail or raise for good. A connection
misses an event only after its queue was full. Campaign launches and retries
that overlap lose no run, and the row written last always holds a beginning of
the list. Nothing is streamed whose append does not return, and a valid log has
all of it. A cleanup that succeeds
removes what runs with its parameters left, failed ones included, but for the
tools of T1105 whose unlink was refused and the marker of T1070.004; no cleanup
takes another technique's marker. Every technique's rule sees its own events
unless the run was pointed elsewhere (of the catalog this is checked of a
generated entry, see section 6). The loader answers what the directory
holds unless a file came with an old mtime. A batch never loses a variant to a
name it used already, nor to an invalid draw.

**Bounds.** One or two runs, at most three steps, two agents: a hazard of the
planner takes a step, a second one behind it, and a second agent that gets the
step again after a retry; "fork" has siblings, one with `abort_on_fail` behind
it and one without, "pair" has file order against DAG order, "empty" has no
steps. Two retries let a step be cut short, retried, and retried again under a
late result. `planner_live` needs two runs, one of which an agent cannot serve.
In `Orchestrator` one step, one run, one retry and one engagement suffice for
the order of the calls of four clients, which is what the module is about (its
"guard" plan, with a cascade, is used for finding 2). `AuditStream`: three appends give
an entry before and one after each failure; queues of one event, two connections
and three events fill up and drain again. `Campaigns`: two launches, or a
launch and a retry, next to the scheduler; more runs or names multiply the
same interleavings. `LabTools`: two runs, with two stamps and two directories or
names, are what one technique needs to clean up, or another to spare; three
changes of two files write, overwrite and remove around one reading; the variant
space has two actors, difficulties and seeds, three platform combinations and
four step counts, with strides of one, of a row and of a whole digit, and the
scale pack goes once round its axes and begins again; maturity drafts lie at zero, in
the middle and one short of the limits of each term; five acts of others let
a real agent, a second run, a pause, an abort and a retry come between the calls
of the smoke. `LocalRunner`: all DAGs, cycles and self-loops of three
steps, unknown ids, and every placement of a failure in them.
Every bound is a CONSTANT or a guard on one; `CHECK_DEADLOCK FALSE` is set
since every bounded system ends, and agents exit.

**Fairness.** `Fairness` (planner): an agent beacons again and again while it
holds no task, and a task ends in a report or a lost one, because TTPs are
executed under timeouts and requests time out. No fairness is assumed of
operators, nor between losing and reporting. `OrchFairness`: a handler that has
begun runs to its end (no call blocks: locks are held for one method), and an
agent that was not told to stop beacons on. `BusFairness`: the event loop runs
its callbacks, and an open connection's loop is scheduled; nothing makes a
connection open or close. `CliFairness`: the agent's process runs; its sleeps
end, its requests time out after 20 s and its TTPs return or raise. The network
and the flags are under no fairness.

## 4. Findings

1. **Paused runs survive the killswitch** (`orchestrator_paused`).
   `abort_all` (`core/planner.py:184`) takes runs with status "running" only;
   the docstring (`core/planner.py:4`) promises "every active run" and
   `execution_engine_v3.py:45` counts paused runs as active. A run paused
   before the engagement goes on when it is resumed after it.
2. **A paused run is stored as finished** (`orchestrator_finished`). The result
   handler (`api/agents.py:123`) writes the status of a run that is not
   "running" as a finished one; "paused" is not running. The row then says
   `paused` with `finished_at` set and its cleanup closed; resuming does not
   undo it.
3. **Repeats get lost** (`campaigns_repeat`). `_campaign_summary`
   (`api/scenarios.py:815`) closes a campaign whose runs are over; the tick
   requeues only campaigns still "running". A query that comes first (the campaign
   report, or a GET whose own tick came before the last run ended) ends the
   repetition with repeats left, until a resume or a retry reopens the campaign.
4. **`run-local` goes on after [ABORT]** (`agent_cli_abort`). The `break`
   (`agent/main.py:135`) leaves the inner loop only. The failed step counts as
   completed, so the next pass runs its dependents.

Seen while modelling, without a run of their own: `scheduled_at` is never
cleared, so resuming a campaign that was scheduled once schedules, and
launches, it again; two ticks at the same time (the scheduler's and a GET's)
can both launch the same due campaign, and a launch that overlaps a pause
overwrites it; `disengage` cannot clear `APT_SIM_STOP`; a run without steps
never completes, and nothing says what its status should be; a websocket
connection that dies while `ws.hello` is sent leaves its queue on the subscriber
list for good; `engage` closes the cleanup entries of an aborted run and then
sets those of its aborted steps to pending again; a step dispatched before
`create_run` has written its rows stays "queued" in the store until its result;
a restart forgets all runs; a step whose report was lost stays dispatched, and
`retry_failed_steps` does not touch it. The smoke may answer ok although one of its three agents was given a step of
another run, and reported that as a success, if a real agent did the smoke's
step; and although one of its steps was aborted, if `abort_all` came between a
dispatch and its report, whose success makes the aborted run "completed". The
store's cleanup entries become "complete" although nothing in the program calls
a technique's `cleanup`. With `APT_SIM_MARKER_DIR` set the rule of T1070.004
does not match its own events (they lie outside `sim_artifacts`), nor that of
T1105; without it, the rule of T1105 misses a host whose temporary directory is
elsewhere (macOS) and a `.sh` on Windows. The 75-point cap on an emulation plan
without evidence (`scenario_maturity.py:147`) never bites: such a plan has 74
points at most. `and not (...)` and a second `and not` are evaluated as if the
filter were absent (`detection.py:117`), though line 14 says unknown conditions
are no match; none of the simulator's rules has one. Two results for one
dispatch share a row of `_build_run_steps` (`detection_diff.py:55`). The
models contain all of these except the last two, the environment variable of
the killswitch and the restart of the planner; the properties are stated so that they hold with
them.

## 5. Proofs

TLC checks small instances; the theorems hold for every value of the constants:
any agents, scenarios, plans, platforms, clients, connections, events, files,
and any bounds on runs, retries, requests and restarts. `tlapm X.tla` checks
those of module X.

**Planner** (`PlannerProofs`; `SafetySpec` is `Spec` without its fairness)

| Theorem | States |
|---|---|
| `PlannerTypeOK` | `SafetySpec => []TypeOK` |
| `PlannerInvariant` | `SafetySpec => []IInv` |
| `PlannerRunStatus` | `SafetySpec => []RunStatusMatchesSteps` |
| `PlannerAbortCascade` | `SafetySpec => []AbortCascadeComplete` |
| `PlannerNoAbortedStepInOpenRun` | `SafetySpec => []OpenRunHasNoAbortedStep` |
| `PlannerDispatchAfterSuccess` | `SafetySpec => DispatchAfterSuccess` |
| `PlannerTasks` | `SafetySpec => []TaskInv` |
| `PlannerDispatchedHasOwner` | `SafetySpec => []DispatchedStepHasOwner` |
| `PlannerDoubleExecution` | `SafetySpec => []DoubleExecutionOnlyAfterAbort` |
| `PlannerSettled` | `SafetySpec => SettledUnlessCutShort` |
| `PlannerStuck` | `SafetySpec => []StuckOnlyBehindToleratedFailure` |

None of the three run invariants is inductive by itself. A result can close a
run only because `AllTerminal` is computed after the cascade; that an open run
has an unsettled step survives `retry_failed_steps` because it resets every
aborted step, so it needs that no open run has an aborted one; and a retry keeps
the cascade complete because failed and skipped steps are all reset with it.
`RunInv` is the conjunction of the three for one run. For each method there is a
lemma that it preserves `RunInv` on one run, whatever the run's status
(`ReportedInv`, `RetriedInv`, ...), and `IInv` adds the type invariant and the
fact that the plan of every run passed `validate_dag`, which is needed to know
that a dependency is a step of the same run. `DispatchAfterSuccess` is stronger
than the guard of `next_task_for_agent`, which also accepts "skipped": by
`AbortCascadeComplete` no step is queued where one is skipped.

`TaskInv` adds to the two properties about tasks that the step of a held task is
dispatched until `abort_all` takes it: without that a second agent could be
given the step while the first still has it. `PlannerSettled` excepts single
results, not runs: the reporting agent's task is the very step whose outcome
changes, and the step is in `cutShort` and does not wait for that agent
(`LateResult`). `PlannerStuck` needs that a plan
which passed `validate_dag` has a step none of whose dependencies is queued,
whatever set of its steps is queued; that is where acyclicity is used.

**`validate_dag`** (`ScenarioDagProofs`)

| Theorem | States |
|---|---|
| `ValidateDagIsRight` | for a plan of any length, the rounds of `validate_dag` empty the graph (`Acyclic`) just when no step depends on itself through whatever chain (`DependsOn`) |

`Acyclic` is a recursive function (Kahn's rounds), and the provers cannot
instantiate the library's induction theorems. What works, here and wherever a
proof needs an induction, is the smallest counterexample: the library's
`WFMin`, a first-order statement, gives the least number for which the claim
fails (`SmallestNat`), and that number is contradicted. `RoundsExist` shows in
this way that the recursive function exists, `RoundsShrink` and its neighbours
what it computes.

**Handlers, killswitch and store** (`OrchestratorProofs`)

| Theorem | States |
|---|---|
| `OrchestratorInvariant` | `OrchSafetySpec => []OrchIInv` |
| `HandlersImplementPlanner` | `OrchSafetySpec => SafetySpec` |
| `OrchestratorTypeCorrect` | `OrchSafetySpec => []OrchTypeOK` |
| `DispatchStopsWithTheKillswitch` | `OrchSafetySpec => []KillswitchStopsDispatch` |
| `StoredSuccessesAreTrue` | `OrchSafetySpec => []StoredSuccessIsTrue` |
| `AttemptsAreBounded` | `OrchSafetySpec => []AttemptsBoundedByRetries` |

`HandlersImplementPlanner` is the refinement: each call a handler makes is a
step of the planner or leaves it alone, so all theorems about the planner hold
of the orchestrator, however the handlers interleave. `OrchIInv` speaks of the
calls that are still to come, since what is wrong in the store a moment later is
in a handler's hands now: a call that will store a success stores one the
planner has or `abort_all` has overtaken (`GoodCall`); an agent that got a task
since the engagement has no question to the planner left (`StopInv`); and the
attempts stored, with the dispatches that are not recorded yet, are at most one
more than the retries, not even that while the step is queued (`AttemptInv`).

**Log, bus and stream** (`AuditLogProofs`, `AuditStreamProofs`)

| Theorem | States |
|---|---|
| `StreamInvariant` | `StreamSpec => []StreamIInv` |
| `StreamTypeCorrect` | `StreamSpec => []StreamTypeOK` |
| `UntouchedLogsVerify` | `StreamSpec => []UntouchedLogVerifies` |
| `ValidLogsAreComplete` | `StreamSpec => []ValidLogIsComplete` |
| `TamperingIsAlwaysDetected` | `StreamSpec => []TamperingIsDetected` |
| `GapsMeanDrops` | `StreamSpec => []NoGapWithoutDrop` |
| `StreamedEventsAreInTheLog` | `StreamSpec => []StreamedEventsAreLogged` |
| `StreamRefinesFeed` | `StreamSpec => FeedRefined` |

`AuditIInv` says what the file looks like as long as nothing spoiled it: a chain
of events in the order of the calls, each acknowledged one among them, whose last
line may be open, or whole and not acknowledged yet (or ever, if the process dies
there). It says that only a torn write spoils an untouched log, and that a change from outside leaves a line
that does not parse or is out of order, or will be when the append that has
begun ends: the last case is why "a change is noticed at once" is not inductive.
`BusIInv` orders everything under way to a connection: what it has is before
what is scheduled for it, and both in order; only so is the oldest callback the
event it misses. `StreamIInv` joins the two by `PublishedIsAcked`: an event is
published just when its append returns. `StreamRefinesFeed` maps each step of
bus and websocket to a step of `EventFeed` or to a stutter, and proves the
refinement without its fairness; the liveness of the feed stays with TLC.

**Agent and `run-local`** (`AgentCliProofs`)

| Theorem | States |
|---|---|
| `CliInvariant` | `CliSpec => []CliIInv` |
| `BeaconTypeCorrect` | `CliSpec => []BeaconTypeOK` |
| `AtMostOneTaskIsLate` | `CliSpec => []AtMostOneLateTask` |
| `RejectedAsIllFormed` | `CliSpec => []RejectedIffIllFormed` |
| `LocalRunIsInDagOrder` | `CliSpec => []ExecutedInDagOrder` |

A late TTP can be followed by no second one because the loop is then on its way
to its top, where the stop is seen: `BeaconIInv` says where it can be. The
second half speaks of executed and remaining steps, and of the results in their
order; that a pass over an accepted scenario always finds a step to run, and a
rejected one does contain a cycle or an unknown id, is `ValidateDagIsRight`.

**Campaigns** (`CampaignsProofs`)

| Theorem | States |
|---|---|
| `CampaignInvariant` | `CampSpec => []CampIInv` |
| `CampaignTypeCorrect` | `CampSpec => []CampTypeOK` |
| `CampaignAccountsForRuns` | `CampSpec => []EveryRunAccounted` |
| `CampaignRowIsPrefix` | `CampSpec => []StoredRunsArePrefix` |

For any finite number of request threads. `CampAccounts` divides the runs that
were started among the record and the threads that have not added theirs yet,
each in one place and once. The remaining repeats may go below zero, since
several ticks may have seen the same last repeat: what is inductive is that they
are never fewer than the decrements decided on, less the threads there are.

**Techniques, smoke, loader, generators and maturity** (`LabToolsProofs`)

| Theorem | States |
|---|---|
| `SmokeInvariant` | `LabSpec => []SmokeIInv` |
| `SmokeVerdictIsRight` | `LabSpec => []SmokeVerdict` |
| `LoaderInvariant` | `LabSpec => []LibIInv` |
| `LoadsAreFresh` | `LabSpec => []LoadIsFresh` |
| `BuilderInvariant` | `LabSpec => []BuilderIInv` |
| `BatchesLoadInFull` | `LabSpec => []GeneratedLoadsInFull` |
| `MaturityInvariant` | `LabSpec => []MatIInv` |
| `MaturityOnlyRises` | `LabSpec => MaturityNeverDrops` |
| `HostInvariant` | `LabSpec => []HostIInv` |
| `LeftoversExplained` | `LabSpec => []LeftoversAreOfUncleanedRuns` |
| `CleanupsKeepToTheirOwn` | `LabSpec => OnlyOwnMarkersRemoved` |
| `DetectionInvariant` | `LabSpec => []DetectIInv` |
| `RunsAreDetected` | `LabSpec => []RunIsDetected` |
| `ExceptionsAreMissed` | each exception of `RunIsDetected` has a run whose events its rule misses |
| `LabTypesHold` | `LabSpec => []LabTypeOK` |

The smoke's invariant is over that of the planner, whose methods it and the
others call (`SmokeIsPlannerStep`): `Alone` says exactly how far the smoke's run,
the tasks held and what it wrote have come, as long as nobody meddled.

`LibIInv` says that what is cached, and what a call under way has read, belongs
to some directory `d` that was there at some tick `t`, and that since then each
file is as it was in `d` or newer than all of `d`, unless a file came with an
old mtime. From that it follows that a directory with the same signature *is*
`d`: a newer file would change the newest mtime, and without one the count
leaves no file out (`SameSignature`). This needs neither the size in the key nor
any assumption on it. `Added` is a fold over the scenarios of a file; that it
gives each name the last scenario of that name (`AddedIs`) is again proved by
the smallest counterexample.

`BuilderIInv` says that the variants done are those of the indices of the call,
in order, and that the next one depends on earlier steps only, so that the least
step of a cycle would contradict itself (`BackwardIsValid`). That no two indices
below `TotalVariants` have one name is a fact about numbers: an index is a
number with five digits, dividing out one after the other (`DigitDividedOut`),
and the name gives back each of them from the actor down (`NamesAreDistinct`).
The last one is the place of a set in `platform_sets`; it is told by the set
since the order `Shorter` is total and each place is taken by one combination
(`PlatformSetsAre`). The items of a scale pack count in a mixed radix in the same
way (`AxesTellTheItem`): two that agree in every axis are a full turn apart.

`MaturityOnlyRises` needs that rounding a fraction keeps the order of fractions
(`RoundedKeepsOrder`, though halves go to the even neighbour), that a step with
a rule raises the percentage of steps with one, and a case for each kind a
scenario may turn from and into, for its cap: evidence lifts the cap of a plan,
the tag "validated" that of a variant.

The techniques are gone through one by one: `RunsLeaveMarks` says what the run
of each may leave however it ends (`Marks`), `CleanupsTakeMarks` that its
cleanup, if it is ok, misses none of that on the disk in the directory it is
given, and touches nothing else. The two meet in `TechniqueOf`: the name and the
place of a marker tell its technique (`MarksTell`), so that a pattern of one
cleanup never matches the marker of another. `HostIInv` adds to the property
that every file, the stuck ones too, is one that some technique leaves; without
that, a glob might meet a file of which nothing is known.

`RunsAreDetected` has three layers. Of the evaluator, what makes an item match
(`IsMatches`, `HasMatches`, `EndsMatches`, ...) and what makes a rule match once
its items do, by the shape of its condition (`PlainMatches`, `OneOfMatches`,
`FilteredMatches`, ...). Of each technique, that its rule matches one of its
events (`T1005Detected` to `CatalogDetected`): for the six whose events show the
artifacts of the result (`ShowFiles`), whatever list of files of the right kind
they are given. Of the runs, `DetectIInv`: what a run that ended ok lists is of
that kind (`OkRunsList`), on every disk and at every time. The exceptions of
`RunIsDetected` are the hypotheses of these lemmas: `T1070Detected` asks that no
marker directory of the lab's own is set, `T1105Detected` that the tool lies in
the temporary directory of Windows or Linux and is a program on Windows,
`T1021001Detected` and `CatalogDetected` that the port and the source are the
rule's. None of them is there for convenience: `ExceptionsAreMissed` gives for
each a run whose verdict is a gap.

**Assumptions.** Those the modules declare, all evaluated by TLC on the runs:
`NoAgent`, `NoTask`, `NoLine` and `Garbled` are markers outside the sets they
are added to; a plan has a natural number of steps, sets of naturals as
dependencies and its own steps as `abort_on_fail`; agents, operators and the
admin are different clients; the clients of a campaign are finitely many;
the failure limit of the beacon and the capacity of a queue are not zero; the
smoke's scenario is the one `build_multi_agent_smoke_scenario` makes, and its
three agents have the platforms it asks for and are nobody else's; the paths of
scenario files are ordered as naturals, and a body is a list of scenarios;
actors, difficulties and the platforms of the pool are listed without
repetition, and axes and strides are not zero; a draft has no more rules and
tactics than steps; the bounds are naturals.

**What stays with TLC.** Liveness under fairness (`RunningRunIsServed`,
`KillswitchDrains`, `EventsReachOpenConnections`, `RunObeysStop`,
`RunGivesUp`), which the provers cannot do. Every safety property, invariant or
action property, that a passing run checks is stated by a theorem.
The properties of the four violated runs are refuted, of course, not proved.


## 6. Abstractions

- Tasks, events and scenarios carry the identity the properties need, not their
  payload. Signatures are good, bad or absent.
- *Orchestrator.* Registration and listing are left out: an agent of the model
  is registered. The store's agents, logs and artifacts are left out; they are
  not read back into a decision. The store itself never fails, and each method of
  `Repository` is one step. Some of them read a row and write it back in one
  session (`storage/db.py:204-250`, `286-322`), and SQLite would let two of them
  on the same row overlap and lose an update; that is not modelled. The rule
  about attempts is an upper bound, which a lost increment respects.
- *Campaigns.* The planner is seen run by run; "closed" stands for completed
  and aborted, which campaigns never tell apart. The runs a tick or a summary
  looks at are read in one step, and so are the arguments of a row write
  together with its transaction. Only the row's run ids are kept, not its
  status. A launch whose scenarios cannot be loaded is left out.
- *AuditLog.* One process appends. Moving `_last_hash`, publishing and returning
  are one step: in between nothing can be told apart from outside, since `verify`
  does not read `_last_hash`, the lock is held, and what was put into the bus dies
  with the process. A write that raises after its whole line with the newline is
  on the disk (the file's `close` failing last) is left out. A change from outside is an edit of an
  entry's content or the removal of a line with a successor; removal of the
  last lines is not noticed by a hash chain and is not claimed to be.
- *EventBus.* Heartbeats and the authentication of the socket are left out.
- *AgentBeacon.* The environment answers anything; the composition with
  `Orchestrator` is by the latter's agents, which behave like this loop.
- *Sigma.* Only the shapes of condition the simulator's rules have; a count is
  assumed met, `detection.py` counts nothing either.
- *Telemetry.* One generated scale entry stands for the catalog. The rules and
  events of the entries written by hand in the catalog's YAML are data (single
  selections with "endswith", "contains" and "all"), which run through the same
  code and are not checked one by one; `RunIsDetected` says nothing of them.
- *Markers.* What a probe of the host finds or a server answers is free; the
  content of a marker is left out, and so are artifacts that only name what was
  found. The process is not killed in the middle of a run.
- *ScenarioLibrary.* The directory exists; listing and stat of all files are one
  step; the clock ticks at each change (a second write within one tick is a
  `RestoreFile`).
- *ScenarioBuilder.* Which of the eligible techniques a scenario samples is left
  out, how many is not. The arguments of a batch are in range.
- *Maturity.* Binary rounding errors are left out. The lists an item repeats from
  the evidence, and the totals of the report, are not scored.
- *Smoke.* The store's row of its own run, as the smoke writes it, and no other;
  what the handlers of others write is in `Orchestrator`.
- *LocalRunner.* A TTP succeeds, fails, is not registered, or raises.

## 7. Not modelled

Authentication and roles (a check of each request by itself), the payload signer
(a library's Ed25519; the agent's use of it is in `AgentBeacon`), configuration
and wiring, SIEM connectors and telemetry (HTTP clients), imports and catalogs
(conversion of external formats), replay, fuzzing and backup (offline commands),
the dashboard, tools and packaging. Partly modelled: of the detection code the
evaluator and the verdict of the diff, not the matrix, workbench and exports; of
the readiness reports the maturity score, not the enterprise and platform
reports, which count files and records; of the builder the batches, not the
profiles and the single-scenario command. `PROJECT.json` gives the reason for
each. What is left has no state that outlives a call.

## 8. Plan

Done, in this order because the planner carries the system: `Planner` and its
first proofs, `Orchestrator`, `AuditLog`, `EventBus`, `Campaigns`, the agent;
then `AuditStream`, the techniques, the loader, the generators, maturity and the
smoke; then the proofs of section 5.

Left to do: nothing of the plan. What would be worth adding is in section 7, the
single-scenario command and the profiles first.
