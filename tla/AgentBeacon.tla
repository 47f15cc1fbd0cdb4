---------------------------- MODULE AgentBeacon ----------------------------
(***************************************************************************)
(* The agent's beacon loop (agent/beacon.py) with its checks                *)
(* (agent/safety.py) and its execution of a task (agent/runtime.py, with    *)
(* core/safety_policy.py).  The orchestrator and the network, the stop flag  *)
(* and the clock are the environment.                                       *)
(***************************************************************************)
EXTENDS Naturals

CONSTANTS
    MaxFailures,   \* Beacon.max_failures
    NoTask         \* no task in hand

ASSUME MaxFailuresAssumption == MaxFailures \in Nat \ {0}

VARIABLES
    up,         \* the orchestrator can be reached
    stopFlag,   \* data/STOP exists, or APT_SIM_STOP=1
    expired,    \* the TTL has run out
    key,        \* Beacon.public_key is set
    at,         \* where the loop is
    task,       \* the task in hand
    failures,   \* Beacon.failures
    late        \* history: TTPs run since stopFlag or expired

beaconVars == <<up, stopFlag, expired, key, at, task, failures, late>>

\* "poll" is the top of the loop; at "ask" its checks are passed.
LoopState == {"start", "register", "poll", "ask", "execute", "report", "sleep", "exited"}

\* What host_in_whitelist looks at.
Host == [override : BOOLEAN, file : BOOLEAN, allowAny : BOOLEAN,
         hostname : BOOLEAN, address : BOOLEAN]

\* A task: its signature, whether its TTP is registered and supports the
\* platform, whether live_mode is asked for and authorized.
Task == [signature : {"none", "good", "bad"}, registered : BOOLEAN,
         supported : BOOLEAN, live : BOOLEAN, authorized : BOOLEAN]

HostInWhitelist(h) == h.override \/ (h.file /\ (h.allowAny \/ h.hostname \/ h.address))

\* verify_task: without a public key a signed task is refused as well.
VerifyTask(t) == t.signature = IF key THEN "good" ELSE "none"

\* SafetyPolicy.validate, for a TTP of a known tier.
PolicyAllows(t) == t.live => t.authorized

\* Verified, _execute_task gets through execute as far as ttp.run.
RunsTTP(t) == VerifyTask(t) /\ t.registered /\ t.supported /\ PolicyAllows(t)

-----------------------------------------------------------------------------
\* The beginning of loop: the local killswitch, then the whitelist.
Startup ==
    /\ at = "start"
    /\ \E h \in Host :
         at' = IF stopFlag \/ ~HostInWhitelist(h) THEN "exited" ELSE "register"
    /\ UNCHANGED <<up, stopFlag, expired, key, task, failures, late>>

\* register: an error ends the program, since nothing catches it here.
Register ==
    /\ at = "register"
    /\ \/ up /\ at' = "poll" /\ key' \in BOOLEAN
       \/ at' = "exited" /\ UNCHANGED key
    /\ UNCHANGED <<up, stopFlag, expired, task, failures, late>>

\* A mutation of CheckStop: the TTL is forgotten.
CheckStopNoTtl ==
    /\ at = "poll"
    /\ at' = IF stopFlag THEN "exited" ELSE "ask"
    /\ UNCHANGED <<up, stopFlag, expired, key, task, failures, late>>

\* The top of the loop.
CheckStop ==
    /\ at = "poll"
    /\ at' = IF expired \/ stopFlag THEN "exited" ELSE "ask"
    /\ UNCHANGED <<up, stopFlag, expired, key, task, failures, late>>

\* The TTP of the task in hand is run, or not; late counts the late ones.
Late == late' = IF RunsTTP(task) /\ (stopFlag \/ expired) THEN late + 1 ELSE late

\* A mutation of RoundFails: the agent never gives up.
RoundFailsForever ==
    /\ at \in {"ask", "execute", "report"}
    /\ IF at = "execute" THEN RunsTTP(task) /\ Late ELSE UNCHANGED late
    /\ failures' = 1
    /\ at' = "sleep"
    /\ task' = NoTask
    /\ UNCHANGED <<up, stopFlag, expired, key>>

\* Another: one failure too many.
RoundFailsOnceMore ==
    /\ at \in {"ask", "execute", "report"}
    /\ IF at = "execute" THEN RunsTTP(task) /\ Late ELSE UNCHANGED late
    /\ failures' = failures + 1
    /\ at' = IF failures' > MaxFailures THEN "exited" ELSE "sleep"
    /\ task' = NoTask
    /\ UNCHANGED <<up, stopFlag, expired, key>>

\* An exception out of _beacon_once: the beacon fails or is answered with an
\* error status, the TTP raises, the report cannot be sent.  Whatever task was
\* in hand is forgotten.
RoundFails ==
    /\ at \in {"ask", "execute", "report"}
    /\ IF at = "execute" THEN RunsTTP(task) /\ Late ELSE UNCHANGED late
    /\ failures' = failures + 1
    /\ at' = IF failures' >= MaxFailures THEN "exited" ELSE "sleep"
    /\ task' = NoTask
    /\ UNCHANGED <<up, stopFlag, expired, key>>

\* The orchestrator's killswitch is active: SystemExit.
ToldToStop ==
    /\ at = "ask" /\ up
    /\ at' = "exited"
    /\ UNCHANGED <<up, stopFlag, expired, key, task, failures, late>>

ToldIdle ==
    /\ at = "ask" /\ up
    /\ at' = "sleep"
    /\ failures' = 0
    /\ UNCHANGED <<up, stopFlag, expired, key, task, late>>

GivenTask ==
    /\ at = "ask" /\ up
    /\ task' \in Task
    /\ at' = "execute"
    /\ UNCHANGED <<up, stopFlag, expired, key, failures, late>>

ExecuteTask ==
    /\ at = "execute"
    /\ Late
    /\ at' = "report"
    /\ UNCHANGED <<up, stopFlag, expired, key, task, failures>>

\* A mutation of Report: the loop goes on with the next task at once.
ReportAndAsk ==
    /\ at = "report" /\ up
    /\ task' = NoTask
    /\ failures' = 0
    /\ at' = "ask"
    /\ UNCHANGED <<up, stopFlag, expired, key, late>>

\* _report: any response will do, an error status included.
Report ==
    /\ at = "report" /\ up
    /\ task' = NoTask
    /\ failures' = 0
    /\ at' = "sleep"
    /\ UNCHANGED <<up, stopFlag, expired, key, late>>

Sleep ==
    /\ at = "sleep"
    /\ at' = "poll"
    /\ UNCHANGED <<up, stopFlag, expired, key, task, failures, late>>

-----------------------------------------------------------------------------
(* The environment. *)

RaiseStop ==
    /\ ~stopFlag
    /\ stopFlag' = TRUE
    /\ UNCHANGED <<up, expired, key, at, task, failures, late>>

Expire ==
    /\ ~expired
    /\ expired' = TRUE
    /\ UNCHANGED <<up, stopFlag, key, at, task, failures, late>>

NetworkChanges ==
    /\ up' = ~up
    /\ UNCHANGED <<stopFlag, expired, key, at, task, failures, late>>

-----------------------------------------------------------------------------
BeaconInit ==
    /\ up \in BOOLEAN /\ stopFlag \in BOOLEAN
    /\ expired = FALSE /\ key = FALSE
    /\ at = "start" /\ task = NoTask
    /\ failures = 0 /\ late = 0

\* The agent's own steps.
Agent ==
    \/ Startup \/ Register \/ CheckStop \/ RoundFails \/ ToldToStop \/ ToldIdle
    \/ GivenTask \/ ExecuteTask \/ Report \/ Sleep

BeaconNext == Agent \/ RaiseStop \/ Expire \/ NetworkChanges

-----------------------------------------------------------------------------
(* Properties. *)

\* The shape of the agent.
BeaconTypeOK ==
    /\ {up, stopFlag, expired, key} \subseteq BOOLEAN
    /\ at \in LoopState
    /\ task \in Task \cup {NoTask}
    /\ failures \in 0 .. MaxFailures
    /\ late \in Nat

\* After the local killswitch is raised, or the TTL has run out, at most the
\* one task the agent is about to receive or has in hand is still executed.
AtMostOneLateTask == late <= 1

\* An agent whose killswitch is raised or whose TTL has run out exits, whatever
\* the orchestrator answers and the network does.
StopIsObeyed == (stopFlag \/ expired) ~> (at = "exited")

\* An agent whose orchestrator stays out of reach gives up.
GivesUp == <>[](~up) => <>(at = "exited")
=============================================================================
