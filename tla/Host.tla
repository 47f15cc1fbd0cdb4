-------------------------------- MODULE Host --------------------------------
(***************************************************************************)
(* The techniques of src/ttps on one host: runs and cleanups one after the   *)
(* other, with the markers they leave, and the rule of each technique       *)
(* against its events.  What runs them is the agent (AgentBeacon,           *)
(* LocalRunner); cleanup is called by hand, with the parameters of a run.   *)
(***************************************************************************)
EXTENDS Markers

CONSTANTS
    Platforms,        \* platform.system() of the hosts
    Dirs,             \* marker directories, value and task names given to a run
    MaxCalls          \* bound on the runs

ASSUME HostBounds == MaxCalls \in Nat

VARIABLES
    host,      \* the platform, and whether APT_SIM_MARKER_DIR is set
    disk,      \* the files, registry values and tasks of the simulator
    last,      \* what was called last, and how it ended
    dirty,     \* history: the runs since the last cleanup that was ok
    stuck,     \* history: files an unlink of a cleanup that was ok did not remove
    calls      \* the number of technique calls

hostVars == <<host, disk, last, dirty, stuck, calls>>

\* registry: every technique, those of the catalog as one, with its rule.
Techniques ==
    {"T1005", "T1530", "T1560", "T1071.001", "T1105", "T1003", "T1110", "T1027", "T1055",
     "T1070.004", "T1112", "T1016", "T1033", "T1049", "T1057", "T1069.001", "T1082", "T1083",
     "T1580", "T1059", "T1041", "T1048", "T1486", "T1078.004", "T1021.001", "T1021.002",
     "T1053.005", "T1098.004", "T1543.002", "T1547.001", "CATALOG"}

RuleOf(t) ==
    CASE t = "T1005" -> T1005Rule             [] t = "T1530" -> T1530Rule
      [] t = "T1560" -> T1560Rule             [] t = "T1071.001" -> T1071Rule
      [] t = "T1105" -> T1105Rule             [] t = "T1003" -> T1003Rule
      [] t = "T1110" -> T1110Rule             [] t = "T1027" -> T1027Rule
      [] t = "T1055" -> T1055Rule             [] t = "T1070.004" -> T1070Rule
      [] t = "T1112" -> T1112Rule             [] t = "T1016" -> T1016Rule
      [] t = "T1033" -> T1033Rule             [] t = "T1049" -> T1049Rule
      [] t = "T1057" -> T1057Rule             [] t = "T1069.001" -> T1069Rule
      [] t = "T1082" -> T1082Rule             [] t = "T1083" -> T1083Rule
      [] t = "T1580" -> T1580Rule             [] t = "T1059" -> T1059Rule
      [] t = "T1041" -> T1041Rule             [] t = "T1048" -> T1048Rule
      [] t = "T1486" -> T1486Rule             [] t = "T1078.004" -> T1078Rule
      [] t = "T1021.001" -> T1021001Rule      [] t = "T1021.002" -> T1021002Rule
      [] t = "T1053.005" -> T1053Rule         [] t = "T1098.004" -> T1098Rule
      [] t = "T1543.002" -> T1543Rule         [] t = "T1547.001" -> T1547Rule
      [] t = "CATALOG" -> CatalogRule

\* What a call may be given, as far as the technique tells it apart.
Options(t) ==
    CASE t = "T1005" -> {"home", "no_root"}
      [] t \in {"T1530", "T1580"} -> {"aws", "azure", "gcp", "other"}
      [] t = "T1071.001" ->
            {"lab_url", "unknown_mode", "unknown_profile", "public_url", "outside_window"}
      [] t = "T1105" -> {".exe", ".sh"}
      [] t = "T1110" -> {"attempts", "no_attempts"}
      [] t = "T1070.004" -> {"no_path", "outside", "path"}
      [] t = "T1059" -> {"whoami", "hostname", "ifconfig", "ps", "netstat", "other"}
      [] t = "T1041" -> {"lab_url", "public_url"}
      [] t = "T1486" -> {"one_file", "two_files"}
      [] t = "T1078.004" -> {"aws", "other"}
      [] t = "T1021.001" -> {"rdp", "other_port", "no_hosts"}
      [] t = "T1021.002" -> {"hosts", "no_hosts"}
      [] t = "CATALOG" -> {"default", "other_source"}
      [] OTHER -> {"default"}
TakesDir == {"T1530", "T1560", "T1110", "T1055", "T1112", "T1048", "T1078.004", "T1021.001",
             "T1021.002", "T1053.005", "T1547.001", "CATALOG"}
Params(t) ==
    [opt : Options(t), dir : IF t \in TakesDir THEN Dirs ELSE {"sim_markers"}]

RunOutcomes(d, h, t, p) ==
    CASE t = "T1005" -> T1005Run(p)             [] t = "T1530" -> T1530Run(p)
      [] t = "T1560" -> T1560Run(p)             [] t = "T1071.001" -> T1071Run(p)
      [] t = "T1105" -> T1105Run(h, p)          [] t = "T1003" -> T1003Run
      [] t = "T1110" -> T1110Run(p)             [] t = "T1027" -> T1027Run(h)
      [] t = "T1055" -> T1055Run(p)             [] t = "T1070.004" -> T1070Run(d, h, p)
      [] t = "T1112" -> T1112Run(h, p)          [] t = "T1016" -> T1016Run
      [] t = "T1033" -> T1033Run                [] t = "T1049" -> T1049Run
      [] t = "T1057" -> T1057Run                [] t = "T1069.001" -> T1069Run
      [] t = "T1082" -> T1082Run                [] t = "T1083" -> T1083Run
      [] t = "T1580" -> T1580Run(p)             [] t = "T1059" -> T1059Run(p)
      [] t = "T1041" -> T1041Run(p)             [] t = "T1048" -> T1048Run(p)
      [] t = "T1486" -> T1486Run(h, p)          [] t = "T1078.004" -> T1078Run(p)
      [] t = "T1021.001" -> T1021001Run(p)      [] t = "T1021.002" -> T1021002Run(p)
      [] t = "T1053.005" -> T1053Run(h, p)      [] t = "T1098.004" -> T1098Run(h)
      [] t = "T1543.002" -> T1543Run(h)         [] t = "T1547.001" -> T1547Run(h, p)
      [] t = "CATALOG" -> CatalogRun(p)

CleanupOutcomes(d, h, t, p) ==
    CASE t = "T1530" -> T1530Cleanup(d, p)           [] t = "T1560" -> T1560Cleanup(d, p)
      [] t = "T1105" -> T1105Cleanup(d, h)           [] t = "T1110" -> T1110Cleanup(d, p)
      [] t = "T1027" -> T1027Cleanup(d, h)           [] t = "T1055" -> T1055Cleanup(d, p)
      [] t = "T1112" -> T1112Cleanup(d, h, p)        [] t = "T1048" -> T1048Cleanup(d, p)
      [] t = "T1486" -> T1486Cleanup(d, h)           [] t = "T1078.004" -> T1078Cleanup(d, p)
      [] t = "T1021.001" -> T1021001Cleanup(d, p)    [] t = "T1021.002" -> T1021002Cleanup(d, p)
      [] t = "T1053.005" -> T1053Cleanup(d, h, p)    [] t = "T1098.004" -> T1098Cleanup(d)
      [] t = "T1543.002" -> T1543Cleanup(d)          [] t = "T1547.001" -> T1547Cleanup(d, h, p)
      [] t = "CATALOG" -> CatalogCleanup(d, p)       [] OTHER -> NothingToClean

EventsOf(h, t, opt, listed) ==
    CASE t = "T1005" -> T1005Events             [] t = "T1530" -> T1530Events(opt)
      [] t = "T1560" -> T1560Events             [] t = "T1071.001" -> T1071Events
      [] t = "T1105" -> T1105Events(h, listed)  [] t = "T1003" -> T1003Events
      [] t = "T1110" -> T1110Events(opt)        [] t = "T1027" -> T1027Events(h, listed)
      [] t = "T1055" -> T1055Events             [] t = "T1070.004" -> T1070Events(h, listed)
      [] t = "T1112" -> T1112Events             [] t = "T1016" -> T1016Events
      [] t = "T1033" -> T1033Events             [] t = "T1049" -> T1049Events
      [] t = "T1057" -> T1057Events             [] t = "T1069.001" -> T1069Events
      [] t = "T1082" -> T1082Events             [] t = "T1083" -> T1083Events
      [] t = "T1580" -> T1580Events(opt)        [] t = "T1059" -> T1059Events(opt)
      [] t = "T1041" -> T1041Events             [] t = "T1048" -> T1048Events
      [] t = "T1486" -> T1486Events(h, listed)  [] t = "T1078.004" -> T1078Events
      [] t = "T1021.001" -> T1021001Events(opt) [] t = "T1021.002" -> T1021002Events(opt)
      [] t = "T1053.005" -> T1053Events         [] t = "T1098.004" -> T1098Events(h, listed)
      [] t = "T1543.002" -> T1543Events(h, listed) [] t = "T1547.001" -> T1547Events
      [] t = "CATALOG" -> CatalogEvents(opt)

\* The verdict of the detection diff on one technique.
Verdict(rule, events) ==
    CASE events = << >> -> "NO-EVENTS"
      [] EvaluateMany(rule, events) # {} -> "COVERED"
      [] OTHER -> "GAP"

-----------------------------------------------------------------------------
NoCall == [op |-> "none", t |-> "none", opt |-> "none", dir |-> "none", how |-> "ok", listed |-> << >>]

\* run, on the agent that executes the step.
RunTechnique(t, p) ==
    /\ calls < MaxCalls
    /\ \E o \in RunOutcomes(disk, host, t, p) :
        /\ disk' = (disk \ o.gone) \cup o.left
        /\ last' = [op |-> "run", t |-> t, opt |-> p.opt, dir |-> p.dir, how |-> o.how, listed |-> o.listed]
        /\ stuck' = stuck \ (o.gone \cup o.left)
    /\ dirty' = dirty \cup {<<t, p>>}
    /\ calls' = calls + 1
    /\ UNCHANGED host

\* cleanup, with the parameters of a run.
CleanupTechnique(t, p) ==
    /\ \E o \in CleanupOutcomes(disk, host, t, p) :
        /\ disk' = disk \ o.gone
        /\ last' = [op |-> "cleanup", t |-> t, opt |-> p.opt, dir |-> p.dir, how |-> o.how, listed |-> << >>]
        /\ dirty' = IF o.how = "ok" THEN dirty \ {<<t, q>> : q \in {x \in Params(t) : x.dir = p.dir}} ELSE dirty
        /\ stuck' = (stuck \cup o.left) \ o.gone
    /\ UNCHANGED <<host, calls>>

HostInit ==
    /\ host \in [platform : Platforms, lab : BOOLEAN]
    /\ disk = {}
    /\ last = NoCall
    /\ dirty = {}
    /\ stuck = {}
    /\ calls = 0

HostNext ==
    \/ \E t \in Techniques : \E p \in Params(t) : RunTechnique(t, p)
    \/ \E tp \in dirty : CleanupTechnique(tp[1], tp[2])

-----------------------------------------------------------------------------
\* What a run may leave.
Footprint(t, p) == UNION {o.left : o \in RunOutcomes({}, host, t, p)}

HostTypeOK ==
    /\ host \in [platform : Platforms, lab : BOOLEAN]
    /\ dirty \subseteq UNION {{t} \X Params(t) : t \in Techniques}
    /\ stuck \subseteq disk
    /\ calls \in 0 .. MaxCalls

\* Whatever the order of runs and cleanups, a marker on the host belongs to a
\* technique that has run since its last successful cleanup with the same
\* parameters: such a cleanup leaves nothing behind.  Excepted are the tools
\* of T1105 whose unlink was refused, and the marker T1070.004 dropped but
\* could not delete, for which no cleanup exists.
LeftoversAreOfUncleanedRuns ==
    \A f \in disk \ stuck :
        \/ f.stem = "to_delete_"
        \/ \E tp \in dirty : f \in Footprint(tp[1], tp[2])

\* A run or a cleanup takes away nothing but markers of its own technique, but
\* for T1070.004 told to delete a marker by its path.
OnlyOwnMarkersRemoved ==
    [][\A f \in disk \ disk' :
        \/ \E p \in Params(last'.t) : f \in Footprint(last'.t, p)
        \/ last'.t = "T1070.004" /\ last'.opt = "path"]_hostVars

\* The events of a run that ended ok, with its result and without one as the
\* detection diff asks for them, match the rule of the technique, if there are
\* any and the run was not pointed elsewhere: at another marker directory or
\* temporary directory than the rules name (T1070.004, T1105), another file
\* (T1070.004), another ending (T1105), another port (T1021.001), another source
\* than the entry's.  Of the catalog it speaks of a generated entry.
RunIsDetected ==
    LET elsewhere == \/ last.t = "T1070.004" /\ host.lab
                     \/ last.t = "T1105" /\ (host.lab \/ host.platform \notin {"windows", "linux"})
                     \/ last.t = "T1105" /\ host.platform = "windows" /\ last.opt = ".sh"
                     \/ last.opt \in {"path", "other_port", "other_source"}
    IN  last.op = "run" /\ last.how = "ok" /\ ~elsewhere =>
            \A listed \in {last.listed, << >>} :
                Verdict(RuleOf(last.t), EventsOf(host, last.t, last.opt, listed)) \in {"COVERED", "NO-EVENTS"}
=============================================================================
