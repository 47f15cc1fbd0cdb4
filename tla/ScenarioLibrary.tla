--------------------------- MODULE ScenarioLibrary ---------------------------
(***************************************************************************)
(* The directory of scenario files and the loader with its cache            *)
(* (orchestrator/dsl/loader.py).  The loader stats the files, and on a      *)
(* cache miss reads them one by one, while others write, remove and restore *)
(* files.                                                                   *)
(*                                                                          *)
(* A file's body is a record: its scenarios, each a name and a version, its *)
(* size, and whether it parses and every scenario in it is valid.           *)
(***************************************************************************)
EXTENDS Naturals, Sequences, FiniteSets, FiniteSetsExt, SequencesExt

CONSTANTS
    Files,        \* the paths of *.yaml files, as naturals in their order
    Bodies,       \* what may be written to a file
    MaxChanges    \* bound on the changes to the directory

ASSUME LibraryBounds == Files \subseteq Nat /\ MaxChanges \in Nat

ASSUME BodiesAssumption ==
    \A b \in Bodies : b.scenarios \in Seq(ToSet(b.scenarios)) /\ b.ok \in BOOLEAN

VARIABLES
    folder,     \* the files there are, each with its body and its mtime
    ticks,      \* the clock of the file system, which ticks at every change
    cache,      \* _SCENARIO_DIR_CACHE: at most one signature with its result
    load,       \* the call of load_scenarios_from_dir under way
    answer,     \* what the last call returned
    quiet,      \* history: no change since the call under way, or the last, began
    backdated,  \* history: a file came with an old mtime since the cached call began
    backdating  \* history: the same since the call under way began

libVars == <<folder, ticks, cache, load, answer, quiet, backdated, backdating>>

Idle == [at |-> "idle"]
NoAnswer == [kind |-> "none"]
Raises == [kind |-> "raises"]
Returns(out) == [kind |-> "returns", out |-> out]

-----------------------------------------------------------------------------
\* The key of the cache: how many files, the newest mtime, the total size.
TotalSize(d) == MapThenSumSet(LAMBDA f : d[f].body.size, DOMAIN d)
Signature(d) ==
    [count |-> Cardinality(DOMAIN d),
     newest |-> Max({d[f].mtime : f \in DOMAIN d} \cup {0}),
     size |-> TotalSize(d)]

\* f with x at k, as the assignment of a key makes it.
With(f, k, x) == [j \in DOMAIN f \cup {k} |-> IF j = k THEN x ELSE f[j]]

\* load_scenario_file into out: of two scenarios of one name the later stays.
Added(out, body) == FoldLeft(LAMBDA o, s : With(o, s.name, s.version), out, body.scenarios)

\* load_scenarios_from_dir begins: the files are listed and stated, and the
\* cache is looked at.
StartLoad ==
    /\ load = Idle
    /\ LET sig == Signature(folder)
       IN  IF \E c \in cache : c.sig = sig
           THEN /\ answer' = Returns((CHOOSE c \in cache : c.sig = sig).out)
                /\ UNCHANGED load
           ELSE /\ load' = [at |-> "reading", sig |-> sig, out |-> << >>,
                            left |-> DOMAIN folder]
                /\ answer' = NoAnswer
    /\ quiet' = TRUE
    /\ backdating' = FALSE
    /\ UNCHANGED <<folder, ticks, cache, backdated>>

\* The next file, in the order of the paths, is read; one that is gone or cannot
\* be loaded raises, and the cache stays.
ReadFile ==
    /\ load.at = "reading" /\ load.left # {}
    /\ LET f == Min(load.left)
       IN  IF f \in DOMAIN folder /\ folder[f].body.ok
           THEN /\ load' = [load EXCEPT !.out = Added(@, folder[f].body), !.left = @ \ {f}]
                /\ UNCHANGED answer
           ELSE load' = Idle /\ answer' = Raises
    /\ UNCHANGED <<folder, ticks, cache, quiet, backdated, backdating>>

\* A mutation of FinishLoad: the signature is taken after the files are read.
FinishLoadStatingLate ==
    /\ load.at = "reading" /\ load.left = {}
    /\ cache' = {[sig |-> Signature(folder), out |-> load.out]}
    /\ answer' = Returns(load.out)
    /\ load' = Idle
    /\ backdated' = backdating
    /\ UNCHANGED <<folder, ticks, quiet, backdating>>

\* A mutation of FinishLoad: what was cached stays.
FinishLoadKeepingOld ==
    /\ load.at = "reading" /\ load.left = {}
    /\ cache' = cache \cup {[sig |-> load.sig, out |-> load.out]}
    /\ answer' = Returns(load.out)
    /\ load' = Idle
    /\ backdated' = backdating
    /\ UNCHANGED <<folder, ticks, quiet, backdating>>

\* All are read: the result replaces whatever was cached.
FinishLoad ==
    /\ load.at = "reading" /\ load.left = {}
    /\ cache' = {[sig |-> load.sig, out |-> load.out]}
    /\ answer' = Returns(load.out)
    /\ load' = Idle
    /\ backdated' = backdating
    /\ UNCHANGED <<folder, ticks, quiet, backdating>>

-----------------------------------------------------------------------------
(* What others do to the directory. *)

Changed ==
    /\ ticks < MaxChanges
    /\ ticks' = ticks + 1
    /\ quiet' = FALSE
    /\ UNCHANGED <<cache, load, answer>>

\* A file is written: generated, imported, edited.
WriteFile(f, b) ==
    /\ Changed
    /\ folder' = With(folder, f, [body |-> b, mtime |-> ticks + 1])
    /\ UNCHANGED <<backdated, backdating>>

RemoveFile(f) ==
    /\ f \in DOMAIN folder
    /\ Changed
    /\ folder' = [g \in DOMAIN folder \ {f} |-> folder[g]]
    /\ UNCHANGED <<backdated, backdating>>

\* A file is moved, unpacked or copied with an mtime that is not new, or
\* written in the tick of the change before.
RestoreFile(f, b, t) ==
    /\ Changed
    /\ folder' = With(folder, f, [body |-> b, mtime |-> t])
    /\ backdated' = TRUE
    /\ backdating' = TRUE

LibInit ==
    /\ folder = << >>
    /\ ticks = 0
    /\ cache = {}
    /\ load = Idle
    /\ answer = NoAnswer
    /\ quiet = FALSE
    /\ backdated = FALSE
    /\ backdating = FALSE

LibNext ==
    \/ StartLoad \/ ReadFile \/ FinishLoad
    \/ \E f \in Files, b \in Bodies : WriteFile(f, b) \/ \E t \in 0 .. ticks : RestoreFile(f, b, t)
    \/ \E f \in Files : RemoveFile(f)

-----------------------------------------------------------------------------
\* The scenarios of the directory, said at once: a name means the last scenario
\* of that name in the last file that has one.
InFile(d, f, n) == {i \in DOMAIN d[f].body.scenarios : d[f].body.scenarios[i].name = n}
NamesIn(d) == UNION {{s.name : s \in ToSet(d[f].body.scenarios)} : f \in DOMAIN d}
Content(d) ==
    [n \in NamesIn(d) |->
        LET f == Max({g \in DOMAIN d : InFile(d, g, n) # {}})
        IN  d[f].body.scenarios[Max(InFile(d, f, n))].version]

LibTypeOK ==
    /\ DOMAIN folder \subseteq Files
    /\ \A f \in DOMAIN folder : folder[f].body \in Bodies /\ folder[f].mtime \in 0 .. ticks
    /\ ticks \in 0 .. MaxChanges
    /\ Cardinality(cache) <= 1
    /\ load.at \in {"idle", "reading"}

\* A call during which nothing changes answers what the directory holds, and
\* raises just when some file cannot be loaded, whatever was written or removed
\* between it, or during it, and the call that filled the cache; only a file
\* that comes with an old mtime can be missed.
LoadIsFresh ==
    quiet /\ ~backdated /\ load = Idle =>
        /\ answer.kind = "returns" => answer.out = Content(folder)
        /\ answer.kind = "raises" <=> \E f \in DOMAIN folder : ~folder[f].body.ok
=============================================================================
