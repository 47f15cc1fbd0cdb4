------------------------------ MODULE Markers ------------------------------
(***************************************************************************)
(* What a run and a cleanup of every technique of src/ttps do to the host.  *)
(*                                                                          *)
(* Each is the set of its outcomes: how it ends ("raises": with an          *)
(* exception, which the caller turns into a failed result), what it leaves  *)
(* on the host (a cleanup: what it tried to remove in vain and says nothing *)
(* of), what it removes, and the artifacts it lists.  p gives the option of *)
(* a run and the directory or the name it is told to use.                   *)
(* Registry values and scheduled tasks are files of directories of their    *)
(* own; artifacts that only name what was found (T1003, T1083) are left     *)
(* out, as is the content of a marker.                                      *)
(***************************************************************************)
EXTENDS Telemetry, SequencesExt

CONSTANT Stamps    \* seconds of the clock, and random names: numbers in file names

Outcome(how, left, gone, listed) == [how |-> how, left |-> left, gone |-> gone, listed |-> listed]
Did(files) == Outcome("ok", ToSet(files), {}, files)
Failed(left, listed) == Outcome("error", left, {}, listed)
Raised(left) == Outcome("raises", left, {}, << >>)
Removed(how, files) == Outcome(how, {}, files, << >>)

Refused == {Failed({}, << >>)}

\* A technique that only reads, and what it reads may be missing.
Reads == {Did(<< >>), Failed({}, << >>)}

\* mkdir or the write may raise, the write with part of the file written.
Writes(f) == {Did(<<f>>), Raised({}), Raised({f})}
\* The same with the OSError of the write turned into a failed result.
WritesGuarded(f) == {Did(<<f>>), Raised({}), Failed({}, << >>), Failed({f}, << >>)}

\* unlink if it exists, unguarded.
Unlinks(disk, f) ==
    IF f \in disk THEN {Removed("ok", {f}), Removed("raises", {})} ELSE {Removed("ok", {})}

\* unlink of each file a pattern fits, up to the first that raises.
UnlinksAll(found) == {Removed("ok", found)} \cup {Removed("raises", s) : s \in SUBSET found \ {found}}

\* The files of a directory that a pattern "stem*ext" fits.
Glob(disk, dir, stem, exts) == {f \in disk : f.dir = dir /\ f.stem = stem /\ f.ext \in exts}

\* TTP.cleanup, which a technique that leaves nothing inherits.
NothingToClean == {Removed("ok", {})}

-----------------------------------------------------------------------------
T1005Run(p) == IF p.opt = "no_root" THEN Refused ELSE Reads

T1530Marker(p) == File(p.dir, "t1530_cloud_storage_access", 0, ".jsonl")
T1530Run(p) == IF p.opt \in {"aws", "azure", "gcp"} THEN Writes(T1530Marker(p)) ELSE Refused
T1530Cleanup(disk, p) == Unlinks(disk, T1530Marker(p))

T1560Marker(p) == File(p.dir, "t1560_staged_data", 0, ".zip")
T1560Run(p) == Writes(T1560Marker(p))
T1560Cleanup(disk, p) == Unlinks(disk, T1560Marker(p))

T1071Run(p) ==
    CASE p.opt \in {"unknown_mode", "unknown_profile", "public_url"} -> Refused
      [] p.opt = "outside_window" -> {Did(<< >>)}
      [] OTHER -> Reads                    \* ok if one beacon was answered

T1105Run(host, p) ==
    UNION {WritesGuarded(File(StagingDir(host), "apt_sim_", n, p.opt)) : n \in Stamps}
\* A mutation of T1105Cleanup: the pattern names one extension.
T1105CleanupExe(disk, host) ==
    LET found == Glob(disk, StagingDir(host), "apt_sim_", {".exe"})
    IN  {Outcome("ok", found \ s, s, << >>) : s \in SUBSET found}
\* An unlink that raises is passed over: the cleanup is ok all the same.
T1105Cleanup(disk, host) ==
    LET found == Glob(disk, StagingDir(host), "apt_sim_", {f.ext : f \in disk})
    IN  {Outcome("ok", found \ s, s, << >>) : s \in SUBSET found}

T1003Run == Reads

T1110Marker(p) == File(p.dir, "t1110_brute_force", 0, ".jsonl")
T1110Run(p) == Writes(T1110Marker(p))
T1110Cleanup(disk, p) == Unlinks(disk, T1110Marker(p))

T1027Run(host) == UNION {Writes(File(SimMarkerDir(host), "obf_", n, ".b64")) : n \in Stamps}
T1027Cleanup(disk, host) == UnlinksAll(Glob(disk, SimMarkerDir(host), "obf_", {".b64"}))

T1055Marker(p) == File(p.dir, "t1055_injection_targets", 0, ".json")
T1055Run(p) == Writes(T1055Marker(p))
T1055Cleanup(disk, p) == Unlinks(disk, T1055Marker(p))

\* Without a path: a marker is dropped and deleted.  With one (a marker of
\* T1027, say): it must lie in the marker directory.
T1070Target(host, p, n) ==
    IF p.opt = "no_path" THEN File(SimMarkerDir(host), "to_delete_", n, ".tmp")
                         ELSE File(SimMarkerDir(host), "obf_", n, ".b64")
T1070Run(disk, host, p) ==
    CASE p.opt = "outside" -> Refused
      [] p.opt = "no_path" ->
            UNION {LET f == T1070Target(host, p, n)
                   IN  {Outcome("ok", {}, {f}, <<f>>), Raised({}), Raised({f})} : n \in Stamps}
      [] OTHER ->
            UNION {LET f == T1070Target(host, p, n)
                   IN  IF f \in disk THEN {Outcome("ok", {}, {f}, <<f>>), Raised({})}
                                     ELSE {Did(<< >>), Raised({})} : n \in Stamps}

OnWindows(host, outcomes) == IF host.platform = "windows" THEN outcomes ELSE Refused

RegistryValue(key, p) == File(key, p.dir, 0, "")
SetsValue(v) == {Did(<<v>>), Failed({}, << >>), Failed({v}, << >>)}
\* FileNotFoundError is ok, any other OSError is not.
DeletesValue(disk, v) ==
    IF v \in disk THEN {Removed("ok", {v}), Removed("error", {})} ELSE {Removed("ok", {}), Removed("error", {})}

T1112Run(host, p) == OnWindows(host, SetsValue(RegistryValue("Test\\Modify", p)))
T1112Cleanup(disk, host, p) ==
    IF host.platform # "windows" THEN NothingToClean ELSE DeletesValue(disk, RegistryValue("Test\\Modify", p))

-----------------------------------------------------------------------------
T1016Run == Reads
T1033Run == Reads
T1049Run == Reads
T1057Run == Reads
T1069Run == Reads
T1082Run == Reads
T1083Run == {Did(<< >>)}
\* Of the two readings of AWS one may fail.
T1580Aws == {IF ec2 \/ s3 THEN Did(<< >>) ELSE Failed({}, << >>) : ec2, s3 \in BOOLEAN}
T1580Azure == Reads
T1580Gcp == Reads
T1580Run(p) ==
    CASE p.opt = "aws" -> T1580Aws
      [] p.opt = "azure" -> T1580Azure
      [] p.opt = "gcp" -> T1580Gcp
      [] OTHER -> Refused
T1059Run(p) ==
    IF p.opt \in {"whoami", "hostname", "ifconfig", "ps", "netstat"} THEN Reads ELSE Refused
T1041Run(p) == IF p.opt = "public_url" THEN Refused ELSE Reads

T1048Marker(p) == File(p.dir, "t1048_exfil_alt", 0, ".b64")
T1048Run(p) == Writes(T1048Marker(p))
T1048Cleanup(disk, p) == Unlinks(disk, T1048Marker(p))

\* count files, named by second and index; a write that fails ends the run.
T1486Files(host, count, n) ==
    [i \in 1 .. count |-> File(SimMarkerDir(host), "sim_ransom_", 10 * n + i, ".encrypted")]
T1486Run(host, p) ==
    LET count == IF p.opt = "two_files" THEN 2 ELSE 1
        some(n, k) == SubSeq(T1486Files(host, count, n), 1, k)
    IN  UNION {{Did(some(n, count)), Raised({})}
               \cup {Failed(ToSet(some(n, jk[1])), some(n, jk[2])) : jk \in
                        {x \in (0 .. count) \X (0 .. count - 1) : x[1] \in {x[2], x[2] + 1}}}
               : n \in Stamps}
\* A mutation of T1486Cleanup: whatever is in the directory.
T1486CleanupAll(disk, host) == UnlinksAll({f \in disk : f.dir = SimMarkerDir(host)})
T1486Cleanup(disk, host) == UnlinksAll(Glob(disk, SimMarkerDir(host), "sim_ransom_", {".encrypted"}))

T1078Marker(p) == File(p.dir, "t1078_004_cloud_account_abuse", 0, ".jsonl")
T1078Run(p) == IF p.opt # "aws" THEN Refused ELSE Writes(T1078Marker(p))
T1078Cleanup(disk, p) == Unlinks(disk, T1078Marker(p))

T1021001Marker(p) == File(p.dir, "t1021_001_rdp_probe", 0, ".txt")
T1021001Run(p) == Writes(T1021001Marker(p))
T1021001Cleanup(disk, p) == Unlinks(disk, T1021001Marker(p))

T1021002Marker(p) == File(p.dir, "t1021_002_smb_enum", 0, ".txt")
T1021002Run(p) == Writes(T1021002Marker(p))
T1021002Cleanup(disk, p) == Unlinks(disk, T1021002Marker(p))

ScheduledTask(p) == File("tasks", p.dir, 0, "")
\* schtasks /create /f: its exit code; a timeout lists no artifact.
T1053Run(host, p) ==
    LET t == ScheduledTask(p)
    IN  OnWindows(host, {Did(<<t>>), Failed({}, <<t>>), Failed({}, << >>), Failed({t}, << >>)})
\* schtasks /delete: an absent task is an error; a timeout may have deleted it.
T1053Cleanup(disk, host, p) ==
    LET t == {ScheduledTask(p)} \cap disk
    IN  IF host.platform # "windows" THEN NothingToClean
        ELSE {Removed("error", {}), Removed("error", t)} \cup (IF t # {} THEN {Removed("ok", t)} ELSE {})

SshMarker == File("/.ssh/", "apt_sim_test_authorized_keys", 0, "")
T1098Run(host) ==
    IF host.platform \in {"linux", "darwin"} THEN WritesGuarded(SshMarker) ELSE Refused
T1098Cleanup(disk) == Unlinks(disk, SshMarker)

UnitFile == File("/.config/systemd/user/", "apt-sim-test", 0, ".service")
T1543Run(host) == IF host.platform = "linux" THEN WritesGuarded(UnitFile) ELSE Refused
T1543Cleanup(disk) == Unlinks(disk, UnitFile)

T1547Run(host, p) == OnWindows(host, SetsValue(RegistryValue("Test\\Run", p)))
T1547Cleanup(disk, host, p) ==
    IF host.platform # "windows" THEN NothingToClean ELSE DeletesValue(disk, RegistryValue("Test\\Run", p))

CatalogMarker(p) == File(p.dir, "catalog", 0, ".json")
CatalogRun(p) == Writes(CatalogMarker(p))
CatalogCleanup(disk, p) == Unlinks(disk, CatalogMarker(p))
=============================================================================
