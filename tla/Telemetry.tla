----------------------------- MODULE Telemetry -----------------------------
(***************************************************************************)
(* The Sigma rule and the synthetic events of every technique of src/ttps,  *)
(* and the verdict of the detection diff (orchestrator/detection_diff.py).  *)
(*                                                                          *)
(* host is the agent's machine: its platform and whether the environment    *)
(* variable APT_SIM_MARKER_DIR names a directory of the lab's own.  opt is  *)
(* the one parameter of a run that its events depend on, and listed the     *)
(* artifacts of its result, first to last (none without a result).  Of an   *)
(* event only the fields its technique's rule reads are kept; a dot or dash *)
(* in a field's name and a space in a command are written as underscores.   *)
(***************************************************************************)
EXTENDS Sigma

\* A file by its directory, the stem and ending of its name, and the number
\* (a second, a random name, an index) between them.
File(dir, stem, n, ext) == [dir |-> dir, stem |-> stem, n |-> n, ext |-> ext]

\* The marker directory of T1027, T1070.004 and T1486.
SimMarkerDir(host) == IF host.lab THEN "lab" ELSE "sim_artifacts"

\* The staging directory of T1105.
StagingDir(host) == IF host.lab THEN "lab" ELSE "temp"

\* The path of a file, as far as the rules look at it: where it lies, the place
\* together with the stem, the ending.
PathText(host, f) ==
    LET windows == host.platform = "windows"
        tool == f.dir = "temp" /\ f.stem = "apt_sim_"
        dropped == f.dir = "sim_artifacts" /\ f.stem = "to_delete_"
        key == f.dir = "/.ssh/" /\ f.stem = "apt_sim_test_authorized_keys"
        named == CASE tool /\ windows -> "\\Temp\\apt_sim_"
                   [] tool /\ host.platform = "linux" -> "/tmp/apt_sim_"
                   [] dropped /\ windows -> "\\sim_artifacts\\to_delete_"
                   [] dropped /\ ~windows -> "/sim_artifacts/to_delete_"
                   [] key -> "/.ssh/apt_sim_test_authorized_keys"
                   [] OTHER -> f.stem
    IN  <<f.dir, named, f.ext>>

\* The file events of a result's artifacts, or of a demonstration path.
FileEvents(host, listed, demo) ==
    LET shown == IF listed = << >> THEN <<demo>> ELSE listed
    IN  [i \in DOMAIN shown |-> [TargetFilename |-> PathText(host, shown[i])]]
FirstFileEvent(host, listed, demo) == <<FileEvents(host, listed, demo)[1]>>

Command(text) == [CommandLine |-> <<text>>]
Program(image, text) == [Image |-> <<image>>, CommandLine |-> <<text>>]

-----------------------------------------------------------------------------
T1005Rule == OneOfSelections(
    [selection_win |-> {Has("CommandLine", {".pem", ".key", ".pfx", "password", "credential"})},
     selection_posix |-> {Has("CommandLine", {"id_rsa", ".pem", ".key", "password"})}])
T1005Events == <<[CommandLine |-> <<"dir", "password", ".pem", ".key">>],
                 [CommandLine |-> <<"find", "id_rsa", ".pem", "password">>]>>

T1530Rule == OneOfSelections(
    [selection_aws |-> {Is("eventSource", {"s3"}), Is("eventName", {"ListBucket", "GetObject"})},
     selection_azure |-> {Has("operationName", {"blobs/read"})},
     selection_gcp |-> {Is("serviceName", {"storage"}), Has("methodName", {"storage.objects."})}])
\* What the provider logs for the listing or the reading of one object.
T1530AwsEvents == <<[eventSource |-> <<"s3">>, eventName |-> <<"ListBucket">>],
                    [eventSource |-> <<"s3">>, eventName |-> <<"GetObject">>]>>
T1530AzureEvents == <<[operationName |-> <<"blobs/read">>]>>
T1530GcpEvents == <<[serviceName |-> <<"storage">>, methodName |-> <<"storage.objects.", "get">>]>>
T1530Events(opt) ==
    CASE opt = "aws" -> T1530AwsEvents
      [] opt = "azure" -> T1530AzureEvents
      [] opt = "gcp" -> T1530GcpEvents
      [] OTHER -> << >>

T1560Rule == Filtered(
    {Ends("TargetFilename", {".zip", ".7z", ".rar", ".tar.gz"}),
     Has("TargetFilename", {"\\AppData\\", "\\Temp\\", "\\Users\\Public\\"})},
    {Ends("Image", {"\\7zFM.exe", "\\WinRAR.exe", "\\7z.exe"}), Has("User", {"SYSTEM"})})
T1560Events == <<[TargetFilename |-> <<"\\Users\\Public\\", "t1560_staged_data", ".zip">>,
                  Image |-> <<"\\cmd.exe">>, User |-> <<"jsmith">>]>>

T1071Rule == Plain({Is("cs_method", {"GET"}), HasAll("cs_user_agent", {"curl/", "python-requests/"})})
T1071Events == <<[cs_method |-> <<"GET">>, cs_user_agent |-> <<"curl/", "python-requests/">>]>>

T1105Rule == OneOfSelections(
    [selection_win |-> {Has("TargetFilename", {"\\Temp\\apt_sim_"}),
                        Ends("TargetFilename", {".exe", ".dll", ".bat", ".ps1"})},
     selection_posix |-> {Has("TargetFilename", {"/tmp/apt_sim_"})}])
T1105Events(host, listed) ==
    LET shown == IF host.platform = "windows" THEN host ELSE [host EXCEPT !.platform = "linux"]
    IN  IF listed = << >> THEN FirstFileEvent(shown, << >>, File("temp", "apt_sim_", 0, ".exe"))
                          ELSE FirstFileEvent(host, listed, << >>)

T1003Rule == OneOfSelections(
    [selection_win |-> {Has("CommandLine", {"lsass", "vaultsvc"})},
     selection_posix |-> {Has("CommandLine", {"ssh-agent", "gnome-keyring", "securityd"})}])
T1003Events == <<Command("lsass"), Command("ssh-agent")>>

T1110Rule == Counted({Is("EventID", {"4625"}), Is("LogonType", {"3"})})
T1110Events(opt) == [i \in 1 .. (IF opt = "no_attempts" THEN 0 ELSE 6) |->
                        [EventID |-> <<"4625">>, LogonType |-> <<"3">>]]

T1027Rule == Plain({Ends("TargetFilename", {".b64", ".enc", ".obf"})})
T1027Events(host, listed) ==
    FirstFileEvent(host, listed, File(SimMarkerDir(host), "obf_", 0, ".b64"))

T1055Rule == Filtered(
    {Ends("TargetImage", {"\\lsass.exe", "\\explorer.exe", "\\svchost.exe", "\\winlogon.exe"}),
     Has("GrantedAccess", {"0x1010", "0x1038", "0x1fffff"})},
    {Ends("SourceImage", {"\\MsMpEng.exe", "\\svchost.exe", "\\csrss.exe"})})
T1055Events ==
    <<[TargetImage |-> <<"\\lsass.exe">>, SourceImage |-> <<"\\cmd.exe">>, GrantedAccess |-> <<"0x1010">>],
      [TargetImage |-> <<"\\explorer.exe">>, SourceImage |-> <<"\\powershell.exe">>,
       GrantedAccess |-> <<"0x1038">>]>>

T1070Rule == Plain(
    {Has("TargetFilename", {"\\sim_artifacts\\to_delete_", "/sim_artifacts/to_delete_"}),
     Is("EventType", {"deletion"})})
T1070Events(host, listed) ==
    LET e == FirstFileEvent(host, listed, File(SimMarkerDir(host), "to_delete_", 0, ".tmp"))[1]
    IN  <<[TargetFilename |-> e.TargetFilename, EventType |-> <<"deletion">>]>>

T1112Rule == Plain({Has("TargetObject", {"AptSimulator\\Test\\Modify"}), Is("Type", {"DWORD"})})
T1112Events == <<[TargetObject |-> <<"AptSimulator\\Test\\Modify">>, Type |-> <<"DWORD">>]>>

-----------------------------------------------------------------------------
T1016Rule == OneOfSelections(
    [selection_win |-> {Ends("Image", {"\\ipconfig.exe"})},
     selection_posix |-> {Has("CommandLine", {"ifconfig", "ip_addr"})}])
T1016Events == <<Program("\\ipconfig.exe", "ipconfig"), Command("ifconfig")>>

T1033Rule == Plain({Ends("Image", {"\\whoami.exe", "\\hostname.exe"})})
T1033Events == <<Program("\\whoami.exe", "whoami")>>

T1049Rule == OneOfSelections(
    [selection_win |-> {Ends("Image", {"\\netstat.exe"})},
     selection_posix |-> {Has("CommandLine", {"netstat"})}])
T1049Events == <<Program("\\netstat.exe", "netstat"), Command("netstat")>>

T1057Rule == OneOfSelections(
    [selection_win |-> {Ends("Image", {"\\tasklist.exe", "\\qprocess.exe"})},
     selection_posix |-> {Has("CommandLine", {"ps_-e", "ps_-A", "ps_aux"})}])
T1057Events == <<Program("\\tasklist.exe", "tasklist"), Program("/bin/ps", "ps_-e")>>

T1069Rule == OneOfSelections(
    [selection_win |-> {Ends("Image", {"\\net.exe", "\\net1.exe"}), Has("CommandLine", {"localgroup"})},
     selection_posix |-> {Has("CommandLine", {"getent_group", "dscl_._-list_/Groups"})}])
T1069Events == <<Program("\\net.exe", "localgroup"), Command("getent_group")>>

T1082Rule == OneOfSelections(
    [selection_win |-> {Ends("Image", {"\\systeminfo.exe", "\\winver.exe"})},
     selection_posix |-> {Has("CommandLine", {"uname_-a", "uname_-r", "hostnamectl"})}])
T1082Events == <<Program("\\systeminfo.exe", "systeminfo"), Command("uname_-a")>>

T1083Rule == OneOfSelections(
    [selection_win |-> {HasAll("CommandLine", {"dir", "/s"})},
     selection_posix |-> {Has("CommandLine", {"find_", "ls_-R", "tree_"})}])
T1083Events == <<[CommandLine |-> <<"dir", "/s">>], Command("find_")>>

T1580Rule == OneOfSelections(
    [selection_aws |-> {Is("eventName", {"DescribeInstances", "ListBuckets", "GetCallerIdentity"})},
     selection_azure |-> {Has("operationName", {"resourceGroups/read", "subscriptions/read"})},
     selection_gcp |-> {Has("methodName", {"google.cloud.resourcemanager", "compute.instances.list"})}])
T1580Events(opt) ==
    CASE opt = "aws" -> <<[eventName |-> <<"DescribeInstances">>], [eventName |-> <<"ListBuckets">>]>>
      [] opt = "azure" -> <<[operationName |-> <<"resourceGroups/read">>]>>
      [] opt = "gcp" -> <<[methodName |-> <<"google.cloud.resourcemanager">>]>>
      [] OTHER -> << >>

T1059Rule == Plain({Ends("Image", {"\\whoami.exe", "\\hostname.exe", "\\ipconfig.exe",
                                   "\\tasklist.exe", "\\netstat.exe"})})
T1059Events(opt) ==
    LET image == CASE opt = "hostname" -> "\\hostname.exe"
                   [] opt = "ifconfig" -> "\\ipconfig.exe"
                   [] opt = "ps" -> "\\tasklist.exe"
                   [] opt = "netstat" -> "\\netstat.exe"
                   [] OTHER -> "\\whoami.exe"
    IN  <<Program(image, opt)>>

-----------------------------------------------------------------------------
T1041Rule == Plain({Has("c_useragent", {"AptSim/"}), Is("cs_method", {"POST"})})
T1041Events == <<[c_useragent |-> <<"AptSim/">>, cs_method |-> <<"POST">>]>>

T1048Rule == Either(
    [selection_dns_txt |-> {Is("QueryType", {"TXT"}), Over("QueryLength", 50)},
     selection_icmp_large |-> {Is("Protocol", {"ICMP"}), Over("Length", 128)}])
T1048Events == <<[QueryType |-> <<"TXT">>, QueryLength |-> 512]>>

T1486Rule == Plain({Ends("TargetFilename", {".encrypted", ".enc", ".locked", ".crypt"})})
T1486Events(host, listed) ==
    LET first == SubSeq(listed, 1, IF Len(listed) < 3 THEN Len(listed) ELSE 3)
    IN  FileEvents(host, first, File(SimMarkerDir(host), "sim_ransom_", 0, ".encrypted"))

\* responseElements.ConsoleLogin is None unless the event is a ConsoleLogin.
CloudEvent(name) ==
    IF name = "ConsoleLogin"
    THEN [eventName |-> <<name>>, userIdentity_type |-> <<"IAMUser">>,
          responseElements_ConsoleLogin |-> <<"Success">>]
    ELSE [eventName |-> <<name>>, userIdentity_type |-> <<"IAMUser">>]
T1078Rule == OneOfSelections(
    [selection_console |-> {Is("eventName", {"ConsoleLogin"}),
                            Is("responseElements_ConsoleLogin", {"Success"})},
     selection_api |-> {Is("eventName", {"GetCallerIdentity", "AssumeRole", "ListBuckets"}),
                        Is("userIdentity_type", {"IAMUser", "AssumedRole"})}])
T1078Events == <<CloudEvent("GetCallerIdentity"), CloudEvent("AssumeRole")>>

Connection(port, image) ==
    [DestinationPort |-> <<port>>, Initiated |-> <<"true">>, Image |-> <<image>>]
T1021001Rule == Filtered(
    {Is("DestinationPort", {"3389"}), Is("Initiated", {"true"})},
    {Ends("Image", {"\\mstsc.exe"}), Has("User", {"SYSTEM"})})
T1021001Events(opt) ==
    IF opt = "no_hosts" THEN << >>
    ELSE <<Connection(IF opt = "other_port" THEN "3390" ELSE "3389", "\\cmd.exe")>>

T1021002Rule == Filtered(
    {Is("DestinationPort", {"445"}), Is("Initiated", {"true"})},
    {Ends("Image", {"\\System32\\svchost.exe"})})
T1021002Events(opt) ==
    IF opt = "no_hosts" THEN << >> ELSE [i \in 1 .. 3 |-> Connection("445", "\\net.exe")]

T1053Rule == Plain({Ends("Image", {"\\schtasks.exe"}), Has("CommandLine", {"/create"})})
T1053Events == <<Program("\\schtasks.exe", "/create")>>

T1098Rule == OneOfSelections(
    [selection_real |-> {Has("TargetFilename", {"/.ssh/authorized_keys"})},
     selection_sim |-> {Has("TargetFilename", {"/.ssh/apt_sim_test_authorized_keys"})}])
T1098Events(host, listed) ==
    FirstFileEvent(host, listed, File("/.ssh/", "apt_sim_test_authorized_keys", 0, ""))

T1543Rule == Plain({Has("TargetFilename", {"/.config/systemd/user/"}), Ends("TargetFilename", {".service"})})
T1543Events(host, listed) ==
    FirstFileEvent(host, listed, File("/.config/systemd/user/", "apt-sim-test", 0, ".service"))

T1547Rule == OneOfSelections(
    [selection_real |-> {Has("TargetObject", {"CurrentVersion\\Run", "CurrentVersion\\RunOnce"})},
     selection_sim |-> {Has("TargetObject", {"AptSimulator\\Test\\Run"})}])
T1547Events == <<[TargetObject |-> <<"AptSimulator\\Test\\Run">>]>>

\* A catalog entry: parameters given to a run go before the schema's defaults,
\* and a slot in an event's template takes its parameter's value, or stays.
Merged(defaults, given) ==
    [x \in DOMAIN defaults \cup DOMAIN given |-> IF x \in DOMAIN given THEN given[x] ELSE defaults[x]]
Rendered(field, params) ==
    IF field.slot \in DOMAIN params THEN <<params[field.slot]>> ELSE <<field.text>>

\* One generated scale entry stands for the catalog: its rule names one
\* telemetry source, its event the one the parameters give, which by default is
\* the same.  The rules and events written by hand in the catalog's files are
\* data of the same two shapes of code, and are not looked at one by one.
CatalogRule == Plain({Is("event_dataset", {"scale"}), Is("apt_sim_variant", {"variant"}),
                      Is("apt_sim_telemetry_source", {"sysmon"})})
CatalogTemplate ==
    [event_dataset |-> [slot |-> "none", text |-> "scale"],
     apt_sim_variant |-> [slot |-> "none", text |-> "variant"],
     apt_sim_telemetry_source |-> [slot |-> "telemetry_source", text |-> "unfilled"]]
CatalogDefaults == [telemetry_source |-> "sysmon", fidelity |-> "low"]
CatalogGiven(opt) == IF opt = "other_source" THEN [telemetry_source |-> "osquery"] ELSE << >>
CatalogEvents(opt) ==
    LET params == Merged(CatalogDefaults, CatalogGiven(opt))
    IN  <<[f \in DOMAIN CatalogTemplate |-> Rendered(CatalogTemplate[f], params)]>>
=============================================================================
