------------------------------ MODULE MCFleet -------------------------------
(***************************************************************************)
(* What the orchestrator knows of its fleet and works on beside the API:   *)
(* small instances of the alert engine (two replicas that share the rows,  *)
(* one through failures and requests, heartbeats, the alerts of            *)
(* vulnerability scans), of the vulnerability scan, smart groups, policies *)
(* (their history, and their layers), reports and remote support and       *)
(* control. A behaviour is one of the instance that setting names. The     *)
(* variables v1, v2, ... are those of the instance, in the order its       *)
(* module declares them.                                                   *)
(***************************************************************************)
EXTENDS Integers, TLC

CONSTANTS
    e1, e2, x1, x2, x3, None

VARIABLES
    setting, v1, v2, v3, v4, v5, v6, v7, v8, v9, v10, v11, v12

vars ==
    <<setting, v1, v2, v3, v4, v5, v6, v7, v8, v9, v10, v11, v12>>

\* A package that is fixed in 1.1, its candidate for release and an old version;
\* the feed knows the vulnerability by its own name and by an alias.
Version(numbers, candidate) == [nums |-> numbers, pre |-> candidate]
PackageVersions == {Version(<<1>>, 0), Version(<<1, 1>>, 1), Version(<<1, 1>>, 0)}
FeedAdvisories ==
    {[id |-> "c1", alias |-> None, fixes |-> <<Version(<<1, 1>>, 0)>>, alerts |-> TRUE],
     [id |-> "g1", alias |-> "c1", alerts |-> FALSE,
      fixes |-> <<Version(<<1, 1>>, 0), Version(<<1, 1>>, 0)>>]}

\* Filters of a smart group, flat and nested, and the devices they are put to.
Filter(attribute, comparison, to) == [field |-> attribute, op |-> comparison, value |-> to]
Level(how, conditions, below) ==
    [condition |-> how, filters |-> conditions, nested |-> below]
Linux == Filter("os", "eq", "linux")
Large == Filter("cores", "gt", 2)
Recent == Filter("heartbeat", "eq", "recent")
GroupExpressions ==
    {Level("AND", <<Filter("os", "neq", "windows"), Large>>, None),
     Level("OR", <<Filter("cores", "lt", 8), Linux>>, None),
     Level("AND", <<Linux>>, Level("OR", <<Filter("cores", "lt", 2), Large>>, None)),
     Level("OR", <<Linux>>, Level("AND", <<Large, Recent>>, None))}
DeviceAttributes ==
    {[os |-> "linux", cores |-> 0, heartbeat |-> "never"],
     [os |-> "linux", cores |-> 4, heartbeat |-> "recent"],
     [os |-> "windows", cores |-> 4, heartbeat |-> "recent"]}

PolicyConfigs == {("a" :> 1), ("a" :> 2 @@ "b" :> 2)}

Shared == INSTANCE AlertEngine WITH
    Replicas <- {e1, e2}, Kind <- "threshold", Cves <- FALSE, Cooldown <- 1,
    Timeout <- 1, RetainFor <- 1, MaxTime <- 2, MaxAlerts <- 2,
    MaxCrashes <- 1, MaxFailures <- 0, MaxRequests <- 1, now <- v1,
    alive <- v2, ruleRow <- v3, alerts <- v4, used <- v5, mem <- v6,
    thread <- v7, told <- v8, crashes <- v9, failures <- v10, requests <- v11

Engine == INSTANCE AlertEngine WITH
    Replicas <- {e1}, Kind <- "threshold", Cves <- FALSE, Cooldown <- 1,
    Timeout <- 1, RetainFor <- 1, MaxTime <- 3, MaxAlerts <- 3,
    MaxCrashes <- 1, MaxFailures <- 1, MaxRequests <- 2, now <- v1,
    alive <- v2, ruleRow <- v3, alerts <- v4, used <- v5, mem <- v6,
    thread <- v7, told <- v8, crashes <- v9, failures <- v10, requests <- v11

Heartbeat == INSTANCE AlertEngine WITH
    Replicas <- {e1}, Kind <- "heartbeat", Cves <- FALSE, Cooldown <- 1,
    Timeout <- 1, RetainFor <- 1, MaxTime <- 5, MaxAlerts <- 2,
    MaxCrashes <- 1, MaxFailures <- 1, MaxRequests <- 1, now <- v1,
    alive <- v2, ruleRow <- v3, alerts <- v4, used <- v5, mem <- v6,
    thread <- v7, told <- v8, crashes <- v9, failures <- v10, requests <- v11

Scan == INSTANCE AlertEngine WITH
    Replicas <- {e1, e2}, Kind <- "heartbeat", Cves <- TRUE, Cooldown <- 1,
    Timeout <- 1, RetainFor <- 1, MaxTime <- 1, MaxAlerts <- 2,
    MaxCrashes <- 1, MaxFailures <- 0, MaxRequests <- 1, now <- v1,
    alive <- v2, ruleRow <- v3, alerts <- v4, used <- v5, mem <- v6,
    thread <- v7, told <- v8, crashes <- v9, failures <- v10, requests <- v11

Findings == INSTANCE VulnerabilityScan WITH
    Engines <- {e1, e2}, Cves <- {"c1"}, Versions <- PackageVersions,
    Seeds <- [c \in {} |-> 0], Advisories <- FeedAdvisories, MaxChanges <- 1,
    None <- None, database <- v1, known <- v2, installed <- v3,
    changes <- v4, rows <- v5, alerts <- v6, scan <- v7

Groups == INSTANCE SmartGroups WITH
    Devices <- {x1, x2}, Attributes <- DeviceAttributes,
    Expressions <- GroupExpressions, Evals <- {e1, e2}, MaxChanges <- 1,
    None <- None, group <- v1, members <- v2, bound <- v3, device <- v4,
    eval <- v5, changes <- v6

Revised == INSTANCE Policies WITH
    Rows <- 1 .. 2, Requests <- {x1, x2}, Configs <- PolicyConfigs,
    Scopes <- {"device"}, MaxVersion <- 3, MaxCreated <- 1, None <- None,
    policy <- v1, revisions <- v2, req <- v3, created <- v4

Layered == INSTANCE Policies WITH
    Rows <- 1 .. 2, Requests <- {x1}, Configs <- PolicyConfigs,
    Scopes <- {"msp", "device"}, MaxVersion <- 2, MaxCreated <- 2,
    None <- None, policy <- v1, revisions <- v2, req <- v3, created <- v4

Reported == INSTANCE Reports WITH
    Schedules <- {x1, x2}, Replicas <- {e1}, Requests <- {x3}, MaxTime <- 1,
    MaxTicks <- 1, MaxToggles <- 1, None <- None, now <- v1, schedules <- v2,
    toggles <- v3, ticks <- v4, work <- v5, request <- v6, task <- v7,
    files <- v8, reports <- v9

Support == INSTANCE RemoteSupport WITH
    Sessions <- {x1}, Recordings <- {x1}, Transcriptions <- {x1},
    Tunnels <- {x1}, Candidates <- {x1}, MaxSegments <- 2, MaxSignals <- 1,
    MaxCrashes <- 1, None <- None, sessions <- v1, signals <- v2,
    adding <- v3, recordings <- v4, transcriptions <- v5, chunk <- v6,
    stopping <- v7, tunnels <- v8, crashes <- v9

Control == INSTANCE RemoteControl WITH
    binding <- v1, commands <- v2, listening <- v3, sessions <- v4,
    state <- v5, start <- v6, stop <- v7, loop <- v8, capturer <- v9,
    injector <- v10, inputSub <- v11, closes <- v12

\* The variables an instance of n variables does not need.
Unused(n) ==
    /\ IF n < 5 THEN v5 = 0 ELSE TRUE
    /\ IF n < 6 THEN v6 = 0 ELSE TRUE
    /\ IF n < 7 THEN v7 = 0 ELSE TRUE
    /\ IF n < 8 THEN v8 = 0 ELSE TRUE
    /\ IF n < 9 THEN v9 = 0 ELSE TRUE
    /\ IF n < 10 THEN v10 = 0 ELSE TRUE
    /\ IF n < 11 THEN v11 = 0 ELSE TRUE
    /\ IF n < 12 THEN v12 = 0 ELSE TRUE

StaysUnused(n) ==
    /\ IF n < 5 THEN UNCHANGED v5 ELSE TRUE
    /\ IF n < 6 THEN UNCHANGED v6 ELSE TRUE
    /\ IF n < 7 THEN UNCHANGED v7 ELSE TRUE
    /\ IF n < 8 THEN UNCHANGED v8 ELSE TRUE
    /\ IF n < 9 THEN UNCHANGED v9 ELSE TRUE
    /\ IF n < 10 THEN UNCHANGED v10 ELSE TRUE
    /\ IF n < 11 THEN UNCHANGED v11 ELSE TRUE
    /\ IF n < 12 THEN UNCHANGED v12 ELSE TRUE

Init ==
    \/ setting = "replicas" /\ Shared!Init /\ Unused(11)
    \/ setting = "engine" /\ Engine!Init /\ Unused(11)
    \/ setting = "heartbeat" /\ Heartbeat!Init /\ Unused(11)
    \/ setting = "cves" /\ Scan!Init /\ Unused(11)
    \/ setting = "findings" /\ Findings!Init /\ Unused(7)
    \/ setting = "groups" /\ Groups!Init /\ Unused(6)
    \/ setting = "revisions" /\ Revised!Init /\ Unused(4)
    \/ setting = "layers" /\ Layered!Init /\ Unused(4)
    \/ setting = "reports" /\ Reported!Init /\ Unused(9)
    \/ setting = "support" /\ Support!Init /\ Unused(9)
    \/ setting = "control" /\ Control!Init /\ Unused(12)

Next ==
    /\ UNCHANGED setting
    /\ \/ setting = "replicas" /\ Shared!Next /\ StaysUnused(11)
       \/ setting = "engine" /\ Engine!Next /\ StaysUnused(11)
       \/ setting = "heartbeat" /\ Heartbeat!Next /\ StaysUnused(11)
       \/ setting = "cves" /\ Scan!Next /\ StaysUnused(11)
       \/ setting = "findings" /\ Findings!Next /\ StaysUnused(7)
       \/ setting = "groups" /\ Groups!Next /\ StaysUnused(6)
       \/ setting = "revisions" /\ Revised!Next /\ StaysUnused(4)
       \/ setting = "layers" /\ Layered!Next /\ StaysUnused(4)
       \/ setting = "reports" /\ Reported!Next /\ StaysUnused(9)
       \/ setting = "support" /\ Support!Next /\ StaysUnused(9)
       \/ setting = "control" /\ Control!Next /\ StaysUnused(12)

Spec == Init /\ [][Next]_vars

-----------------------------------------------------------------------------
\* The rows and the memory of each instance keep their types.
TypeOK ==
    CASE setting = "replicas" -> Shared!TypeOK
      [] setting = "engine" -> Engine!TypeOK
      [] setting = "heartbeat" -> Heartbeat!TypeOK
      [] setting = "cves" -> Scan!TypeOK
      [] setting = "findings" -> Findings!TypeOK
      [] setting = "groups" -> Groups!TypeOK
      [] setting = "revisions" -> Revised!TypeOK
      [] setting = "layers" -> Layered!TypeOK
      [] setting = "reports" -> Reported!TypeOK
      [] setting = "support" -> Support!TypeOK
      [] setting = "control" -> Control!TypeOK

\* SaveAlert, SaveCVEAlert and UpdateAlertStatus: whichever replicas evaluate,
\* restart and acknowledge, a rule and a vulnerability have one open alert each;
\* and a state that fires between two samples has its open row, after failed
\* saves, restarts and requests too (evaluateThreshold, rollbackFiringTransition,
\* restoreFiringTransition).
OneOpenAlert ==
    /\ setting = "replicas" => Shared!OneOpenAlert
    /\ setting = "heartbeat" => Heartbeat!OneOpenAlert
    /\ setting = "cves" => Scan!OneOpenAlert
    /\ setting = "engine" => Engine!FiringIsOpen

\* matchVulnerabilities, FireCVEAlert: the scans of all replicas together announce
\* a finding once, and an open row shows a version below the one that fixes it,
\* whichever engine wrote it last and from whichever inventory.
FindingToldOnce ==
    /\ setting = "cves" => Scan!CveToldOnce
    /\ setting = "findings" => Findings!FindingToldOnce /\ Findings!OpenIsAffected

\* What is in force is what the history of a policy says, however updates,
\* publications and rollbacks interleave, and what a preview shows is, key by key,
\* the most specific policy (policy_handlers.go, mergePolicyMap).
PolicyIsTrue ==
    /\ setting = "revisions" => Revised!HistoryIsTrue
    /\ setting = "layers" => Layered!MostSpecificWins

\* A report that was recorded after its upload has its file (processSchedules),
\* the segments of a transcription are consecutive although they are placed
\* outside the lock (processAudioChunk), and a remote control session closes its
\* stop channel once and captures no frame from a closed capturer (Session.Stop).
RecordsAreWhole ==
    /\ setting = "reports" => Reported!ReportHasFile
    /\ setting = "support" => Support!TranscriptIsConsecutive
    /\ setting = "control" => Control!StopIsOrderly

\* What a scan or an evaluation read is old when it writes, and still: a row that
\* an operator resolved keeps that decision and no row is closed with a version
\* that is affected (runScan), and an evaluation that wrote alone leaves only
\* members its filter admits (evaluateSingleGroup).
StaleReadsDoNoHarm ==
    [][/\ setting = "findings" => ~ Findings!WrongClosure
       /\ setting = "groups" => ~ Groups!FalseMember]_vars
=============================================================================
