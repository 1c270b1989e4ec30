----------------------------- MODULE MCRollouts -----------------------------
(***************************************************************************)
(* Work that fans out over devices: small instances of JobDispatch,        *)
(* PatchRollout and PatchWindow for TLC. A behaviour is one of the         *)
(* instance that setting names: a job with two targets; a rollout by one   *)
(* orchestrator with windows, disabled devices and a restart; one by two   *)
(* replicas on two devices, the policy deleted at any time; two replicas   *)
(* that race for one device with a retry left; and the window by itself,   *)
(* for every window of a day of six minutes. The variables v1, v2, ... are *)
(* those of the instance, in the order its module declares them.           *)
(***************************************************************************)
EXTENDS Integers, TLC

CONSTANTS
    t1, t2, r1, r2, single, Nobody

VARIABLES
    setting, v1, v2, v3, v4, v5, v6, v7, v8, v9, v10, v11, v12

vars ==
    <<setting, v1, v2, v3, v4, v5, v6, v7, v8, v9, v10, v11, v12>>

Interchangeable == Permutations({t1, t2}) \cup Permutations({r1, r2})

Jobs == INSTANCE JobDispatch WITH
    Targets <- {t1, t2}, Workers <- {single}, MaxRetries <- 0,
    BatchLimit <- 1, OutboxBatch <- 1, Producers <- {"durable"},
    AckStatuses <- {}, ResultStatuses <- {"succeeded"},
    MaxOperatorRetries <- 0, MaxAttempt <- 2, Nobody <- Nobody, job <- v1,
    tgt <- v2, outbox <- v3, wk <- v4, inbox <- v5, inventories <- v6,
    cmds <- v7, cancels <- v8, acks <- v9, results <- v10, settled <- v11,
    opRetries <- v12

Single == INSTANCE PatchRollout WITH
    DeviceCount <- 2, MaxRetries <- 1, CanaryPercent <- 50,
    SuccessThreshold <- 90, Windowed <- TRUE, Replicas <- {single},
    MaxInterventions <- 1, MayDisable <- TRUE, MayDelete <- FALSE,
    MaxCrashes <- 1, dep <- v1, pdd <- v2, jobs <- v3, sent <- v4, inv <- v5,
    disabled <- v6, open <- v7, rep <- v8, hand <- v9, crashes <- v10

Shared == INSTANCE PatchRollout WITH
    DeviceCount <- 2, MaxRetries <- 0, CanaryPercent <- 50,
    SuccessThreshold <- 90, Windowed <- FALSE, Replicas <- {r1, r2},
    MaxInterventions <- 0, MayDisable <- FALSE, MayDelete <- TRUE,
    MaxCrashes <- 0, dep <- v1, pdd <- v2, jobs <- v3, sent <- v4, inv <- v5,
    disabled <- v6, open <- v7, rep <- v8, hand <- v9, crashes <- v10

Racing == INSTANCE PatchRollout WITH
    DeviceCount <- 1, MaxRetries <- 1, CanaryPercent <- 50,
    SuccessThreshold <- 90, Windowed <- FALSE, Replicas <- {r1, r2},
    MaxInterventions <- 1, MayDisable <- FALSE, MayDelete <- FALSE,
    MaxCrashes <- 0, dep <- v1, pdd <- v2, jobs <- v3, sent <- v4, inv <- v5,
    disabled <- v6, open <- v7, rep <- v8, hand <- v9, crashes <- v10

Window == INSTANCE PatchWindow WITH
    Day <- 6, Horizon <- 12, Offsets <- 0 .. 5, Unrestricted <- 18,
    now <- v1, window <- v2, offset <- v3, job <- v4

\* The variables an instance of n variables does not need.
Unused(n) ==
    /\ IF n < 5 THEN v5 = 0 ELSE TRUE
    /\ IF n < 6 THEN v6 = 0 ELSE TRUE
    /\ IF n < 7 THEN v7 = 0 ELSE TRUE
    /\ IF n < 8 THEN v8 = 0 ELSE TRUE
    /\ IF n < 9 THEN v9 = 0 ELSE TRUE
    /\ IF n < 10 THEN v10 = 0 ELSE TRUE
    /\ IF n < 11 THEN v11 = 0 ELSE TRUE
    /\ IF n < 12 THEN v12 = 0 ELSE TRUE

StaysUnused(n) ==
    /\ IF n < 5 THEN UNCHANGED v5 ELSE TRUE
    /\ IF n < 6 THEN UNCHANGED v6 ELSE TRUE
    /\ IF n < 7 THEN UNCHANGED v7 ELSE TRUE
    /\ IF n < 8 THEN UNCHANGED v8 ELSE TRUE
    /\ IF n < 9 THEN UNCHANGED v9 ELSE TRUE
    /\ IF n < 10 THEN UNCHANGED v10 ELSE TRUE
    /\ IF n < 11 THEN UNCHANGED v11 ELSE TRUE
    /\ IF n < 12 THEN UNCHANGED v12 ELSE TRUE

Init ==
    \/ setting = "jobs" /\ Jobs!Init /\ Unused(12)
    \/ setting = "single" /\ Single!Init /\ Unused(10)
    \/ setting = "shared" /\ Shared!Init /\ Unused(10)
    \/ setting = "racing" /\ Racing!Init /\ Unused(10)
    \/ setting = "window" /\ Window!Init /\ Unused(4)

Next ==
    /\ UNCHANGED setting
    /\ \/ setting = "jobs" /\ Jobs!Next /\ StaysUnused(12)
       \/ setting = "single" /\ Single!Next /\ StaysUnused(10)
       \/ setting = "shared" /\ Shared!Next /\ StaysUnused(10)
       \/ setting = "racing" /\ Racing!Next /\ StaysUnused(10)
       \/ setting = "window" /\ Window!Next /\ StaysUnused(4)

Spec == Init /\ [][Next]_vars

-----------------------------------------------------------------------------
\* JobDispatch.TypeOK and PatchRollout.TypeOK: the rows keep their types, and the
\* counters of a deployment never leave 0 .. device_count.
TypeOK ==
    /\ setting = "jobs" => Jobs!TypeOK
    /\ setting = "single" => Single!TypeOK
    /\ setting = "shared" => Shared!TypeOK
    /\ setting = "racing" => Racing!TypeOK

\* What is finished tells the truth about its parts.  A finished job shows
\* exactly the aggregate of its terminal targets (RefreshJobStatus), and a
\* deployment is completed only if every one of its devices reported success
\* for its last job (advanceDeployingDeployment).
FinishedIsAggregate ==
    /\ setting = "jobs" => Jobs!FinishedJobIsAggregate
    /\ setting = "shared" => Shared!CompletedIsReal

\* A device is sent its patch command at most once more than the policy's
\* max_retries, over all the windows and jobs of the deployment, timeouts and
\* retries by hand included (QueuePatchRolloutDevice, remainingRetries), and of
\* the jobs it got at most one may still run, even when two replicas race: a
\* job is replaced only when it expired.
PatchBudget ==
    /\ setting = "single" => Single!PatchBudget
    /\ setting = "racing" => Racing!OneRunnableJob

\* No broad device has a job before the canary group finished with enough
\* successes, and these successes stay (advanceCanaryDeployment, Passes).
CanaryFirst == setting = "shared" => Shared!CanaryFirst

\* A job queued in a window expires exactly at the end of that window as the
\* queue transaction's clock has it (maintenanceWindowDeadline against
\* maintenanceWindowAllows).
DeadlineIsBoundary == setting = "window" => Window!DeadlineIsBoundary
=============================================================================
