------------------------------ MODULE PatchRollout ------------------------------
(***************************************************************************)
(* The rollout of one patch deployment (internal/patch): the scheduler of  *)
(* every orchestrator replica takes the deployment from pending through    *)
(* its canary group to the broad group and to its end, and gives every     *)
(* device a durable job, a new one per maintenance window while the        *)
(* policy's attempts last.                                                 *)
(*                                                                         *)
(* A database statement or transaction is one step.  Between two of them a *)
(* replica holds the Deployment it read, which UpdateDeployment writes     *)
(* back whole.  The job system appears by what it does to a patch job's    *)
(* only target (JobDispatch models it in full).  A job of a device is      *)
(* known by the cycle in its idempotency key, which is unique.             *)
(***************************************************************************)
EXTENDS Integers, FiniteSets, FiniteSetsExt

CONSTANTS
    DeviceCount,      \* devices are 1 .. DeviceCount, in device_id order
    MaxRetries,       \* max_retries of the policy
    CanaryPercent,    \* defaultCanaryPercent
    SuccessThreshold, \* defaultCanarySuccessThreshold
    Windowed,         \* whether the policy has a maintenance window
    Replicas,
    MaxInterventions, \* bound on retries and cancellations of jobs by hand
    MayDisable,       \* whether devices may be disabled
    MayDelete,        \* whether the policy may be deleted
    MaxCrashes        \* bound on restarts of replicas

Sensible ==
    /\ DeviceCount \in Nat /\ CanaryPercent \in Nat /\ SuccessThreshold \in Nat
    /\ MaxRetries \in Int /\ MaxInterventions \in Nat /\ MaxCrashes \in Nat
    /\ {Windowed, MayDisable, MayDelete} \subseteq BOOLEAN

Devices == 1 .. DeviceCount

VARIABLES
    dep,      \* the patch_deployments row
    pdd,      \* the patch_deployment_devices rows
    jobs,     \* the target of each patch job, by device and cycle
    sent,     \* attempts of the patch command sent to each device
    inv,      \* devices with a patch_inventory snapshot
    disabled, \* devices whose status is disabled
    open,     \* the maintenance window is open
    rep,      \* the patch manager of each replica
    hand,     \* interventions so far
    crashes   \* restarts so far

vars == <<dep, pdd, jobs, sent, inv, disabled, open, rep, hand, crashes>>

\* maxPatchAttempts of the clamped max_retries.
AttemptCap == Max({0, Min({MaxRetries, 10})}) + 1
Cycles == 1 .. AttemptCap

Live == {"queued", "sent"}
Ended == {"succeeded", "failed", "cancelled", "expired"}

Deployment == [status : {"absent", "pending", "canary", "deploying", "completed", "failed", "deleted"},
               installed : 0 .. DeviceCount, failed : 0 .. DeviceCount, pending : 0 .. DeviceCount]
Row == [group : {"canary", "broad"}, dispatched : BOOLEAN, attempts : 0 .. AttemptCap,
        job : {0} \cup Cycles]
\* due: expires_at has passed.
Job == [status : {"none"} \cup Live \cup Ended, retry : Nat, max : 0 .. AttemptCap - 1, due : BOOLEAN]

\* Where a replica is in processScheduledDeployments; after: where it goes on
\* once a group is dispatched.
Steps == {"starting", "idle", "prepare", "persistCanary", "dispatch", "queue", "getCanary",
          "advanceCanary", "canaryGate", "persistGate", "getDeploying", "advanceDeploying",
          "deployGate", "persistDeploying"}
Afters == {"idle", "getCanary", "canaryGate", "getDeploying", "deployGate"}
Replica == [pc : Steps, after : Afters, knows : BOOLEAN, snap : Deployment,
            group : {"canary", "broad"}, todo : SUBSET Devices]

NoJob == [status |-> "none", retry |-> 0, max |-> 0, due |-> FALSE]
NewRow == [group |-> "broad", dispatched |-> FALSE, attempts |-> 0, job |-> 0]
NoDeployment == [status |-> "absent", installed |-> 0, failed |-> 0, pending |-> 0]

Starting == [pc |-> "starting", after |-> "idle", knows |-> TRUE, snap |-> NoDeployment,
             group |-> "canary", todo |-> {}]

\* A replica that started before the policy was created knows it only if the
\* request reached that replica.
Init ==
    /\ dep = NoDeployment
    /\ pdd = [d \in Devices |-> NewRow]
    /\ jobs = [d \in Devices |-> [c \in Cycles |-> NoJob]]
    /\ sent = [d \in Devices |-> 0]
    /\ inv = {} /\ disabled = {}
    /\ open \in IF Windowed THEN BOOLEAN ELSE {TRUE}
    /\ rep \in [Replicas -> {[Starting EXCEPT !.knows = k] : k \in BOOLEAN}]
    /\ \E r \in Replicas : rep[r].knows
    /\ hand = 0 /\ crashes = 0

--------------------------------------------------------------------------------
(***************************************************************************)
(* What the queries see: rows joined with the deployment, its policy and   *)
(* the mapped job target.                                                  *)
(***************************************************************************)

Rows == IF dep.status \in {"absent", "deleted"} THEN {} ELSE Devices
Group(g) == {d \in Rows : pdd[d].group = g}
Target(d) == IF pdd[d].job = 0 THEN NoJob ELSE jobs[d][pdd[d].job]
Consumed(d) == pdd[d].attempts + Target(d).retry

\* Faulty variant: an expired target always counts as retryable.
NeverExhausted(d) == FALSE

Exhausted(d) == Target(d).status = "expired" /\ Consumed(d) >= AttemptCap

CanaryCount(n) == Min({n, Max({1, (n * CanaryPercent + 99) \div 100})})

\* selectCanarySubset of the rows in device order.
CanarySet == {d \in Rows : d <= CanaryCount(Cardinality(Rows))}

Undispatched(g) ==
    {d \in Group(g) : \/ ~pdd[d].dispatched
                      \/ Target(d).status = "expired" /\ Consumed(d) < AttemptCap}

Succeeded(S) == {d \in S : Target(d).status = "succeeded"}
Failed(S) == {d \in S : Target(d).status \in {"failed", "cancelled"} \/ Exhausted(d)}

\* CanaryGate.Ready.
Ready(S) == S # {} /\ Succeeded(S) \cup Failed(S) = S

\* Faulty variant: a finished canary group passes.
PassesWhenReady(S) == Ready(S)

\* CanaryGate.Passes.
Passes(S) == Ready(S) /\ Cardinality(Succeeded(S)) * 100 >= Cardinality(S) * SuccessThreshold

\* UpdateDeployment: a row that is gone is not written.
Persist(new) == dep' = IF dep.status = "deleted" THEN dep ELSE new

At(r, pc) == rep[r].pc = pc
Goto(r, pc) == rep' = [rep EXCEPT ![r].pc = pc]

DispatchThen(r, g, pc) ==
    rep' = [rep EXCEPT ![r].pc = "dispatch", ![r].group = g, ![r].after = pc]

--------------------------------------------------------------------------------
(***************************************************************************)
(* Requests and reports.                                                   *)
(***************************************************************************)

\* Manager.Start subscribes to inventories, and unsubscribes as it returns.
HandlePatchInventory(r, d) ==
    /\ At(r, "starting")
    /\ inv' = inv \cup {d}
    /\ UNCHANGED <<dep, pdd, jobs, sent, disabled, open, rep, hand, crashes>>

StartReturns(r) ==
    /\ At(r, "starting")
    /\ Goto(r, "idle")
    /\ UNCHANGED <<dep, pdd, jobs, sent, inv, disabled, open, hand, crashes>>

\* CreateDeploymentWithPatches: every device is enabled and its latest
\* inventory lists the selected patches as missing.
CreateDeployment ==
    /\ dep.status = "absent"
    /\ inv = Devices /\ disabled = {}
    /\ dep' = [dep EXCEPT !.status = "pending"]
    /\ UNCHANGED <<pdd, jobs, sent, inv, disabled, open, rep, hand, crashes>>

\* DeletePolicy at one replica: the deployment and its rows go by cascade, the
\* jobs stay, and so does the policy in the memory of the other replicas.
DeletePolicy(r) ==
    /\ MayDelete /\ ~At(r, "starting") /\ dep.status \notin {"absent", "deleted"}
    /\ dep' = [dep EXCEPT !.status = "deleted"]
    /\ rep' = [rep EXCEPT ![r].knows = FALSE]
    /\ UNCHANGED <<pdd, jobs, sent, inv, disabled, open, hand, crashes>>

DisableDevice(d) ==
    /\ MayDisable /\ d \notin disabled
    /\ disabled' = disabled \cup {d}
    /\ UNCHANGED <<dep, pdd, jobs, sent, inv, open, rep, hand, crashes>>

--------------------------------------------------------------------------------
(***************************************************************************)
(* processScheduledDeployments.                                            *)
(***************************************************************************)

\* GetPendingDeployments; scheduled_for has passed.
Tick(r) ==
    /\ At(r, "idle")
    /\ IF dep.status = "pending"
       THEN rep' = [rep EXCEPT ![r].pc = "prepare", ![r].snap = dep]
       ELSE Goto(r, "getCanary")
    /\ UNCHANGED <<dep, pdd, jobs, sent, inv, disabled, open, hand, crashes>>

\* executeDeployment up to PrepareCanaryRollout, which labels the canary set
\* and resets the dispatch columns of every row, whatever the row's job.
PrepareCanaryRollout(r) ==
    /\ At(r, "prepare")
    /\ IF rep[r].knows /\ open /\ CanarySet # {}
       THEN /\ pdd' = [d \in Devices |->
                         [pdd[d] EXCEPT !.group = IF d \in CanarySet THEN "canary" ELSE "broad",
                                        !.dispatched = FALSE, !.attempts = 0]]
            /\ Goto(r, "persistCanary")
       ELSE Goto(r, "getCanary") /\ UNCHANGED pdd
    /\ UNCHANGED <<dep, jobs, sent, inv, disabled, open, hand, crashes>>

PersistCanary(r) ==
    /\ At(r, "persistCanary")
    /\ Persist([rep[r].snap EXCEPT !.status = "canary"])
    /\ DispatchThen(r, "canary", "getCanary")
    /\ UNCHANGED <<pdd, jobs, sent, inv, disabled, open, hand, crashes>>

\* dispatchRolloutGroup: GetUndispatchedRolloutDevices.
Dispatch(r) ==
    /\ At(r, "dispatch")
    /\ rep' = [rep EXCEPT ![r].pc = "queue", ![r].todo = Undispatched(rep[r].group)]
    /\ UNCHANGED <<dep, pdd, jobs, sent, inv, disabled, open, hand, crashes>>

\* Faulty variant: a job is replaced whatever its state.
MayQueueAnyState(d, consumed) == d \in Rows \ disabled /\ consumed < AttemptCap

MayQueue(d, consumed) ==
    /\ d \in Rows \ disabled
    /\ Target(d).status \in {"none", "expired"}
    /\ consumed < AttemptCap

\* Faulty variant: the new job may use the whole budget again.
NewJobWithFullBudget(consumed) == [NoJob EXCEPT !.status = "queued", !.max = AttemptCap - 1]

NewJob(consumed) == [NoJob EXCEPT !.status = "queued", !.max = AttemptCap - consumed - 1]

\* QueuePatchRolloutDevice, one serializable transaction: outside the window,
\* or with a key in use, it creates nothing.
QueuePatchRolloutDevice(r) ==
    /\ At(r, "queue")
    /\ \E d \in rep[r].todo :
         LET cycle == Consumed(d) + 1
         IN  /\ \A e \in rep[r].todo : d <= e
             /\ IF MayQueue(d, Consumed(d)) /\ open /\ cycle \in Cycles /\ jobs[d][cycle] = NoJob
                THEN /\ jobs' = [jobs EXCEPT ![d][cycle] = NewJob(Consumed(d))]
                     /\ pdd' = [pdd EXCEPT ![d].dispatched = TRUE, ![d].attempts = cycle,
                                           ![d].job = cycle]
                ELSE UNCHANGED <<jobs, pdd>>
             /\ rep' = [rep EXCEPT ![r].todo = @ \ {d}]
    /\ UNCHANGED <<dep, sent, inv, disabled, open, hand, crashes>>

GroupDispatched(r) ==
    /\ At(r, "queue") /\ rep[r].todo = {}
    /\ Goto(r, rep[r].after)
    /\ UNCHANGED <<dep, pdd, jobs, sent, inv, disabled, open, hand, crashes>>

GetCanaryDeployments(r) ==
    /\ At(r, "getCanary")
    /\ IF dep.status = "canary"
       THEN rep' = [rep EXCEPT ![r].pc = "advanceCanary", ![r].snap = dep]
       ELSE Goto(r, "getDeploying")
    /\ UNCHANGED <<dep, pdd, jobs, sent, inv, disabled, open, hand, crashes>>

\* advanceCanaryDeployment.
AdvanceCanary(r) ==
    /\ At(r, "advanceCanary")
    /\ \/ ~rep[r].knows /\ Goto(r, "getDeploying")
       \/ rep[r].knows /\ open /\ DispatchThen(r, "canary", "canaryGate")
       \/ rep[r].knows /\ ~open /\ Goto(r, "canaryGate")
    /\ UNCHANGED <<dep, pdd, jobs, sent, inv, disabled, open, hand, crashes>>

\* Faulty variant: devices counted in an earlier phase are subtracted again.
CountedTwice(row, S, total, status) ==
    [row EXCEPT !.status = status, !.installed = Cardinality(Succeeded(S)),
                !.failed = Cardinality(Failed(S)),
                !.pending = total - row.installed - Cardinality(Succeeded(S) \cup Failed(S))]

Counted(row, S, total, status) ==
    [row EXCEPT !.status = status, !.installed = Cardinality(Succeeded(S)),
                !.failed = Cardinality(Failed(S)),
                !.pending = total - Cardinality(Succeeded(S) \cup Failed(S))]

\* GetRolloutJobGate for the canary group.
CanaryGate(r) ==
    LET S == Group("canary")
    IN  /\ At(r, "canaryGate")
        /\ IF Ready(S)
           THEN rep' = [rep EXCEPT ![r].pc = "persistGate",
                          ![r].snap = Counted(@, S, DeviceCount,
                                              IF Passes(S) THEN "deploying" ELSE "failed")]
           ELSE Goto(r, "getDeploying")
    /\ UNCHANGED <<dep, pdd, jobs, sent, inv, disabled, open, hand, crashes>>

PersistGate(r) ==
    /\ At(r, "persistGate")
    /\ Persist(rep[r].snap)
    /\ IF rep[r].snap.status = "deploying" /\ open
       THEN DispatchThen(r, "broad", "getDeploying")
       ELSE Goto(r, "getDeploying")
    /\ UNCHANGED <<pdd, jobs, sent, inv, disabled, open, hand, crashes>>

GetDeployingDeployments(r) ==
    /\ At(r, "getDeploying")
    /\ IF dep.status = "deploying"
       THEN rep' = [rep EXCEPT ![r].pc = "advanceDeploying", ![r].snap = dep]
       ELSE Goto(r, "idle")
    /\ UNCHANGED <<dep, pdd, jobs, sent, inv, disabled, open, hand, crashes>>

\* advanceDeployingDeployment.
AdvanceDeploying(r) ==
    /\ At(r, "advanceDeploying")
    /\ \/ ~rep[r].knows /\ Goto(r, "idle")
       \/ rep[r].knows /\ open /\ DispatchThen(r, "broad", "deployGate")
       \/ rep[r].knows /\ ~open /\ Goto(r, "deployGate")
    /\ UNCHANGED <<dep, pdd, jobs, sent, inv, disabled, open, hand, crashes>>

\* Faulty variant: a failed device does not fail the deployment.
FinalStatusOptimistic(S) == "completed"

FinalStatus(S) == IF Failed(S) # {} THEN "failed" ELSE "completed"

\* GetDeploymentJobGate.
DeployGate(r) ==
    LET status == IF Ready(Rows) THEN FinalStatus(Rows) ELSE rep[r].snap.status
    IN  /\ At(r, "deployGate")
        /\ rep' = [rep EXCEPT ![r].pc = "persistDeploying",
                     ![r].snap = Counted(@, Rows, Cardinality(Rows), status)]
    /\ UNCHANGED <<dep, pdd, jobs, sent, inv, disabled, open, hand, crashes>>

PersistDeploying(r) ==
    /\ At(r, "persistDeploying")
    /\ Persist(rep[r].snap)
    /\ Goto(r, "idle")
    /\ UNCHANGED <<pdd, jobs, sent, inv, disabled, open, hand, crashes>>

\* A replica ends; when it is back, LoadPolicies has read the policy.
Restart(r) ==
    /\ crashes < MaxCrashes
    /\ crashes' = crashes + 1
    /\ rep' = [rep EXCEPT ![r] = [Starting EXCEPT !.knows = dep.status # "deleted"]]
    /\ UNCHANGED <<dep, pdd, jobs, sent, inv, disabled, open, hand>>

--------------------------------------------------------------------------------
(***************************************************************************)
(* The job system, for the only target of a patch job.                     *)
(***************************************************************************)

SetJob(d, c, new) ==
    /\ jobs' = [jobs EXCEPT ![d][c] = new]
    /\ UNCHANGED <<dep, pdd, inv, disabled, open, rep, crashes>>

\* ensureQueuedOutbox and processOutbox.
SendCommand(d, c) ==
    LET j == jobs[d][c]
    IN  /\ j.status = "queued" /\ ~j.due /\ j.retry <= j.max
        /\ SetJob(d, c, [j EXCEPT !.status = "sent"])
        /\ sent' = [sent EXCEPT ![d] = @ + 1]
        /\ UNCHANGED hand

\* The agent's result, or a cancellation of the job.
JobEnds(d, c, status) ==
    LET j == jobs[d][c]
    IN  /\ \/ j.status = "sent" /\ status \in {"succeeded", "failed"} /\ UNCHANGED hand
           \/ /\ j.status \in Live /\ status = "cancelled"
              /\ hand < MaxInterventions /\ hand' = hand + 1
        /\ SetJob(d, c, [j EXCEPT !.status = status])
        /\ UNCHANGED sent

\* reconcile: the lease of a sent command ran out.
ExecutionTimeout(d, c) ==
    LET j == jobs[d][c]
    IN  /\ j.status = "sent" /\ ~j.due
        /\ SetJob(d, c, [j EXCEPT !.status = IF j.retry < j.max THEN "queued" ELSE "failed",
                                  !.retry = @ + 1])
        /\ UNCHANGED <<sent, hand>>

\* expireJobs.
ExpireJob(d, c) ==
    LET j == jobs[d][c]
    IN  /\ j.status \in Live /\ j.due
        /\ SetJob(d, c, [j EXCEPT !.status = "expired"])
        /\ UNCHANGED <<sent, hand>>

\* handleRetryJobTargets for the one target of the job.
RetryJobTarget(d, c) ==
    LET j == jobs[d][c]
    IN  /\ hand < MaxInterventions /\ hand' = hand + 1
        /\ j.status \in {"failed", "expired"}
        /\ SetJob(d, c, [j EXCEPT !.status = "queued", !.retry = @ + 1])
        /\ UNCHANGED sent

\* maintenanceWindowDeadline: a job's expires_at is the end of the window it
\* was queued in, or 72 hours on when there is no window.
ExpiryPasses(d, c) ==
    /\ ~Windowed /\ jobs[d][c].status # "none" /\ ~jobs[d][c].due
    /\ SetJob(d, c, [jobs[d][c] EXCEPT !.due = TRUE])
    /\ UNCHANGED <<sent, hand>>

WindowCloses ==
    /\ Windowed /\ open
    /\ open' = FALSE
    /\ jobs' = [d \in Devices |-> [c \in Cycles |->
                  [jobs[d][c] EXCEPT !.due = jobs[d][c].status # "none"]]]
    /\ UNCHANGED <<dep, pdd, sent, inv, disabled, rep, hand, crashes>>

WindowOpens ==
    /\ ~open
    /\ open' = TRUE
    /\ UNCHANGED <<dep, pdd, jobs, sent, inv, disabled, rep, hand, crashes>>

Scheduler(r) ==
    \/ StartReturns(r) \/ Tick(r) \/ PrepareCanaryRollout(r) \/ PersistCanary(r)
    \/ Dispatch(r) \/ QueuePatchRolloutDevice(r) \/ GroupDispatched(r)
    \/ GetCanaryDeployments(r) \/ AdvanceCanary(r) \/ CanaryGate(r) \/ PersistGate(r)
    \/ GetDeployingDeployments(r) \/ AdvanceDeploying(r) \/ DeployGate(r) \/ PersistDeploying(r)

JobSystem(d, c) ==
    \/ SendCommand(d, c) \/ ExecutionTimeout(d, c) \/ ExpireJob(d, c)
    \/ JobEnds(d, c, "succeeded") \/ JobEnds(d, c, "failed")

Next ==
    \/ CreateDeployment \/ WindowCloses \/ WindowOpens
    \/ \E r \in Replicas : Scheduler(r) \/ Restart(r) \/ DeletePolicy(r)
    \/ \E r \in Replicas, d \in Devices : HandlePatchInventory(r, d)
    \/ \E d \in Devices : DisableDevice(d)
    \/ \E d \in Devices, c \in Cycles : \/ JobSystem(d, c) \/ ExpiryPasses(d, c)
                                        \/ JobEnds(d, c, "cancelled") \/ RetryJobTarget(d, c)

Spec == Init /\ [][Next]_vars

\* The schedulers and the dispatcher run forever and time passes.  Nobody has to
\* act: not the agent, not an operator.
Fairness ==
    /\ \A r \in Replicas : WF_vars(Scheduler(r))
    /\ \A d \in Devices, c \in Cycles : WF_vars(ExpireJob(d, c)) /\ WF_vars(ExpiryPasses(d, c))

FairSpec == Spec /\ Fairness

--------------------------------------------------------------------------------

\* Every row stays within its columns' meaning; the counters of the deployment
\* never leave 0 .. device_count.
TypeOK ==
    /\ Sensible
    /\ dep \in Deployment
    /\ pdd \in [Devices -> Row]
    /\ jobs \in [Devices -> [Cycles -> Job]]
    /\ sent \in [Devices -> Nat]
    /\ inv \subseteq Devices /\ disabled \subseteq Devices
    /\ open \in BOOLEAN
    /\ rep \in [Replicas -> Replica]
    /\ hand \in 0 .. MaxInterventions /\ crashes \in 0 .. MaxCrashes

\* A device is sent its patch command at most once more than the policy's
\* max_retries, over all the windows and jobs of the deployment, timeouts and
\* retries by hand included (QueuePatchRolloutDevice, remainingRetries).
PatchBudget == \A d \in Devices : sent[d] <= AttemptCap

\* No broad device has a job before the canary group finished with enough
\* successes, and these successes stay (advanceCanaryDeployment, Passes).
CanaryFirst ==
    (\E d \in Group("broad") : pdd[d].job # 0) =>
        LET S == Group("canary")
        IN  Cardinality(Succeeded(S)) * 100 >= Cardinality(S) * SuccessThreshold

\* Of the jobs a device got over the windows, at most one may still run: a job
\* is replaced only when it expired (QueuePatchRolloutDevice).
OneRunnableJob ==
    \A d \in Devices :
        Cardinality({c \in Cycles : jobs[d][c].status \in Live /\ ~jobs[d][c].due}) <= 1

\* A deployment is completed only if every one of its devices reported success
\* for its last job (advanceDeployingDeployment).
CompletedIsReal == dep.status = "completed" => Succeeded(Devices) = Devices
================================================================================
