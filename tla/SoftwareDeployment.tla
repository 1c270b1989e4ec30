-------------------------- MODULE SoftwareDeployment --------------------------
(***************************************************************************)
(* A software deployment: the view (software_deployments and               *)
(* software_deployment_targets) of a durable job whose targets install a   *)
(* package.  handleCreateDurableSoftwareDeployment writes job and view in  *)
(* one transaction; afterwards only a trigger of job_targets               *)
(* (durability_schema.go) keeps the view, inside whatever transaction      *)
(* settles a target: an agent's result, the dispatcher's sweeps, a cancel. *)
(*                                                                         *)
(* Every transaction is READ COMMITTED: a statement sees what others have  *)
(* committed when it starts, and its own writes.                           *)
(***************************************************************************)
EXTENDS Naturals

CONSTANTS Targets,     \* devices of the deployment
          Txs,         \* transactions that may run at the same time
          MaxRetries   \* bound on operator retries

VARIABLES
    package,     \* does the package row exist?
    deployment,  \* status of the deployment row
    row,         \* its target rows
    target,      \* status of each job target
    reported,    \* result each agent has published for the present attempt
    installed,   \* devices on which the installer ended with exit code 0 in time
    lock,        \* the transaction that holds the row lock of the job, if any
    tx,          \* transactions
    retries

vars == <<package, deployment, row, target, reported, installed, lock, tx, retries>>

Open == {"queued", "running"}
Settled == {"succeeded", "failed", "expired", "cancelled"}

Outcome(to) == IF to = "succeeded" THEN "success" ELSE "failed"

NoRow == [t \in Targets |-> "none"]
Idle == [pc |-> "idle", hit |-> {}, to |-> "none", rows |-> NoRow, status |-> "none"]

Init ==
    /\ package = TRUE /\ deployment = "none"
    /\ row = NoRow /\ target = NoRow
    /\ reported = NoRow /\ installed = {}
    /\ lock = {} /\ tx = [w \in Txs |-> Idle] /\ retries = 0

\* No other transaction holds the target row of t.
Free(t) == \A w \in Txs : t \notin tx[w].hit

view == <<package, deployment, row>>
agents == <<reported, installed>>

-----------------------------------------------------------------------------

\* The package exists in the tenant (and every device is active, enrolled and of
\* one client).
Deployable == package /\ deployment = "none"

CreateDeployment ==
    /\ Deployable
    /\ deployment' = "deploying"
    /\ row' = [t \in Targets |-> "pending"] /\ target' = [t \in Targets |-> "queued"]
    /\ UNCHANGED <<package, agents, lock, tx, retries>>

\* DELETE cascades to the deployment and its target rows; the job stays.
DeletePackage ==
    /\ package /\ \A w \in Txs : tx[w].pc # "synced"
    /\ package' = FALSE
    /\ deployment' = IF deployment = "none" THEN "none" ELSE "deleted"
    /\ row' = NoRow
    /\ UNCHANGED <<target, agents, lock, tx, retries>>

\* The dispatcher sends the command and the agent acknowledges it.
Dispatch(t) ==
    /\ target[t] = "queued" /\ Free(t)
    /\ target' = [target EXCEPT ![t] = "running"]
    /\ UNCHANGED <<view, agents, lock, tx, retries>>

\* What an attempt meets on the device.
Outcomes == [download : {"complete", "http_error", "checksum_mismatch"},
             exit : {0, 1}, context : {"live", "deadline", "cancelled"}]

DownloadFile(o) == o.download = "complete"

\* executeWithContext: an exit code counts only if the context is still live.
ExecuteWithContext(o) ==
    IF DownloadFile(o) /\ o.context = "live" /\ o.exit = 0 THEN "success" ELSE "failed"

RunDurableJob(t, o) ==
    /\ target[t] = "running" /\ reported[t] = "none"
    /\ LET status == ExecuteWithContext(o) IN
       /\ reported' = [reported EXCEPT ![t] = IF status = "success" THEN "succeeded" ELSE "failed"]
       /\ installed' = IF status = "success" THEN installed \cup {t} ELSE installed
    /\ UNCHANGED <<view, target, lock, tx, retries>>

-----------------------------------------------------------------------------
\* The transactions that settle targets.

\* The transaction has updated its targets; and its next statement has run.
Updated(hit, to) == [Idle EXCEPT !.pc = "updated", !.hit = hit, !.to = to]
At(q, pc) == [q EXCEPT !.pc = pc]

\* An agent's result locks its target and the job in one SELECT ... FOR NO KEY
\* UPDATE, then updates the target.
ApplyResult(w, t) ==
    /\ tx[w].pc = "idle" /\ reported[t] # "none" /\ target[t] = "running"
    /\ Free(t) /\ lock = {}
    /\ lock' = {w}
    /\ tx' = [tx EXCEPT ![w] = Updated({t}, reported[t])]
    /\ UNCHANGED <<view, target, agents, retries>>

\* expireJobs and expireOfflineWork: one UPDATE over targets of an expired job.
ExpireTargets(w, hit) ==
    /\ tx[w].pc = "idle"
    /\ \A t \in hit : target[t] \in Open /\ Free(t)
    /\ tx' = [tx EXCEPT ![w] = Updated(hit, "expired")]
    /\ UNCHANGED <<view, target, agents, lock, retries>>

\* reconcile: a timed-out attempt without attempts left.
FailTargets(w, hit) ==
    /\ tx[w].pc = "idle"
    /\ \A t \in hit : target[t] = "running" /\ Free(t)
    /\ tx' = [tx EXCEPT ![w] = Updated(hit, "failed")]
    /\ UNCHANGED <<view, target, agents, lock, retries>>

\* handleCancelJob updates the job first and then its open targets.
LockJob(w) ==
    /\ tx[w].pc = "idle" /\ lock = {} /\ \E t \in Targets : target[t] \in Open
    /\ lock' = {w}
    /\ tx' = [tx EXCEPT ![w] = At(Idle, "cancelling")]
    /\ UNCHANGED <<view, target, agents, retries>>

CancelTargets(w) ==
    LET hit == {t \in Targets : target[t] \in Open} IN
    /\ tx[w].pc = "cancelling" /\ hit # {} /\ \A t \in hit : Free(t)
    /\ tx' = [tx EXCEPT ![w] = Updated(hit, "cancelled")]
    /\ UNCHANGED <<view, target, agents, lock, retries>>

\* Faulty: the job row is only written when the job is finished.
RefreshFinishedJob(w) ==
    /\ tx[w].pc = "updated" /\ lock \subseteq {w}
    /\ lock' = IF \A t \in Targets \ tx[w].hit : target[t] \in Settled THEN {w} ELSE lock
    /\ tx' = [tx EXCEPT ![w] = At(tx[w], "refreshed")]
    /\ UNCHANGED <<view, target, agents, retries>>

\* refresh_job_terminal_aggregate_from_target, the first trigger by name, writes
\* the job row whatever it counts, and so waits for the transaction that holds it.
RefreshJob(w) ==
    /\ tx[w].pc = "updated" /\ lock \subseteq {w}
    /\ lock' = {w}
    /\ tx' = [tx EXCEPT ![w] = At(tx[w], "refreshed")]
    /\ UNCHANGED <<view, target, agents, retries>>

\* The deployment's status once no target row is pending, else it stays.
Aggregate(rows) ==
    IF \E t \in Targets : rows[t] = "pending" THEN deployment
    ELSE IF \E t \in Targets : rows[t] = "failed" THEN "failed" ELSE "completed"

\* sync_software_deployment_target_from_job_target: pending rows of the settled
\* targets follow them; only if there are any is the deployment aggregated.
Hit(q) == {t \in q.hit : row[t] = "pending"}
RowsAfter(q) == [t \in Targets |-> IF t \in Hit(q) THEN Outcome(q.to) ELSE row[t]]
StatusAfter(q) == IF Hit(q) = {} THEN deployment ELSE Aggregate(RowsAfter(q))
Synced(q) == [q EXCEPT !.pc = "synced", !.rows = RowsAfter(q), !.status = StatusAfter(q)]

SyncDeployment(w) ==
    /\ tx[w].pc = "refreshed"
    /\ tx' = [tx EXCEPT ![w] = Synced(tx[w])]
    /\ UNCHANGED <<view, target, agents, lock, retries>>

\* The rows this transaction wrote become visible and its locks are released.
Commit(w) ==
    LET hit == tx[w].hit IN
    /\ tx[w].pc = "synced"
    /\ target' = [t \in Targets |-> IF t \in hit THEN tx[w].to ELSE target[t]]
    /\ row' = [t \in Targets |-> IF t \in hit THEN tx[w].rows[t] ELSE row[t]]
    /\ deployment' = IF tx[w].status \in {"failed", "completed"} THEN tx[w].status ELSE deployment
    /\ tx' = [tx EXCEPT ![w] = Idle] /\ lock' = lock \ {w}
    /\ UNCHANGED <<package, agents, retries>>

\* A statement fails, a replica dies, or PostgreSQL ends a deadlock.
RollBack(w) ==
    /\ tx[w].pc # "idle"
    /\ tx' = [tx EXCEPT ![w] = Idle] /\ lock' = lock \ {w}
    /\ UNCHANGED <<view, target, agents, retries>>

\* handleRetryJobTargets queues a failed or expired target again.  The view keeps
\* the first outcome: its trigger only moves pending rows.
RetryTarget(t) ==
    /\ retries < MaxRetries /\ target[t] \in {"failed", "expired"} /\ Free(t) /\ lock = {}
    /\ target' = [target EXCEPT ![t] = "queued"] /\ reported' = [reported EXCEPT ![t] = "none"]
    /\ retries' = retries + 1
    /\ UNCHANGED <<view, installed, lock, tx>>

-----------------------------------------------------------------------------

Settle(w) ==
    \/ \E t \in Targets : ApplyResult(w, t)
    \/ \E hit \in (SUBSET Targets) \ {{}} : ExpireTargets(w, hit) \/ FailTargets(w, hit)
    \/ LockJob(w) \/ CancelTargets(w)
    \/ RefreshJob(w) \/ SyncDeployment(w) \/ Commit(w) \/ RollBack(w)

Next ==
    \/ CreateDeployment \/ DeletePackage
    \/ \E t \in Targets : Dispatch(t) \/ RetryTarget(t) \/ \E o \in Outcomes : RunDurableJob(t, o)
    \/ \E w \in Txs : Settle(w)

Spec == Init /\ [][Next]_vars

Viewed == {"deploying", "completed", "failed"}
Targeted == {"none"} \cup Open \cup Settled
RowValues == {"none", "pending", "success", "failed"}
Transaction ==
    [pc : {"idle", "cancelling", "updated", "refreshed", "synced"}, hit : SUBSET Targets, to : Targeted,
     rows : [Targets -> RowValues], status : Viewed \cup {"none", "deleted"}]

TypeOK ==
    /\ package \in BOOLEAN
    /\ deployment \in Viewed \cup {"none", "deleted"}
    /\ row \in [Targets -> RowValues]
    /\ target \in [Targets -> Targeted]
    /\ reported \in [Targets -> {"none", "succeeded", "failed"}] /\ installed \subseteq Targets
    /\ lock \subseteq Txs /\ tx \in [Txs -> Transaction] /\ retries \in 0 .. MaxRetries

-----------------------------------------------------------------------------

\* The view is never left behind: whichever transactions settle the targets, and
\* however they overlap, every settled target has left the pending state, the
\* deployment is settled as soon as its last target is, as failed exactly when a
\* target failed, and a row says success only if an installer ended well.
ViewFollowsJob ==
    deployment \in Viewed =>
        /\ \A t \in Targets : target[t] \in Settled => row[t] # "pending"
        /\ (\A t \in Targets : row[t] # "pending") <=> deployment # "deploying"
        /\ deployment = "completed" <=> \A t \in Targets : row[t] = "success"
        /\ \A t \in Targets : row[t] = "success" => t \in installed

\* Why it holds: the job's row is locked from the first trigger to the commit, so
\* what the second trigger counted is still so when its transaction commits; no
\* two transactions have a target in hand.
Locking == {"cancelling", "refreshed", "synced"}
TxInv(q) ==
    /\ q.pc \in {"idle", "cancelling"} => q.hit = {}
    /\ q.pc \notin {"idle", "cancelling"} =>
          /\ q.hit # {} /\ q.to \in Settled
          /\ \A t \in q.hit : target[t] \in Open /\ (q.to = "succeeded" => t \in installed)
    /\ q.pc = "synced" => q.rows = RowsAfter(q) /\ q.status = StatusAfter(q)

DeploymentInv ==
    /\ TypeOK
    /\ ViewFollowsJob
    /\ \A t \in Targets : reported[t] = "succeeded" => t \in installed
    /\ \A t \in Targets : row[t] = "none" <=> deployment \notin Viewed
    /\ deployment = "none" => \A t \in Targets : target[t] = "none"
    /\ \A w \in Txs : TxInv(tx[w]) /\ (tx[w].pc \in Locking => lock = {w})
    /\ \A w, o \in Txs : w # o => tx[w].hit \cap tx[o].hit = {}
    /\ deployment = "none" => \A w \in Txs : tx[w].pc = "idle"
=============================================================================
