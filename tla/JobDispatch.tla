------------------------------ MODULE JobDispatch ------------------------------
(***************************************************************************)
(* The orchestrator's side of the durable job system: one row of jobs, its *)
(* job_targets, their job_outbox and job_inbox rows, and the dispatchers   *)
(* of the orchestrator replicas that move them (internal/platform:         *)
(* jobs.go, dispatcher.go, result_retry.go and the triggers of             *)
(* pkg/postgres/durability_schema.go).                                     *)
(*                                                                         *)
(* One job suffices: no statement of the job system relates the rows of    *)
(* two jobs except through LIMIT, which BatchLimit models within a job.    *)
(* The agents are the environment: they may acknowledge, and report any    *)
(* result for, any well-formed command that was published.  AgentJobs      *)
(* models them in detail.                                                  *)
(*                                                                         *)
(* Time is nondeterministic.  Leases and the job deadline are flags that   *)
(* the passage of time raises.  available_at, scheduled_for and            *)
(* next_retry_at only hold a step back, and every step may be arbitrarily  *)
(* late, so they are left out.                                             *)
(***************************************************************************)
EXTENDS Integers, FiniteSets, TLC

CONSTANTS
    Targets,             \* the targets of the job
    Workers,             \* dispatcher processes, one per orchestrator replica
    MaxRetries,          \* jobs.max_retries
    BatchLimit,          \* the LIMIT of expireJobs and reconcile
    OutboxBatch,         \* the LIMIT of processOutbox
    Producers,           \* which of AllProducers may create the job
    AckStatuses,         \* what agents put in an acknowledgement
    ResultStatuses,      \* what agents put in a result
    MaxOperatorRetries,  \* bound on handleRetryJobTargets calls
    MaxAttempt,          \* bound on attempt numbers, above what the budget allows
    Nobody               \* NULL in lease_owner

-----------------------------------------------------------------------------
\* The state machine of targets, and the aggregation of target states into a job
\* state that the triggers, the result transaction and the reconciler all compute.

\* The states TransitionJob knows.  A target row may also hold "waiting"
\* (approved work for an offline device), which the state machine rejects.
ValidStates == {"pending", "queued", "dispatched", "running",
                "succeeded", "failed", "cancelled", "expired"}

Terminal == {"succeeded", "failed", "cancelled", "expired"}

\* What cancellation and expiry still touch.
Active == {"pending", "queued", "dispatched", "running"}

TargetStates == ValidStates \cup {"waiting"}

\* allowedTransitions: what the table allows from state s.
AllowedTransitions(s) ==
    CASE s = "pending"    -> {"queued", "cancelled", "expired"}
      [] s = "queued"     -> {"dispatched", "cancelled", "expired"}
      [] s = "dispatched" -> {"running"} \cup Terminal
      [] s = "running"    -> Terminal
      [] OTHER            -> {}

\* TransitionJob returns no error.
CanTransition(from, to) ==
    /\ from \in ValidStates
    /\ to \in ValidStates
    /\ to \in AllowedTransitions(from)

(***************************************************************************)
(* st maps each target of the job to its state.                            *)
(***************************************************************************)
AllTerminal(st) == \A t \in DOMAIN st : st[t] \in Terminal

\* Faulty variant: an expired target makes an expired job.
AggregateExpired(st) ==
    IF \E t \in DOMAIN st : st[t] = "expired" THEN "expired"
    ELSE IF \E t \in DOMAIN st : st[t] = "failed" THEN "failed"
    ELSE IF \E t \in DOMAIN st : st[t] = "cancelled" THEN "cancelled"
    ELSE "succeeded"

\* failed/expired, then cancelled, then success.
Aggregate(st) ==
    IF \E t \in DOMAIN st : st[t] \in {"failed", "expired"} THEN "failed"
    ELSE IF \E t \in DOMAIN st : st[t] = "cancelled" THEN "cancelled"
    ELSE "succeeded"

-----------------------------------------------------------------------------

AllProducers == {"api", "durable", "patch", "approval", "device"}

ASSUME TargetsAssumption == Targets # {} /\ IsFiniteSet(Targets)
ASSUME MaxRetriesAssumption == MaxRetries \in Nat
ASSUME BatchAssumption == BatchLimit \in Nat \ {0} /\ OutboxBatch \in Nat \ {0}
ASSUME ProducersAssumption == Producers \subseteq AllProducers
ASSUME StatusesAssumption ==
    /\ AckStatuses \subseteq {"accepted", "duplicate", "rejected", "unsupported", "expired"}
    /\ ResultStatuses \subseteq Terminal
ASSUME MaxOperatorRetriesAssumption == MaxOperatorRetries \in Nat
ASSUME MaxAttemptAssumption == MaxAttempt \in Nat /\ MaxAttempt > MaxRetries + 1
ASSUME NobodyAssumption == Nobody \notin Workers

VARIABLES
    job,        \* the jobs row; status "none" before it is inserted
    tgt,        \* the job_targets rows
    outbox,     \* the job_outbox rows, by event
    wk,         \* the publisher goroutine of each dispatcher
    inbox,      \* the message ids processed through job_inbox
    inventories,\* targets whose device.refresh inventory was accepted
    cmds,       \* commands published to the command stream
    cancels,    \* targets whose cancellation was published
    acks,       \* acknowledgements sent: delivered late, to each replica, or never
    results,    \* results sent: delivered until acknowledged, sent again on replay
    settled,    \* results whose receipt was published and whose message was acked
    opRetries   \* calls of handleRetryJobTargets so far

vars == <<job, tgt, outbox, wk, inbox, inventories, cmds, cancels,
          acks, results, settled, opRetries>>

Attempts == 1 .. MaxAttempt

\* Attempt 0 is the row of device_handlers.go, whose payload has no attempt.
Events == [kind : {"dispatch"}, target : Targets, attempt : 0 .. MaxAttempt]
          \cup [kind : {"cancel"}, target : Targets, attempt : {1}]

DispatchEvent(t, a) == [kind |-> "dispatch", target |-> t, attempt |-> a]
CancelEvent(t) == [kind |-> "cancel", target |-> t, attempt |-> 1]

\* lease_owner, and whether lease_expires is ahead.
Row == [state : {"absent", "unpublished", "published"},
        owner : Workers \cup {Nobody}, live : BOOLEAN]
Unleased(s) == [state |-> s, owner |-> Nobody, live |-> FALSE]

\* agent: agent_id is known.  lease: lease_expires is NULL, ahead or past.
Target == [status : TargetStates, agent : BOOLEAN, attempt : 0 .. MaxAttempt,
           retry : Nat,
           lease : {"none", "live", "lapsed"}]

Message == [target : Targets, attempt : Attempts]
Ack == [target : Targets, attempt : Attempts, status : AckStatuses]
Result == [target : Targets, attempt : Attempts, status : ResultStatuses]

\* message_id of an acknowledgement and of a result.
AckId(m) == <<"ack", m.target, m.attempt, m.status>>
ResultId(m) == <<"res", m.target, m.attempt>>
AckIds == {"ack"} \X Targets \X Attempts \X AckStatuses
ResultIds == {"res"} \X Targets \X Attempts

JobStates == {"none", "pending", "queued", "dispatched", "running",
              "succeeded", "failed", "cancelled"}

Created == job.status # "none"

StatusOf(rows) == [t \in Targets |-> rows[t].status]

\* Faulty variant: the trigger does not wait for the other targets.
RefreshedEarly(rows) ==
    IF \E t \in Targets : rows[t].status # tgt[t].status /\ rows[t].status \in Terminal
    THEN Aggregate(StatusOf(rows)) ELSE job.status

(***************************************************************************)
(* refresh_job_terminal_aggregate_from_target: the jobs.status after a     *)
(* statement that turned the target rows tgt into rows.                    *)
(***************************************************************************)
Refreshed(rows) ==
    IF /\ \E t \in Targets : /\ rows[t].status # tgt[t].status
                             /\ rows[t].status \in Terminal
       /\ AllTerminal(StatusOf(rows))
    THEN Aggregate(StatusOf(rows))
    ELSE job.status

\* enforce_job_terminal_aggregate: what UPDATE jobs SET status = s stores.
Enforced(s, rows) ==
    IF s \in {"succeeded", "failed", "cancelled"} /\ AllTerminal(StatusOf(rows))
    THEN Aggregate(StatusOf(rows))
    ELSE s

Init ==
    /\ job = [status |-> "none", producer |-> "none", expired |-> FALSE]
    /\ tgt = [t \in Targets |-> [status |-> "queued", agent |-> TRUE, attempt |-> 0,
                                 retry |-> 0, lease |-> "none"]]
    /\ outbox = [e \in Events |-> Unleased("absent")]
    /\ wk = [w \in Workers |-> [pc |-> "idle", batch |-> {}, event |-> Nobody]]
    /\ inbox = {} /\ inventories = {} /\ cmds = {} /\ cancels = {} /\ acks = {}
    /\ results = {} /\ settled = {}
    /\ opRetries = 0

streams == <<inventories, cmds, cancels, acks, results, settled>>

--------------------------------------------------------------------------------
(***************************************************************************)
(* Producers.  Each runs in one request transaction.                       *)
(***************************************************************************)

\* The job, its targets and, except for patches and offline devices, the
\* outbox row of the first attempt.
\* handleCreateJob: the payload has no schema_version, event_id and command_type.
CreateApiJob ==
    /\ job.status = "none" /\ "api" \in Producers
    /\ job' = [job EXCEPT !.status = "queued", !.producer = "api"]
    /\ outbox' = [e \in Events |-> IF e.kind = "dispatch" /\ e.attempt = 1
                                   THEN Unleased("unpublished") ELSE outbox[e]]
    /\ UNCHANGED <<tgt, wk, inbox, streams, opRetries>>

\* Software and script jobs: a complete command envelope.
CreateDurableJob ==
    /\ job.status = "none" /\ "durable" \in Producers
    /\ job' = [job EXCEPT !.status = "queued", !.producer = "durable"]
    /\ outbox' = [e \in Events |-> IF e.kind = "dispatch" /\ e.attempt = 1
                                   THEN Unleased("unpublished") ELSE outbox[e]]
    /\ UNCHANGED <<tgt, wk, inbox, streams, opRetries>>

\* QueuePatchRolloutDevice leaves the outbox to ensureQueuedOutbox.
CreatePatchJob ==
    /\ job.status = "none" /\ "patch" \in Producers
    /\ job' = [job EXCEPT !.status = "queued", !.producer = "patch"]
    /\ UNCHANGED <<tgt, outbox, wk, inbox, streams, opRetries>>

\* handleApproveRequest, the last approval: offline devices wait.
CreateApprovedJob ==
    /\ job.status = "none" /\ "approval" \in Producers
    /\ job' = [job EXCEPT !.status = "queued", !.producer = "approval"]
    /\ \E offline \in SUBSET Targets :
         /\ tgt' = [t \in Targets |-> IF t \in offline
                                      THEN [tgt[t] EXCEPT !.status = "waiting"] ELSE tgt[t]]
         /\ outbox' = [e \in Events |->
                         IF e.kind = "dispatch" /\ e.attempt = 1 /\ e.target \notin offline
                         THEN Unleased("unpublished") ELSE outbox[e]]
    /\ UNCHANGED <<wk, inbox, streams, opRetries>>

\* Device actions: neither the target nor the payload names the agent.
CreateDeviceJob ==
    /\ job.status = "none" /\ "device" \in Producers
    /\ job' = [job EXCEPT !.status = "queued", !.producer = "device"]
    /\ tgt' = [t \in Targets |-> [tgt[t] EXCEPT !.agent = FALSE]]
    /\ outbox' = [e \in Events |-> IF e.kind = "dispatch" /\ e.attempt = 0
                                  THEN Unleased("unpublished") ELSE outbox[e]]
    /\ UNCHANGED <<wk, inbox, streams, opRetries>>

(***************************************************************************)
(* handleCancelJob and handleRetryJobTargets.                              *)
(***************************************************************************)
\* Faulty variant: only targets an agent may already know of get a row.
CancelRowsForStarted(hit) ==
    [e \in Events |-> IF /\ e.kind = "cancel" /\ e.target \in hit
                         /\ tgt[e.target].status \in {"dispatched", "running"}
                     THEN Unleased("unpublished") ELSE outbox[e]]

\* One durable cancellation event per target the UPDATE touched.
CancelRows(hit) ==
    [e \in Events |-> IF e.kind = "cancel" /\ e.target \in hit
                     THEN Unleased("unpublished") ELSE outbox[e]]

CancelJob ==
    LET hit == {t \in Targets : tgt[t].status \in Active}
        rows == [t \in Targets |->
                   IF t \in hit THEN [tgt[t] EXCEPT !.status = "cancelled", !.lease = "none"]
                   ELSE tgt[t]]
    IN  /\ CanTransition(job.status, "cancelled")
        /\ \A t \in hit : tgt[t].agent
        /\ tgt' = rows
        /\ job' = [job EXCEPT !.status = Enforced("cancelled", rows)]
        /\ outbox' = CancelRows(hit)
        /\ UNCHANGED <<wk, inbox, streams, opRetries>>

\* The job is re-queued whether or not a target was.
RequeuedJob == [job EXCEPT !.status = "queued"]

Requeue(hit) ==
    /\ Created
    /\ opRetries < MaxOperatorRetries
    /\ opRetries' = opRetries + 1
    /\ tgt' = [t \in Targets |->
                 IF t \in hit THEN [tgt[t] EXCEPT !.status = "queued", !.retry = @ + 1]
                 ELSE tgt[t]]
    /\ job' = RequeuedJob
    /\ UNCHANGED <<outbox, wk, inbox, streams>>

\* ?target_id=t: the retry budget is not consulted.
RetryTarget(t) == Requeue({t} \cap {u \in Targets : tgt[u].status \in {"failed", "expired"}})

RetryAll == Requeue({t \in Targets : /\ tgt[t].status \in {"failed", "expired"}
                                     /\ tgt[t].retry < MaxRetries})

\* An accepted inventory of a device.refresh job completes its target; such
\* jobs reach an agent only through an approval.
SubmitInventory(t) ==
    LET rows == [tgt EXCEPT ![t].status = "succeeded"]
    IN  /\ job.producer = "approval"
        /\ \E c \in cmds : c.target = t
        /\ tgt[t].status \in {"dispatched", "running"}
        /\ tgt' = rows
        /\ job' = [job EXCEPT !.status = Refreshed(rows)]
        /\ inventories' = inventories \cup {t}
        /\ UNCHANGED <<outbox, wk, inbox, cmds, cancels, acks, results, settled,
                       opRetries>>

--------------------------------------------------------------------------------
(***************************************************************************)
(* outboxPublisher: one goroutine per dispatcher runs these one at a time. *)
(***************************************************************************)
Idle(w) == wk[w].pc = "idle"

NeedsCommand(t) == tgt[t].status = "queued" /\ tgt[t].retry <= MaxRetries

EnsureQueuedOutbox(w) ==
    LET missing == {DispatchEvent(t, tgt[t].attempt + 1) :
                      t \in {u \in Targets : NeedsCommand(u)}}
    IN  /\ Idle(w)
        /\ Created /\ ~job.expired
        /\ \E e \in missing : outbox[e].state = "absent"
        /\ outbox' = [e \in Events |-> IF e \in missing /\ outbox[e].state = "absent"
                                       THEN Unleased("unpublished") ELSE outbox[e]]
        /\ UNCHANGED <<job, tgt, wk, inbox, streams, opRetries>>

Claimable == {e \in Events : outbox[e].state = "unpublished" /\ ~outbox[e].live}

\* The UPDATE ... FOR UPDATE SKIP LOCKED: rows another claim holds are skipped.
ClaimOutbox(w) ==
    /\ Idle(w)
    /\ \E batch \in SUBSET Claimable :
         /\ batch # {} /\ Cardinality(batch) <= OutboxBatch
         /\ outbox' = [e \in Events |-> IF e \in batch
                                        THEN [outbox[e] EXCEPT !.owner = w, !.live = TRUE]
                                        ELSE outbox[e]]
         /\ wk' = [wk EXCEPT ![w] = [pc |-> "batch", batch |-> batch, event |-> Nobody]]
    /\ UNCHANGED <<job, tgt, inbox, streams, opRetries>>

\* Event e of w's batch is done with; the goroutine leaves the loop with the last one.
Done(w, e) ==
    LET rest == wk[w].batch \ {e}
    IN  wk' = [wk EXCEPT ![w] = [pc |-> IF rest = {} THEN "idle" ELSE "batch",
                                 batch |-> rest, event |-> Nobody]]

\* Faulty variant: a row that failed is given up.
FailOutboxGivesUp(w, e) ==
    outbox' = IF outbox[e].owner = w THEN [outbox EXCEPT ![e] = Unleased("published")] ELSE outbox

\* failOutbox: only the lease owner may push the row back.
FailOutbox(w, e) ==
    outbox' = IF outbox[e].owner = w THEN [outbox EXCEPT ![e] = Unleased("unpublished")] ELSE outbox

\* The row is published unless another dispatcher took the lease over, or the
\* statement fails and is only logged.
FinalizeOutbox(w, e) ==
    \/ outbox[e].owner = w /\ outbox' = [outbox EXCEPT ![e] = Unleased("published")]
    \/ outbox' = outbox

\* The payload is unusable: no agent, or no attempt.
RejectEvent(w, e) ==
    /\ wk[w].pc = "batch" /\ e \in wk[w].batch
    /\ ~tgt[e.target].agent \/ e.attempt < 1
    /\ FailOutbox(w, e)
    /\ Done(w, e)
    /\ UNCHANGED <<job, tgt, inbox, streams, opRetries>>

\* A cancellation is published and finalised without touching the target.
PublishCancel(w, e) ==
    /\ wk[w].pc = "batch" /\ e \in wk[w].batch
    /\ tgt[e.target].agent /\ e.kind = "cancel"
    /\ cancels' = cancels \cup {e.target}
    /\ FinalizeOutbox(w, e)
    /\ Done(w, e)
    /\ UNCHANGED <<job, tgt, inbox, inventories, cmds, acks, results, settled,
                   opRetries>>

\* Any step of processing e up to the flush fails.  A buffered message may go
\* out although the flush timed out.
PublishFails(w, e) ==
    /\ \/ wk[w].pc = "batch" /\ e \in wk[w].batch /\ UNCHANGED streams
       \/ /\ wk[w].pc = "batch" /\ e \in wk[w].batch /\ e.kind = "cancel"
          /\ cancels' = cancels \cup {e.target}
          /\ UNCHANGED <<inventories, cmds, acks, results, settled>>
       \/ wk[w].pc = "marked" /\ wk[w].event = e /\ UNCHANGED streams
       \/ /\ wk[w].pc = "marked" /\ wk[w].event = e
          /\ cmds' = cmds \cup {[target |-> e.target, attempt |-> e.attempt]}
          /\ UNCHANGED <<inventories, cancels, acks, results, settled>>
    /\ tgt[e.target].agent /\ e.attempt >= 1
    /\ FailOutbox(w, e)
    /\ Done(w, e)
    /\ UNCHANGED <<job, tgt, inbox, opRetries>>

\* Faulty variant: nothing is published when the UPDATE touched no target.
AfterDispatchTxSkips(hit) == IF hit THEN "marked" ELSE "sent"

\* The row goes on to be published even if the target was not touched.
AfterDispatchTx(hit) == "marked"

\* The dispatch transaction.
MarkDispatched(w, e) ==
    LET t == e.target
        hit == \/ tgt[t].status = "queued"
               \/ tgt[t].status = "dispatched" /\ tgt[t].attempt < e.attempt
    IN  /\ wk[w].pc = "batch" /\ e \in wk[w].batch
        /\ e.kind = "dispatch" /\ e.attempt >= 1 /\ tgt[t].agent
        /\ tgt' = IF hit THEN [tgt EXCEPT ![t].status = "dispatched",
                                          ![t].attempt = e.attempt, ![t].lease = "live"]
                  ELSE tgt
        /\ job' = IF hit /\ job.status \in {"pending", "queued"}
                  THEN [job EXCEPT !.status = "dispatched"] ELSE job
        /\ wk' = [wk EXCEPT ![w].pc = AfterDispatchTx(hit), ![w].event = e]
        /\ UNCHANGED <<outbox, inbox, streams, opRetries>>

\* nc.Publish and the flush succeed.
PublishCommand(w) ==
    /\ wk[w].pc = "marked"
    /\ cmds' = cmds \cup {[target |-> wk[w].event.target, attempt |-> wk[w].event.attempt]}
    /\ wk' = [wk EXCEPT ![w].pc = "sent"]
    /\ UNCHANGED <<job, tgt, outbox, inbox, inventories, cancels, acks, results, settled,
                   opRetries>>

FinalizeDispatch(w) ==
    /\ wk[w].pc = "sent"
    /\ FinalizeOutbox(w, wk[w].event)
    /\ Done(w, wk[w].event)
    /\ UNCHANGED <<job, tgt, inbox, streams, opRetries>>

\* SELECT ... LIMIT over rows, in no particular order.
Limited(rows) ==
    {batch \in SUBSET rows :
        Cardinality(batch) = IF Cardinality(rows) <= BatchLimit THEN Cardinality(rows)
                             ELSE BatchLimit}

\* Faulty variants: expiry forgets the target's state, or started targets.
ExpirableAlways(t) == TRUE
ExpirableQueued(t) == tgt[t].status \in {"pending", "queued"}

Expirable(t) == tgt[t].status \in Active

\* The subquery of expireJobs picks targets in any state, and leases stay.
ExpireJobs(w) ==
    /\ Idle(w)
    /\ Created /\ job.expired
    /\ \E batch \in Limited(Targets) :
         LET rows == [t \in Targets |->
                        IF t \in batch /\ Expirable(t)
                        THEN [tgt[t] EXCEPT !.status = "expired"] ELSE tgt[t]]
         IN  /\ rows # tgt
             /\ tgt' = rows
             /\ job' = [job EXCEPT !.status = Refreshed(rows)]
    /\ UNCHANGED <<outbox, wk, inbox, streams, opRetries>>

\* The devices of some waiting targets are online again.
HandleOfflineReconnect(w) ==
    /\ Idle(w)
    /\ Created
    /\ \E online \in SUBSET {t \in Targets : tgt[t].status = "waiting"} :
         /\ online # {}
         /\ tgt' = [t \in Targets |-> IF t \in online
                                      THEN [tgt[t] EXCEPT !.status = "queued"] ELSE tgt[t]]
    /\ UNCHANGED <<job, outbox, wk, inbox, streams, opRetries>>

ExpireOfflineWork(w) ==
    LET rows == [t \in Targets |-> IF tgt[t].status = "waiting"
                                   THEN [tgt[t] EXCEPT !.status = "expired"] ELSE tgt[t]]
    IN  /\ Idle(w)
        /\ Created /\ job.expired
        /\ rows # tgt
        /\ tgt' = rows
        /\ job' = [job EXCEPT !.status = Refreshed(rows)]
        /\ UNCHANGED <<outbox, wk, inbox, streams, opRetries>>

--------------------------------------------------------------------------------
(***************************************************************************)
(* reconcile: three statements, each committed by itself.  The first never *)
(* matches, since nothing sets job_targets.lease_owner.                    *)
(***************************************************************************)
TimedOut(t) == tgt[t].lease = "lapsed" /\ tgt[t].status \in {"dispatched", "running"}

\* Faulty variant: the retry is not counted.
AfterTimeoutUncounted(row) ==
    [row EXCEPT !.status = IF row.retry < MaxRetries THEN "queued" ELSE "failed",
                !.lease = "none"]

AfterTimeout(row) ==
    [row EXCEPT !.status = IF row.retry < MaxRetries THEN "queued" ELSE "failed",
                !.retry = @ + 1, !.lease = "none"]

ReconcileTimeouts ==
    /\ Created /\ ~job.expired
    /\ \E batch \in Limited({t \in Targets : tgt[t].lease = "lapsed"}) :
         LET rows == [t \in Targets |->
                        IF t \in batch /\ TimedOut(t) THEN AfterTimeout(tgt[t]) ELSE tgt[t]]
         IN  /\ rows # tgt
             /\ tgt' = rows
             /\ job' = [job EXCEPT !.status = Refreshed(rows)]
    /\ UNCHANGED <<outbox, wk, inbox, streams, opRetries>>

ReconcileAggregates ==
    /\ Created
    /\ AllTerminal(StatusOf(tgt))
    /\ job' = [job EXCEPT !.status = Aggregate(StatusOf(tgt))]
    /\ UNCHANGED <<tgt, outbox, wk, inbox, streams, opRetries>>

--------------------------------------------------------------------------------
(***************************************************************************)
(* Messages from the agents.                                               *)
(***************************************************************************)

\* What handleAgentAck makes of a target in state s.
NextStatus(s, status) ==
    CASE status = "accepted"  -> "running"
      [] status = "duplicate" -> s
      [] status = "expired"   -> "expired"
      [] OTHER                -> "failed"

\* Every replica receives a copy of an acknowledgement.
HandleAgentAck(m) ==
    LET t == m.target
        next == NextStatus(tgt[t].status, m.status)
        rows == [tgt EXCEPT ![t].status = next]
    IN  /\ AckId(m) \notin inbox
        /\ tgt[t].attempt = m.attempt
        /\ next = tgt[t].status \/ CanTransition(tgt[t].status, next)
        /\ tgt' = rows
        /\ job' = [job EXCEPT !.status = Refreshed(rows)]
        /\ inbox' = inbox \cup {AckId(m)}
        /\ UNCHANGED <<outbox, wk, streams, opRetries>>

\* processAgentResultOnce returns true: the message id was claimed before, or
\* the target already ended that way (or was cancelled), or the result applies.
\* In every other case the transaction rolls back and the message is redelivered.
Replayed(m) == ResultId(m) \in inbox

Agrees(m) ==
    /\ ResultId(m) \notin inbox
    /\ tgt[m.target].attempt = m.attempt
    /\ tgt[m.target].status \in {m.status, "cancelled"}

\* Faulty variant: the attempt is not compared.
AppliesToAnyAttempt(m) ==
    ResultId(m) \notin inbox /\ CanTransition(tgt[m.target].status, m.status)

Applies(m) ==
    /\ ResultId(m) \notin inbox
    /\ tgt[m.target].attempt = m.attempt
    /\ CanTransition(tgt[m.target].status, m.status)

\* Faulty variant: a message whose transaction rolled back is acknowledged too.
ProcessAgentResultAcksAll(m) ==
    /\ settled' = settled \cup {m}
    /\ UNCHANGED <<job, tgt, outbox, wk, inbox, inventories, cmds, cancels, acks,
                   results, opRetries>>

\* The transaction, then the receipt and the ack, which a crash may prevent.
ProcessAgentResult(m) ==
    LET rows == [tgt EXCEPT ![m.target].status = m.status, ![m.target].lease = "none"]
    IN  /\ \/ (Replayed(m) \/ Agrees(m)) /\ UNCHANGED <<tgt, job>>
           \/ /\ Applies(m)
              /\ tgt' = rows
              /\ job' = [job EXCEPT !.status = Refreshed(rows)]
        /\ inbox' = inbox \cup {ResultId(m)}
        /\ settled' \in {settled, settled \cup {m}}
        /\ UNCHANGED <<outbox, wk, inventories, cmds, cancels, acks, results, opRetries>>

--------------------------------------------------------------------------------
(***************************************************************************)
(* The environment: agents, crashes and the passage of time.               *)
(***************************************************************************)

\* validateCommand accepts the envelope: handleCreateJob's lacks three fields.
WellFormed(c) == ~(job.producer = "api" /\ c.attempt = 1)

AgentAcks(c, s) ==
    /\ WellFormed(c)
    /\ acks' = acks \cup {[target |-> c.target, attempt |-> c.attempt, status |-> s]}
    /\ UNCHANGED <<job, tgt, outbox, wk, inbox, inventories, cmds, cancels, results,
                   settled, opRetries>>

AgentReports(c, s) ==
    /\ WellFormed(c)
    /\ results' = results \cup {[target |-> c.target, attempt |-> c.attempt, status |-> s]}
    /\ UNCHANGED <<job, tgt, outbox, wk, inbox, inventories, cmds, cancels, acks,
                   settled, opRetries>>

\* The dispatcher process dies anywhere in processOutbox.
CrashWorker(w) ==
    /\ ~Idle(w)
    /\ wk' = [wk EXCEPT ![w] = [pc |-> "idle", batch |-> {}, event |-> Nobody]]
    /\ UNCHANGED <<job, tgt, outbox, inbox, streams, opRetries>>

JobDeadline ==
    /\ Created /\ ~job.expired
    /\ job' = [job EXCEPT !.expired = TRUE]
    /\ UNCHANGED <<tgt, outbox, wk, inbox, streams, opRetries>>

LeaseLapses(t) ==
    /\ tgt[t].lease = "live"
    /\ tgt' = [tgt EXCEPT ![t].lease = "lapsed"]
    /\ UNCHANGED <<job, outbox, wk, inbox, streams, opRetries>>

OutboxLeaseLapses(e) ==
    /\ outbox[e].live
    /\ outbox' = [outbox EXCEPT ![e].live = FALSE]
    /\ UNCHANGED <<job, tgt, wk, inbox, streams, opRetries>>

--------------------------------------------------------------------------------
Request ==
    \/ CreateApiJob \/ CreateDurableJob \/ CreatePatchJob
    \/ CreateApprovedJob \/ CreateDeviceJob
    \/ CancelJob \/ RetryAll
    \/ \E t \in Targets : RetryTarget(t) \/ SubmitInventory(t)

Publisher(w) ==
    \/ EnsureQueuedOutbox(w) \/ ClaimOutbox(w)
    \/ \E e \in Events : \/ RejectEvent(w, e) \/ PublishCancel(w, e)
                         \/ PublishFails(w, e) \/ MarkDispatched(w, e)
    \/ PublishCommand(w) \/ FinalizeDispatch(w)
    \/ ExpireJobs(w) \/ HandleOfflineReconnect(w) \/ ExpireOfflineWork(w)

Consumer ==
    \/ \E m \in acks : HandleAgentAck(m)
    \/ \E m \in results : ProcessAgentResult(m)

Environment ==
    \/ \E c \in cmds : \/ \E s \in AckStatuses : AgentAcks(c, s)
                       \/ \E s \in ResultStatuses : AgentReports(c, s)
    \/ \E w \in Workers : CrashWorker(w)
    \/ JobDeadline
    \/ \E t \in Targets : LeaseLapses(t)
    \/ \E e \in Events : OutboxLeaseLapses(e)

Next ==
    \/ Request
    \/ \E w \in Workers : Publisher(w)
    \/ ReconcileTimeouts \/ ReconcileAggregates
    \/ Consumer
    \/ Environment

Spec == Init /\ [][Next]_vars

\* The loops of a dispatcher run for as long as the process does, and it is
\* restarted: each task is taken up again and again (strong fairness, since the
\* goroutine is busy with other tasks in between), and no row is passed over for
\* ever, since rows are claimed oldest first and failed ones back off.  Time
\* passes and NATS is not down for ever.  Nothing is assumed of operators,
\* agents and crashes.
ClaimEvent(w, e) == ClaimOutbox(w) /\ e \in wk'[w].batch

Fairness ==
    /\ \A w \in Workers :
         /\ SF_vars(ExpireJobs(w)) /\ SF_vars(ExpireOfflineWork(w))
         /\ \A t \in Targets : /\ SF_vars(ClaimEvent(w, CancelEvent(t)))
                               /\ SF_vars(PublishCancel(w, CancelEvent(t)))
         /\ \A e \in Events : WF_vars(RejectEvent(w, e) \/ MarkDispatched(w, e))
         /\ WF_vars(PublishCommand(w)) /\ WF_vars(FinalizeDispatch(w))
    /\ WF_vars(ReconcileAggregates)
    /\ WF_vars(JobDeadline)
    /\ \A t \in Targets : WF_vars(OutboxLeaseLapses(CancelEvent(t)))

FairSpec == Spec /\ Fairness

--------------------------------------------------------------------------------
(***************************************************************************)
(* Properties.                                                             *)
(***************************************************************************)
TypeOK ==
    /\ job \in [status : JobStates, producer : AllProducers \cup {"none"}, expired : BOOLEAN]
    /\ tgt \in [Targets -> Target]
    /\ outbox \in [Events -> Row]
    /\ wk \in [Workers -> [pc : {"idle", "batch", "marked", "sent"}, batch : SUBSET Events,
                           event : Events \cup {Nobody}]]
    /\ inbox \subseteq AckIds \cup ResultIds
    /\ inventories \subseteq Targets
    /\ cmds \subseteq Message
    /\ cancels \subseteq Targets
    /\ acks \subseteq Ack
    /\ results \subseteq Result /\ settled \subseteq results
    /\ opRetries \in 0 .. MaxOperatorRetries

\* The retry budget bounds what reaches an agent: whatever timeouts, crashes,
\* lost leases and operator retries happen, a target is commanded at most
\* max_retries + 1 times, and each command after the first is paid for by a
\* counted retry (ensureQueuedOutbox, reconcile, handleRetryJobTargets).
RetryBudget ==
    \A c \in cmds : /\ c.attempt <= MaxRetries + 1
                    /\ c.attempt <= tgt[c.target].retry + 1

\* A job that is reported finished is finished: every target is terminal and
\* the job status is their aggregate, although targets, triggers, results,
\* expiry and the reconciler write both.  A cancelled job may still have
\* targets that wait for an offline device, which handleCancelJob skips.
FinishedJobIsAggregate ==
    \/ job.status = "succeeded"
    \/ job.status = "failed"
    \/ job.status = "cancelled" /\ job.producer # "approval"
    => AllTerminal(StatusOf(tgt)) /\ job.status = Aggregate(StatusOf(tgt))

\* A target is reported succeeded only on evidence: an agent that was sent the
\* command reported success for the attempt the target is at, or submitted the
\* inventory the job asked for.
SuccessHasEvidence ==
    \A t \in Targets :
       tgt[t].status = "succeeded"
       => \/ t \in inventories
          \/ /\ <<"res", t, tgt[t].attempt>> \in inbox
             /\ [target |-> t, attempt |-> tgt[t].attempt] \in cmds
             /\ [target |-> t, attempt |-> tgt[t].attempt, status |-> "succeeded"] \in results

\* A result whose message was acknowledged, so that neither the stream nor the
\* agent will offer it again, was processed: the acknowledgement follows the
\* commit, and a rolled back transaction is never acknowledged.
SettledIsProcessed == \A m \in settled : ResultId(m) \in inbox

\* A cancelled target either carries a durable cancellation event for its agent
\* or was cancelled by the agent's own result.
CancelIsDurable ==
    \A t \in Targets :
       tgt[t].status = "cancelled"
       => \/ outbox[CancelEvent(t)].state # "absent"
          \/ <<"res", t, tgt[t].attempt>> \in inbox

\* An outbox row is marked published only when its message went out, however
\* often the lease on it changed hands.
PublishedRowWasSent ==
    \A e \in Events :
       outbox[e].state = "published"
       => \/ e.kind = "dispatch" /\ [target |-> e.target, attempt |-> e.attempt] \in cmds
          \/ e.kind = "cancel" /\ e.target \in cancels

\* In the end every target is terminal and the job says so.
JobSettles == <>[](Created => /\ AllTerminal(StatusOf(tgt))
                              /\ job.status = Aggregate(StatusOf(tgt)))

\* A cancellation reaches the agent's subject, whatever crashes and failed
\* publications come before.
CancelIsSent ==
    \A t \in Targets : outbox[CancelEvent(t)].state # "absent" ~> t \in cancels

\* PF-04 of PATCH_FLEET_ALPHA_ACCEPTANCE.md, "a stale attempt cannot overwrite
\* the current target": the attempt number, which result ingestion compares,
\* never goes back (processOutbox).
AttemptNeverRegresses ==
    [][\A t \in Targets : tgt'[t].attempt >= tgt[t].attempt]_vars

--------------------------------------------------------------------------------
(***************************************************************************)
(* What all this is for: module JobOutcomes, with the rows as its state.   *)
(***************************************************************************)
OutcomeOf(status) == IF status \in Terminal THEN status ELSE "open"

Outcomes == [t \in Targets |-> OutcomeOf(tgt[t].status)]
Commanded == [t \in Targets |-> {c.attempt : c \in {d \in cmds : d.target = t}}]
Proven == {m.target : m \in {r \in results : r.status = "succeeded"}} \cup inventories

Promise == INSTANCE JobOutcomes WITH
    outcome <- Outcomes, sent <- Commanded, proven <- Proven, reopened <- opRetries

\* Whatever acknowledgements, duplicates, timeouts, expiry, crashes and stale
\* outbox rows do, callers see the abstract job system: an agent gets at most
\* max_retries + 1 attempts, a target ends once, as succeeded only when an agent
\* that was commanded reported it or submitted the inventory, and only a counted
\* retry of an operator reopens a failed or expired one.
ImplementsOutcomes == Promise!Spec

\* Targets and dispatchers are interchangeable: no step prefers one to another.
Interchangeable == Permutations(Targets) \cup Permutations(Workers)
================================================================================
