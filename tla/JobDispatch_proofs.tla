--------------------------- MODULE JobDispatch_proofs ---------------------------
(***************************************************************************)
(* Proofs about JobDispatch, for every set of targets and dispatchers and  *)
(* every retry budget.                                                     *)
(***************************************************************************)
EXTENDS JobDispatch, TLAPS

\* A dispatcher past the dispatch transaction holds a proper dispatch event.
WorkerOK ==
    \A w \in Workers :
       wk[w].pc \in {"marked", "sent"}
       => /\ wk[w].event \in Events
          /\ wk[w].event.kind = "dispatch"
          /\ wk[w].event.attempt >= 1

TypeInv == TypeOK /\ WorkerOK

USE DEF Created, Idle, streams

\* The aggregate of target states, and what the triggers store, is a job status.
LEMMA AggregateType ==
    ASSUME NEW st
    PROVE  Aggregate(st) \in {"succeeded", "failed", "cancelled"}
BY Zenon DEF Aggregate

LEMMA RefreshedType ==
    ASSUME NEW rows, TypeOK
    PROVE  Refreshed(rows) \in JobStates
BY Zenon, AggregateType DEF Refreshed, TypeOK, JobStates

LEMMA EnforcedType ==
    ASSUME NEW rows, NEW s \in JobStates
    PROVE  Enforced(s, rows) \in JobStates
BY Zenon, AggregateType DEF Enforced, JobStates

LEMMA UnleasedType ==
    ASSUME NEW s \in {"absent", "unpublished", "published"}
    PROVE  Unleased(s) \in Row
BY Zenon DEF Unleased, Row

LEMMA EventTypes ==
    /\ \A t \in Targets : CancelEvent(t) \in Events
    /\ \A e \in Events : e.target \in Targets /\ e.attempt \in 0 .. MaxAttempt
                         /\ e.kind \in {"dispatch", "cancel"}
BY MaxAttemptAssumption, MaxRetriesAssumption DEF CancelEvent, Events

\* A target row stays one under the updates the statements make.
LEMMA TargetUpdates ==
    ASSUME NEW r \in Target
    PROVE  /\ \A s \in TargetStates : [r EXCEPT !.status = s] \in Target
           /\ \A s \in TargetStates : [r EXCEPT !.status = s, !.lease = "none"] \in Target
           /\ \A s \in TargetStates : [r EXCEPT !.status = s, !.retry = @ + 1] \in Target
           /\ \A s \in TargetStates, a \in 0 .. MaxAttempt :
                [r EXCEPT !.status = s, !.attempt = a, !.lease = "live"] \in Target
           /\ [r EXCEPT !.agent = FALSE] \in Target
           /\ [r EXCEPT !.lease = "lapsed"] \in Target
           /\ AfterTimeout(r) \in Target
<1>1. r.retry \in Nat /\ r.retry + 1 \in Nat
  BY DEF Target
<1>2. {"queued", "failed"} \subseteq TargetStates
  BY Zenon DEF TargetStates, ValidStates
<1> QED BY Zenon, <1>1, <1>2 DEF Target, AfterTimeout

\* What the producers and the operators' requests do keeps the types.
LEMMA RequestType == TypeInv /\ Request => TypeInv'
<1> SUFFICES ASSUME TypeOK, WorkerOK, Request PROVE TypeOK' /\ WorkerOK'
  BY Zenon DEF TypeInv
<1> USE MaxRetriesAssumption, MaxAttemptAssumption, MaxOperatorRetriesAssumption
<1>1. CASE CreateApiJob
  BY Zenon, <1>1, UnleasedType DEF CreateApiJob, TypeOK, WorkerOK, JobStates, AllProducers
<1>2. CASE CreateDurableJob
  BY Zenon, <1>2, UnleasedType DEF CreateDurableJob, TypeOK, WorkerOK, JobStates, AllProducers
<1>3. CASE CreatePatchJob
  BY Zenon, <1>3 DEF CreatePatchJob, TypeOK, WorkerOK, JobStates, AllProducers
<1>4. CASE CreateApprovedJob
  <2>1. PICK offline \in SUBSET Targets :
          /\ tgt' = [t \in Targets |-> IF t \in offline
                                       THEN [tgt[t] EXCEPT !.status = "waiting"] ELSE tgt[t]]
          /\ outbox' = [e \in Events |->
                          IF e.kind = "dispatch" /\ e.attempt = 1 /\ e.target \notin offline
                          THEN Unleased("unpublished") ELSE outbox[e]]
    BY Zenon, <1>4 DEF CreateApprovedJob
  <2>2. "waiting" \in TargetStates
    BY Zenon DEF TargetStates
  <2>3. tgt' \in [Targets -> Target]
    BY Zenon, <2>1, <2>2, TargetUpdates DEF TypeOK
  <2>4. outbox' \in [Events -> Row]
    BY Zenon, <2>1, UnleasedType DEF TypeOK
  <2> QED
    BY Zenon, <1>4, <2>3, <2>4 DEF CreateApprovedJob, TypeOK, WorkerOK, JobStates, AllProducers
<1>5. CASE CreateDeviceJob
  BY Zenon, <1>5, UnleasedType, TargetUpdates DEF CreateDeviceJob, TypeOK, WorkerOK, JobStates, AllProducers
<1>6. CASE CancelJob
  <2> DEFINE hit == {t \in Targets : tgt[t].status \in Active}
             rows == [t \in Targets |->
                       IF t \in hit THEN [tgt[t] EXCEPT !.status = "cancelled", !.lease = "none"]
                       ELSE tgt[t]]
  <2>1. rows \in [Targets -> Target]
    BY Zenon, TargetUpdates DEF TypeOK, TargetStates, ValidStates
  <2>2. Enforced("cancelled", rows) \in JobStates
    BY Zenon, EnforcedType DEF JobStates
  <2>3. CancelRows(hit) \in [Events -> Row]
    BY Zenon, UnleasedType DEF CancelRows, TypeOK
  <2>4. /\ tgt' = rows /\ outbox' = CancelRows(hit)
        /\ job' = [job EXCEPT !.status = Enforced("cancelled", rows)]
        /\ UNCHANGED <<wk, inbox, streams, opRetries>>
    BY Zenon, <1>6 DEF CancelJob
  <2> HIDE DEF rows, hit
  <2> QED BY Zenon, <2>1, <2>2, <2>3, <2>4 DEF TypeOK, WorkerOK
<1>7. ASSUME NEW hit, Requeue(hit) PROVE TypeOK' /\ WorkerOK'
  <2>1. tgt' \in [Targets -> Target]
    BY Zenon, <1>7, TargetUpdates DEF Requeue, TypeOK, TargetStates, ValidStates
  <2>2. job' \in [status : JobStates, producer : AllProducers \cup {"none"}, expired : BOOLEAN]
    BY Zenon, <1>7 DEF Requeue, RequeuedJob, TypeOK, JobStates
  <2>3. opRetries' \in 0 .. MaxOperatorRetries
    <3>1. opRetries \in 0 .. MaxOperatorRetries
      BY Zenon DEF TypeOK
    <3>2. opRetries < MaxOperatorRetries /\ opRetries' = opRetries + 1
      BY Zenon, <1>7 DEF Requeue
    <3> QED BY <3>1, <3>2
  <2> QED
    BY Zenon, <1>7, <2>1, <2>2, <2>3 DEF Requeue, TypeOK, WorkerOK
<1>8. ASSUME NEW t \in Targets, SubmitInventory(t) PROVE TypeOK' /\ WorkerOK'
  <2> DEFINE rows == [tgt EXCEPT ![t].status = "succeeded"]
  <2>1. rows \in [Targets -> Target]
    <3>1. [tgt[t] EXCEPT !.status = "succeeded"] \in Target
      BY Zenon, TargetUpdates DEF TypeOK, TargetStates, ValidStates
    <3> QED BY Zenon, <3>1 DEF TypeOK
  <2>2. Refreshed(rows) \in JobStates
    BY Zenon, RefreshedType
  <2>3. /\ tgt' = rows /\ job' = [job EXCEPT !.status = Refreshed(rows)]
        /\ inventories' = inventories \cup {t}
        /\ UNCHANGED <<outbox, wk, inbox, cmds, cancels, acks, results, settled, opRetries>>
    BY Zenon, <1>8 DEF SubmitInventory
  <2> HIDE DEF rows
  <2> QED BY Zenon, <2>1, <2>2, <2>3 DEF TypeOK, WorkerOK
<1> QED
  BY Zenon, <1>1, <1>2, <1>3, <1>4, <1>5, <1>6, <1>7, <1>8 DEF Request, RetryAll, RetryTarget
\* What a dispatcher does keeps the types.
LEMMA PublisherType ==
    ASSUME TypeInv, NEW w \in Workers, Publisher(w)
    PROVE  TypeInv'
<1> USE MaxRetriesAssumption, MaxAttemptAssumption
<1>0. TypeOK /\ WorkerOK
  BY Zenon DEF TypeInv
<1>w. \A v \in Workers : wk[v] \in [pc : {"idle", "batch", "marked", "sent"},
                                   batch : SUBSET Events, event : Events \cup {Nobody}]
  BY Zenon, <1>0 DEF TypeOK
<1>1. CASE EnsureQueuedOutbox(w)
  BY Zenon, <1>0, <1>1, UnleasedType DEF EnsureQueuedOutbox, TypeInv, TypeOK, WorkerOK
<1>2. CASE ClaimOutbox(w)
  <2>1. PICK batch \in SUBSET Claimable :
          /\ outbox' = [e \in Events |-> IF e \in batch
                                         THEN [outbox[e] EXCEPT !.owner = w, !.live = TRUE]
                                         ELSE outbox[e]]
          /\ wk' = [wk EXCEPT ![w] = [pc |-> "batch", batch |-> batch, event |-> Nobody]]
    BY Zenon, <1>2 DEF ClaimOutbox
  <2>2. batch \subseteq Events
    BY Zenon DEF Claimable
  <2>3. \A e \in Events : [outbox[e] EXCEPT !.owner = w, !.live = TRUE] \in Row
    <3>1. ASSUME NEW r \in Row
          PROVE  [r EXCEPT !.owner = w, !.live = TRUE] \in Row
      BY Zenon DEF Row
    <3>2. \A e \in Events : outbox[e] \in Row
      BY Zenon, <1>0 DEF TypeOK
    <3> QED BY Zenon, <3>1, <3>2
  <2>4. \A e \in Events : outbox[e] \in Row
    BY Zenon, <1>0 DEF TypeOK
  <2>5. outbox' \in [Events -> Row]
    BY Zenon, <2>1, <2>3, <2>4
  <2> QED BY Zenon, <1>0, <1>2, <2>1, <2>2, <2>5 DEF ClaimOutbox, TypeInv, TypeOK, WorkerOK
<1>d. ASSUME NEW e \in Events, Done(w, e) PROVE
        /\ wk' \in [Workers -> [pc : {"idle", "batch", "marked", "sent"},
                                batch : SUBSET Events, event : Events \cup {Nobody}]]
        /\ WorkerOK'
  BY Zenon, <1>0, <1>w, <1>d DEF Done, TypeOK, WorkerOK
<1>f. ASSUME NEW e \in Events, FailOutbox(w, e) \/ FinalizeOutbox(w, e)
      PROVE  outbox' \in [Events -> Row]
  BY Zenon, <1>0, <1>f, UnleasedType DEF FailOutbox, FinalizeOutbox, TypeOK
<1>3. ASSUME NEW e \in Events, RejectEvent(w, e) PROVE TypeInv'
  BY Zenon, <1>0, <1>3, <1>d, <1>f DEF RejectEvent, TypeInv, TypeOK
<1>4. ASSUME NEW e \in Events, PublishCancel(w, e) PROVE TypeInv'
  BY Zenon, <1>0, <1>4, <1>d, <1>f, EventTypes DEF PublishCancel, TypeInv, TypeOK
<1>5. ASSUME NEW e \in Events, PublishFails(w, e) PROVE TypeInv'
  <2>1. [target |-> e.target, attempt |-> e.attempt] \in Message
    BY <1>5, EventTypes DEF PublishFails, Message, Attempts
  <2> QED
    BY Zenon, <1>0, <1>5, <1>d, <1>f, <2>1, EventTypes DEF PublishFails, TypeInv, TypeOK
<1>6. ASSUME NEW e \in Events, MarkDispatched(w, e) PROVE TypeInv'
  <2>1. [tgt[e.target] EXCEPT !.status = "dispatched", !.attempt = e.attempt, !.lease = "live"]
          \in Target
    BY Zenon, <1>0, TargetUpdates, EventTypes DEF TypeOK, TargetStates, ValidStates
  <2>2. tgt' \in [Targets -> Target]
    BY Zenon, <1>0, <1>6, <2>1, EventTypes DEF MarkDispatched, TypeOK
  <2>3. job' \in [status : JobStates, producer : AllProducers \cup {"none"}, expired : BOOLEAN]
    BY Zenon, <1>0, <1>6 DEF MarkDispatched, TypeOK, JobStates
  <2>4. wk' = [wk EXCEPT ![w].pc = "marked", ![w].event = e]
    BY Zenon, <1>6 DEF MarkDispatched, AfterDispatchTx
  <2>5. wk' \in [Workers -> [pc : {"idle", "batch", "marked", "sent"},
                             batch : SUBSET Events, event : Events \cup {Nobody}]]
    <3>1. wk[w] \in [pc : {"idle", "batch", "marked", "sent"},
                     batch : SUBSET Events, event : Events \cup {Nobody}]
      BY Zenon, <1>w
    <3>2. [wk[w] EXCEPT !.pc = "marked", !.event = e]
            \in [pc : {"idle", "batch", "marked", "sent"},
                 batch : SUBSET Events, event : Events \cup {Nobody}]
      BY Zenon, <3>1
    <3>3. wk' = [wk EXCEPT ![w] = [wk[w] EXCEPT !.pc = "marked", !.event = e]]
      BY Zenon, <1>0, <2>4 DEF TypeOK
    <3> QED BY Zenon, <1>0, <3>2, <3>3 DEF TypeOK
  <2>6. WorkerOK'
    <3> SUFFICES ASSUME NEW v \in Workers, wk'[v].pc \in {"marked", "sent"}
                 PROVE  /\ wk'[v].event \in Events
                        /\ wk'[v].event.kind = "dispatch"
                        /\ wk'[v].event.attempt >= 1
      BY Zenon DEF WorkerOK
    <3>1. CASE v = w
      <4>1. wk'[v].event = e
        BY Zenon, <1>0, <1>w, <2>4, <3>1 DEF TypeOK
      <4> QED BY Zenon, <1>6, <4>1 DEF MarkDispatched
    <3>2. CASE v # w
      BY Zenon, <1>0, <2>4, <3>2 DEF WorkerOK, TypeOK
    <3> QED BY Zenon, <3>1, <3>2
  <2> QED BY Zenon, <1>0, <1>6, <2>2, <2>3, <2>5, <2>6 DEF MarkDispatched, TypeInv, TypeOK
<1>7. CASE PublishCommand(w)
  <2>1. [target |-> wk[w].event.target, attempt |-> wk[w].event.attempt] \in Message
    BY <1>0, <1>7, EventTypes DEF PublishCommand, WorkerOK, Message, Attempts
  <2> QED BY <1>0, <1>7, <1>w, <2>1 DEF PublishCommand, TypeInv, TypeOK, WorkerOK
<1>8. CASE FinalizeDispatch(w)
  <2>1. wk[w].event \in Events
    BY Zenon, <1>0, <1>8 DEF FinalizeDispatch, WorkerOK
  <2> QED BY Zenon, <1>0, <1>8, <1>d, <1>f, <2>1 DEF FinalizeDispatch, TypeInv, TypeOK
<1>9. ASSUME NEW rows, rows \in [Targets -> Target], tgt' = rows,
             job' = [job EXCEPT !.status = Refreshed(rows)] \/ job' = job,
             UNCHANGED <<outbox, wk, inbox, streams, opRetries>>
      PROVE  TypeInv'
  <2>1. Refreshed(rows) \in JobStates
    BY Zenon, <1>0, RefreshedType
  <2>2. job' \in [status : JobStates, producer : AllProducers \cup {"none"}, expired : BOOLEAN]
    BY Zenon, <1>0, <1>9, <2>1 DEF TypeOK
  <2> QED BY Zenon, <1>0, <1>9, <2>2 DEF TypeInv, TypeOK, WorkerOK
<1>10. CASE ExpireJobs(w)
  <2>1. PICK batch \in Limited(Targets) :
          LET rows == [t \in Targets |->
                         IF t \in batch /\ Expirable(t)
                         THEN [tgt[t] EXCEPT !.status = "expired"] ELSE tgt[t]]
          IN  tgt' = rows /\ job' = [job EXCEPT !.status = Refreshed(rows)]
    BY Zenon, <1>10 DEF ExpireJobs
  <2>2. tgt' \in [Targets -> Target]
    BY Zenon, <1>0, <2>1, TargetUpdates DEF TypeOK, TargetStates, ValidStates
  <2> QED BY Zenon, <1>9, <1>10, <2>1, <2>2 DEF ExpireJobs
<1>11. CASE HandleOfflineReconnect(w)
  <2>1. PICK online \in SUBSET Targets :
          tgt' = [t \in Targets |-> IF t \in online
                                   THEN [tgt[t] EXCEPT !.status = "queued"] ELSE tgt[t]]
    BY Zenon, <1>11 DEF HandleOfflineReconnect
  <2>2. tgt' \in [Targets -> Target]
    BY Zenon, <1>0, <2>1, TargetUpdates DEF TypeOK, TargetStates, ValidStates
  <2> QED BY Zenon, <1>9, <1>11, <2>2 DEF HandleOfflineReconnect
<1>12. CASE ExpireOfflineWork(w)
  <2>1. tgt' \in [Targets -> Target]
    BY Zenon, <1>0, <1>12, TargetUpdates DEF ExpireOfflineWork, TypeOK, TargetStates, ValidStates
  <2> QED BY Zenon, <1>9, <1>12, <2>1 DEF ExpireOfflineWork
<1> QED
  BY Zenon, <1>1, <1>2, <1>3, <1>4, <1>5, <1>6, <1>7, <1>8, <1>10, <1>11, <1>12 DEF Publisher
\* What the reconciler and the consumers of acknowledgements and results do
\* keeps the types.
LEMMA ConsumerType ==
    ASSUME TypeInv, ReconcileTimeouts \/ ReconcileAggregates \/ Consumer
    PROVE  TypeInv'
<1>0. TypeOK /\ WorkerOK
  BY Zenon DEF TypeInv
<1>1. CASE ReconcileTimeouts
  <2>1. PICK batch \in Limited({t \in Targets : tgt[t].lease = "lapsed"}) :
          LET rows == [t \in Targets |->
                         IF t \in batch /\ TimedOut(t) THEN AfterTimeout(tgt[t]) ELSE tgt[t]]
          IN  tgt' = rows /\ job' = [job EXCEPT !.status = Refreshed(rows)]
    BY Zenon, <1>1 DEF ReconcileTimeouts
  <2>2. tgt' \in [Targets -> Target]
    BY Zenon, <1>0, <2>1, TargetUpdates DEF TypeOK
  <2>3. job' \in [status : JobStates, producer : AllProducers \cup {"none"}, expired : BOOLEAN]
    BY Zenon, <1>0, <2>1, RefreshedType DEF TypeOK
  <2> QED BY Zenon, <1>0, <1>1, <2>2, <2>3 DEF ReconcileTimeouts, TypeInv, TypeOK, WorkerOK
<1>2. CASE ReconcileAggregates
  BY Zenon, <1>0, <1>2, AggregateType DEF ReconcileAggregates, TypeInv, TypeOK, WorkerOK, JobStates
<1>3. ASSUME NEW m \in acks, HandleAgentAck(m) PROVE TypeInv'
  <2> DEFINE next == NextStatus(tgt[m.target].status, m.status)
             rows == [tgt EXCEPT ![m.target].status = next]
  <2>1. m.target \in Targets /\ AckId(m) \in AckIds
    BY Zenon, <1>0 DEF TypeOK, Ack, AckId, AckIds
  <2>2. next \in TargetStates
    BY Zenon, <1>0, <2>1 DEF NextStatus, TypeOK, Target, TargetStates, ValidStates
  <2>3. [tgt[m.target] EXCEPT !.status = next] \in Target
    BY Zenon, <1>0, <2>1, <2>2, TargetUpdates DEF TypeOK
  <2>4. rows \in [Targets -> Target]
    BY Zenon, <1>0, <2>1, <2>3 DEF TypeOK
  <2>5. Refreshed(rows) \in JobStates
    BY Zenon, <1>0, RefreshedType
  <2>6. /\ tgt' = rows /\ job' = [job EXCEPT !.status = Refreshed(rows)]
        /\ inbox' = inbox \cup {AckId(m)} /\ UNCHANGED <<outbox, wk, streams, opRetries>>
    BY Zenon, <1>3 DEF HandleAgentAck
  <2> HIDE DEF rows, next
  <2> QED BY Zenon, <1>0, <2>1, <2>4, <2>5, <2>6 DEF TypeInv, TypeOK, WorkerOK
<1>4. ASSUME NEW m \in results, ProcessAgentResult(m) PROVE TypeInv'
  <2> DEFINE rows == [tgt EXCEPT ![m.target].status = m.status, ![m.target].lease = "none"]
  <2>1. m.target \in Targets /\ ResultId(m) \in ResultIds
    BY Zenon, <1>0 DEF TypeOK, Result, ResultId, ResultIds
  <2>2. m.status \in TargetStates
    BY Zenon, <1>0, StatusesAssumption DEF TypeOK, Result, Terminal, TargetStates, ValidStates
  <2>3. [tgt[m.target] EXCEPT !.status = m.status, !.lease = "none"] \in Target
    BY Zenon, <1>0, <2>1, <2>2, TargetUpdates DEF TypeOK
  <2>4. rows \in [Targets -> Target]
    BY Zenon, <1>0, <2>1, <2>3 DEF TypeOK
  <2>5. Refreshed(rows) \in JobStates
    BY Zenon, <1>0, RefreshedType
  <2>6. /\ UNCHANGED <<tgt, job>>
           \/ (tgt' = rows /\ job' = [job EXCEPT !.status = Refreshed(rows)])
        /\ inbox' = inbox \cup {ResultId(m)} /\ settled' \in {settled, settled \cup {m}}
        /\ UNCHANGED <<outbox, wk, inventories, cmds, cancels, acks, results, opRetries>>
    BY Zenon, <1>4 DEF ProcessAgentResult
  <2> HIDE DEF rows
  <2>7. /\ tgt' \in [Targets -> Target]
        /\ job' \in [status : JobStates, producer : AllProducers \cup {"none"}, expired : BOOLEAN]
    BY Zenon, <1>0, <2>4, <2>5, <2>6 DEF TypeOK
  <2> QED BY Zenon, <1>0, <2>1, <2>6, <2>7 DEF TypeInv, TypeOK, WorkerOK
<1> QED BY Zenon, <1>1, <1>2, <1>3, <1>4 DEF Consumer

\* What agents, crashes and time do keeps the types.
LEMMA EnvironmentType == TypeInv /\ Environment => TypeInv'
<1> SUFFICES ASSUME TypeInv, Environment PROVE TypeInv'
  BY Zenon
<1>0. TypeOK /\ WorkerOK
  BY Zenon DEF TypeInv
<1>1. ASSUME NEW c \in cmds, NEW s \in AckStatuses, AgentAcks(c, s) PROVE TypeInv'
  <2>1. acks' \subseteq Ack
    BY <1>0, <1>1 DEF AgentAcks, TypeOK, Message, Ack
  <2> QED BY Zenon, <1>0, <1>1, <2>1 DEF AgentAcks, TypeInv, TypeOK, WorkerOK
<1>2. ASSUME NEW c \in cmds, NEW s \in ResultStatuses, AgentReports(c, s) PROVE TypeInv'
  <2>1. results' \subseteq Result /\ settled' = settled
    BY <1>0, <1>2 DEF AgentReports, TypeOK, Message, Result
  <2>2. results \subseteq results'
    BY Zenon, <1>2 DEF AgentReports
  <2> QED BY Zenon, <1>0, <1>2, <2>1, <2>2 DEF AgentReports, TypeInv, TypeOK, WorkerOK
<1>3. ASSUME NEW w \in Workers, CrashWorker(w) PROVE TypeInv'
  BY Zenon, <1>0, <1>3 DEF CrashWorker, TypeInv, TypeOK, WorkerOK
<1>4. CASE JobDeadline
  BY Zenon, <1>0, <1>4 DEF JobDeadline, TypeInv, TypeOK, WorkerOK
<1>5. ASSUME NEW t \in Targets, LeaseLapses(t) PROVE TypeInv'
  <2>1. [tgt[t] EXCEPT !.lease = "lapsed"] \in Target
    BY Zenon, <1>0, TargetUpdates DEF TypeOK
  <2>2. tgt' \in [Targets -> Target]
    BY Zenon, <1>0, <1>5, <2>1 DEF LeaseLapses, TypeOK
  <2> QED BY Zenon, <1>0, <1>5, <2>2 DEF LeaseLapses, TypeInv, TypeOK, WorkerOK
<1>6. ASSUME NEW e \in Events, OutboxLeaseLapses(e) PROVE TypeInv'
  <2>1. [outbox[e] EXCEPT !.live = FALSE] \in Row
    <3>1. outbox[e] \in Row
      BY Zenon, <1>0 DEF TypeOK
    <3> QED BY Zenon, <3>1 DEF Row
  <2>2. outbox' \in [Events -> Row]
    BY Zenon, <1>0, <1>6, <2>1 DEF OutboxLeaseLapses, TypeOK
  <2> QED BY Zenon, <1>0, <1>6, <2>2 DEF OutboxLeaseLapses, TypeInv, TypeOK, WorkerOK
<1> QED BY Zenon, <1>1, <1>2, <1>3, <1>4, <1>5, <1>6 DEF Environment

LEMMA TypeInvariance == Spec => []TypeInv
<1>1. Init => TypeInv
  <2> SUFFICES ASSUME Init PROVE TypeInv
    BY Zenon
  <2>1. job \in [status : JobStates, producer : AllProducers \cup {"none"}, expired : BOOLEAN]
    BY Zenon DEF Init, JobStates
  <2>2. tgt \in [Targets -> Target]
    <3>1. [status |-> "queued", agent |-> TRUE, attempt |-> 0, retry |-> 0, lease |-> "none"]
            \in Target
      BY MaxAttemptAssumption DEF Target, TargetStates, ValidStates
    <3> QED BY Zenon, <3>1 DEF Init
  <2>3. outbox \in [Events -> Row]
    BY Zenon, UnleasedType DEF Init
  <2>4. wk \in [Workers -> [pc : {"idle", "batch", "marked", "sent"},
                            batch : SUBSET Events, event : Events \cup {Nobody}]]
    BY Zenon DEF Init
  <2>5. WorkerOK
    BY Zenon DEF Init, WorkerOK
  <2>6. opRetries \in 0 .. MaxOperatorRetries
    BY MaxOperatorRetriesAssumption DEF Init
  <2> QED BY Zenon, <2>1, <2>2, <2>3, <2>4, <2>5, <2>6 DEF Init, TypeInv, TypeOK
<1>2. TypeInv /\ [Next]_vars => TypeInv'
  <2>1. TypeInv /\ UNCHANGED vars => TypeInv'
    BY Zenon DEF vars, TypeInv, TypeOK, WorkerOK
  <2> QED
    BY Zenon, <2>1, RequestType, PublisherType, ConsumerType, EnvironmentType DEF Next
<1> QED BY <1>1, <1>2, PTL DEF Spec

\* The rows, messages and counters of the job system keep their types, whatever
\* the producers, dispatchers, consumers and agents do (jobs.go, dispatcher.go,
\* result_retry.go).
THEOREM TypeCorrectness == Spec => []TypeOK
<1>1. TypeInv => TypeOK
  BY Zenon DEF TypeInv
<1> QED BY <1>1, TypeInvariance, PTL
--------------------------------------------------------------------------------
(***************************************************************************)
(* The retry budget.  RetryBudget is not inductive: a command comes from   *)
(* an outbox row that a dispatcher may have held through any number of     *)
(* changes of its target.  What carries it is that every dispatch row in   *)
(* the table, stale or not, stays within what its target has paid for.     *)
(***************************************************************************)
Held == {"queued", "waiting"}

\* A target is at most one attempt ahead of its counted retries, and a target
\* that may be dispatched again is not ahead at all.
TargetBudget ==
    \A t \in Targets : /\ tgt[t].attempt <= tgt[t].retry + 1
                       /\ tgt[t].attempt <= MaxRetries + 1
                       /\ tgt[t].status \in Held => tgt[t].attempt <= tgt[t].retry

Paid(e) == e.kind = "dispatch" => /\ e.attempt <= MaxRetries + 1
                                  /\ e.attempt <= tgt[e.target].retry + 1

RowBudget == \A e \in Events : outbox[e].state # "absent" => Paid(e)

\* What a dispatcher holds are rows of the table.
WorkerRows ==
    \A w \in Workers :
       /\ \A e \in wk[w].batch : outbox[e].state # "absent"
       /\ wk[w].pc \in {"marked", "sent"} => outbox[wk[w].event].state # "absent"

NothingBeforeCreation ==
    ~Created => /\ \A t \in Targets : tgt[t].attempt = 0
                /\ \A e \in Events : outbox[e].state = "absent"

BudgetInv == TargetBudget /\ RowBudget /\ WorkerRows /\ NothingBeforeCreation /\ RetryBudget

\* What every step has in common, as far as the budget is concerned.
TargetStep ==
    \A t \in Targets :
       /\ tgt'[t].retry \in {tgt[t].retry, tgt[t].retry + 1}
       /\ \/ /\ tgt'[t].attempt = tgt[t].attempt
             /\ tgt'[t].status \in Held
                => tgt[t].status \in Held \/ tgt'[t].retry = tgt[t].retry + 1 \/ ~Created
          \/ /\ Created /\ tgt'[t].status \notin Held
             /\ tgt'[t].attempt <= tgt[t].retry + 1 /\ tgt'[t].attempt <= MaxRetries + 1

RowStep ==
    \A e \in Events :
       /\ outbox[e].state # "absent" => outbox'[e].state # "absent"
       /\ outbox'[e].state # "absent" => outbox[e].state # "absent" \/ (Created' /\ Paid(e))

WorkerStep ==
    \A w \in Workers :
       /\ \A e \in wk'[w].batch : outbox[e].state # "absent"
       /\ wk'[w].pc \in {"marked", "sent"} => outbox[wk'[w].event].state # "absent"

CommandStep ==
    \A c \in cmds' :
       \/ c \in cmds
       \/ \E e \in Events : /\ e.kind = "dispatch" /\ outbox[e].state # "absent"
                            /\ c.target = e.target /\ c.attempt = e.attempt

BudgetStep == TargetStep /\ RowStep /\ WorkerStep /\ CommandStep /\ (Created => Created')

LEMMA BudgetPreserved ==
    ASSUME TypeInv, TypeInv', BudgetInv, BudgetStep
    PROVE  BudgetInv'
<1> USE MaxRetriesAssumption, MaxAttemptAssumption
<1>t. \A t \in Targets : /\ tgt[t].retry \in Nat /\ tgt[t].attempt \in Nat
                         /\ tgt'[t].retry \in Nat /\ tgt'[t].attempt \in Nat
  BY DEF TypeInv, TypeOK, Target
<1>1. \A t \in Targets : tgt'[t].retry >= tgt[t].retry
  BY <1>t DEF BudgetStep, TargetStep
<1>2. TargetBudget'
  <2> SUFFICES ASSUME NEW t \in Targets
               PROVE  /\ tgt'[t].attempt <= tgt'[t].retry + 1
                      /\ tgt'[t].attempt <= MaxRetries + 1
                      /\ tgt'[t].status \in Held => tgt'[t].attempt <= tgt'[t].retry
    BY Zenon DEF TargetBudget
  <2>1. /\ tgt[t].attempt <= tgt[t].retry + 1
        /\ tgt[t].attempt <= MaxRetries + 1
        /\ tgt[t].status \in Held => tgt[t].attempt <= tgt[t].retry
        /\ ~Created => tgt[t].attempt = 0
    <3>1. TargetBudget /\ NothingBeforeCreation
      BY Zenon DEF BudgetInv
    <3>2. ~Created => tgt[t].attempt = 0
      BY Zenon, <3>1 DEF NothingBeforeCreation
    <3> QED BY Zenon, <1>t, <3>1, <3>2 DEF TargetBudget
  <2>2. CASE /\ tgt'[t].attempt = tgt[t].attempt
             /\ tgt'[t].status \in Held
                => tgt[t].status \in Held \/ tgt'[t].retry = tgt[t].retry + 1 \/ ~Created
    <3> HIDE DEF Created
    <3> QED BY <1>t, <1>1, <2>1, <2>2
  <2>3. CASE /\ tgt'[t].status \notin Held
             /\ tgt'[t].attempt <= tgt[t].retry + 1 /\ tgt'[t].attempt <= MaxRetries + 1
    BY <1>t, <1>1, <2>3
  <2> QED BY Zenon, <2>2, <2>3 DEF BudgetStep, TargetStep
<1>e. \A e \in Events : e.target \in Targets /\ e.attempt \in Nat
  BY EventTypes
<1>p. \A e \in Events : Paid(e) => Paid(e)'
  BY <1>t, <1>1, <1>e DEF Paid
<1>3. RowBudget'
  BY Zenon, <1>p DEF BudgetInv, RowBudget, BudgetStep, RowStep
<1>4. WorkerRows'
  <2>1. \A w \in Workers : /\ wk'[w].batch \subseteq Events
                           /\ wk'[w].pc \in {"marked", "sent"} => wk'[w].event \in Events
    BY Zenon DEF TypeInv, TypeOK, WorkerOK
  <2> QED BY Zenon, <2>1 DEF WorkerRows, BudgetStep, WorkerStep, RowStep
<1>5. NothingBeforeCreation'
  BY Zenon DEF BudgetInv, NothingBeforeCreation, BudgetStep, TargetStep, RowStep
<1>6. RetryBudget'
  <2> SUFFICES ASSUME NEW c \in cmds'
               PROVE  c.attempt <= MaxRetries + 1 /\ c.attempt <= tgt'[c.target].retry + 1
    BY Zenon DEF RetryBudget
  <2>0. c.target \in Targets /\ c.attempt \in Nat
    BY DEF TypeInv, TypeOK, Message, Attempts
  <2>1. CASE c \in cmds
    BY <1>t, <1>1, <2>0, <2>1 DEF BudgetInv, RetryBudget
  <2>2. ASSUME NEW e \in Events, e.kind = "dispatch", outbox[e].state # "absent",
               c.target = e.target, c.attempt = e.attempt
        PROVE  c.attempt <= MaxRetries + 1 /\ c.attempt <= tgt'[c.target].retry + 1
    BY <1>t, <1>1, <1>e, <2>2 DEF BudgetInv, RowBudget, Paid
  <2> QED BY Zenon, <2>1, <2>2 DEF BudgetStep, CommandStep
<1> QED BY Zenon, <1>2, <1>3, <1>4, <1>5, <1>6 DEF BudgetInv

LEMMA RequestBudget ==
    ASSUME TypeInv, BudgetInv, Request
    PROVE  BudgetStep
<1> USE MaxRetriesAssumption, MaxAttemptAssumption
<1>0. TypeOK /\ WorkerOK
  BY Zenon DEF TypeInv
<1>t. \A t \in Targets : tgt[t].retry \in Nat /\ tgt[t].attempt \in Nat
  BY <1>0 DEF TypeOK, Target
<1>w. WorkerRows
  BY Zenon DEF BudgetInv
<1>c. ASSUME wk' = wk, cmds' = cmds PROVE WorkerStep /\ CommandStep
  BY Zenon, <1>w, <1>c DEF WorkerRows, WorkerStep, CommandStep
<1>p. \A e \in Events : e.attempt \in {0, 1} => Paid(e)
  BY <1>t, EventTypes DEF Paid
<1>1. CASE CreateApiJob \/ CreateDurableJob
  <2>0. /\ outbox' = [e \in Events |-> IF e.kind = "dispatch" /\ e.attempt = 1
                                       THEN Unleased("unpublished") ELSE outbox[e]]
        /\ tgt' = tgt
    BY Zenon, <1>1 DEF CreateApiJob, CreateDurableJob
  <2>2. TargetStep /\ Created'
    BY Zenon, <1>0, <1>1, <1>t, <2>0 DEF CreateApiJob, CreateDurableJob, TargetStep, TypeOK
  <2>1. RowStep
    BY Zenon, <1>p, <2>0, <2>2 DEF RowStep, Unleased
  <2> QED BY Zenon, <1>1, <1>c, <2>1, <2>2 DEF CreateApiJob, CreateDurableJob, BudgetStep
<1>2. CASE CreatePatchJob
  <2>1. RowStep /\ TargetStep /\ Created'
    BY Zenon, <1>0, <1>2 DEF CreatePatchJob, RowStep, TargetStep, TypeOK
  <2> QED BY Zenon, <1>2, <1>c, <2>1 DEF CreatePatchJob, BudgetStep
<1>3. CASE CreateApprovedJob
  <2>1. PICK offline \in SUBSET Targets :
          /\ tgt' = [t \in Targets |-> IF t \in offline
                                       THEN [tgt[t] EXCEPT !.status = "waiting"] ELSE tgt[t]]
          /\ outbox' = [e \in Events |->
                          IF e.kind = "dispatch" /\ e.attempt = 1 /\ e.target \notin offline
                          THEN Unleased("unpublished") ELSE outbox[e]]
    BY Zenon, <1>3 DEF CreateApprovedJob
  <2>2. Created' /\ ~Created
    BY Zenon, <1>0, <1>3 DEF CreateApprovedJob, TypeOK
  <2>3. RowStep
    BY Zenon, <1>p, <2>1, <2>2 DEF RowStep, Unleased
  <2>4. \A t \in Targets : tgt'[t].attempt = tgt[t].attempt /\ tgt'[t].retry = tgt[t].retry
    BY <1>0, <2>1 DEF TypeOK, Target
  <2>5. TargetStep
    BY Zenon, <2>2, <2>4 DEF TargetStep
  <2> QED BY Zenon, <1>3, <1>c, <2>2, <2>3, <2>5 DEF CreateApprovedJob, BudgetStep
<1>4. CASE CreateDeviceJob
  <2>1. Created' /\ ~Created
    BY Zenon, <1>0, <1>4 DEF CreateDeviceJob, TypeOK
  <2>2. RowStep
    BY Zenon, <1>4, <1>p, <2>1 DEF CreateDeviceJob, RowStep, Unleased
  <2>3. \A t \in Targets : tgt'[t].attempt = tgt[t].attempt /\ tgt'[t].retry = tgt[t].retry
    BY <1>0, <1>4 DEF CreateDeviceJob, TypeOK, Target
  <2>4. TargetStep
    BY Zenon, <2>1, <2>3 DEF TargetStep
  <2> QED BY Zenon, <1>4, <1>c, <2>1, <2>2, <2>4 DEF CreateDeviceJob, BudgetStep
<1>5. CASE CancelJob
  <2>1. CanTransition(job.status, "cancelled")
    BY Zenon, <1>5 DEF CancelJob
  <2>2. Created
    BY Zenon, <2>1 DEF CanTransition, ValidStates
  <2>3. Created'
    BY Zenon, <1>0, <1>5 DEF CancelJob, Enforced, Aggregate, TypeOK
  <2>4. \A t \in Targets : /\ tgt'[t].attempt = tgt[t].attempt /\ tgt'[t].retry = tgt[t].retry
                           /\ tgt'[t].status \in {tgt[t].status, "cancelled"}
    <3> TAKE t \in Targets
    <3>1. tgt[t] \in Target
      BY Zenon, <1>0 DEF TypeOK
    <3>2. tgt'[t] = tgt[t] \/ tgt'[t] = [tgt[t] EXCEPT !.status = "cancelled", !.lease = "none"]
      BY Zenon, <1>5 DEF CancelJob
    <3> QED BY Zenon, <3>1, <3>2 DEF Target
  <2>5. TargetStep
    BY Zenon, <2>4 DEF TargetStep, Held
  <2>6. outbox' = CancelRows({t \in Targets : tgt[t].status \in Active})
    BY Zenon, <1>5 DEF CancelJob
  <2>7. RowStep
    BY Zenon, <2>3, <2>6 DEF RowStep, CancelRows, Unleased, Paid
  <2> QED BY Zenon, <1>5, <1>c, <2>3, <2>5, <2>7 DEF CancelJob, BudgetStep
<1>6. ASSUME NEW hit, Requeue(hit) PROVE BudgetStep
  <2>1. Created'
    BY Zenon, <1>0, <1>6 DEF Requeue, RequeuedJob, TypeOK
  <2>2. \A t \in Targets :
          /\ tgt'[t].attempt = tgt[t].attempt
          /\ \/ tgt'[t].status = tgt[t].status /\ tgt'[t].retry = tgt[t].retry
             \/ tgt'[t].retry = tgt[t].retry + 1
    <3> TAKE t \in Targets
    <3>1. tgt'[t] = IF t \in hit THEN [tgt[t] EXCEPT !.status = "queued", !.retry = @ + 1]
                    ELSE tgt[t]
      BY Zenon, <1>6 DEF Requeue
    <3>2. tgt[t] \in Target
      BY Zenon, <1>0 DEF TypeOK
    <3> QED BY Zenon, <3>1, <3>2 DEF Target
  <2>3. TargetStep
    BY Zenon, <2>2 DEF TargetStep
  <2> QED BY Zenon, <1>6, <1>c, <2>1, <2>3 DEF Requeue, BudgetStep, RowStep
<1>7. ASSUME NEW t \in Targets, SubmitInventory(t) PROVE BudgetStep
  <2>1. Created => Created'
    BY Zenon, <1>0, <1>7 DEF SubmitInventory, Refreshed, Aggregate, TypeOK
  <2>2. \A u \in Targets : /\ tgt'[u].attempt = tgt[u].attempt /\ tgt'[u].retry = tgt[u].retry
                           /\ tgt'[u].status \in {tgt[u].status, "succeeded"}
    BY <1>0, <1>7 DEF SubmitInventory, TypeOK, Target
  <2>3. TargetStep
    BY Zenon, <2>2 DEF TargetStep, Held
  <2> QED BY Zenon, <1>7, <1>c, <2>1, <2>3 DEF SubmitInventory, BudgetStep, RowStep
<1> QED
  BY Zenon, <1>1, <1>2, <1>3, <1>4, <1>5, <1>6, <1>7 DEF Request, RetryAll, RetryTarget

LEMMA PublisherBudget ==
    ASSUME TypeInv, BudgetInv, NEW w \in Workers, Publisher(w)
    PROVE  BudgetStep
<1> USE MaxRetriesAssumption, MaxAttemptAssumption
<1>0. TypeOK /\ WorkerOK
  BY Zenon DEF TypeInv
<1>t. \A t \in Targets : tgt[t].retry \in Nat /\ tgt[t].attempt \in Nat
  BY <1>0 DEF TypeOK, Target
<1>i. TargetBudget /\ RowBudget /\ WorkerRows
  BY Zenon DEF BudgetInv
<1>c. ASSUME wk' = wk, cmds' = cmds PROVE WorkerStep /\ CommandStep
  BY Zenon, <1>i, <1>c DEF WorkerRows, WorkerStep, CommandStep
<1>r. ASSUME tgt' = tgt, job' = job PROVE TargetStep /\ (Created => Created')
  BY Zenon, <1>r DEF TargetStep
\* Done with a row of the batch, or with the row in hand.
<1>d. ASSUME NEW e \in Events, Done(w, e), FailOutbox(w, e) \/ FinalizeOutbox(w, e),
             outbox[e].state # "absent"
      PROVE  WorkerStep /\ RowStep
  <2>1. \A v \in Workers : wk'[v].batch \subseteq wk[v].batch
    BY Zenon, <1>0, <1>d DEF Done, TypeOK
  <2>2. \A v \in Workers : wk'[v].pc \in {"marked", "sent"} => wk'[v] = wk[v]
    BY Zenon, <1>0, <1>d DEF Done, TypeOK
  <2>3. WorkerStep
    BY Zenon, <1>i, <2>1, <2>2 DEF WorkerRows, WorkerStep
  <2>4. RowStep
    BY <1>0, <1>d DEF FailOutbox, FinalizeOutbox, Unleased, RowStep, TypeOK
  <2> QED BY Zenon, <2>3, <2>4
<1>1. CASE EnsureQueuedOutbox(w)
  <2> DEFINE missing == {DispatchEvent(t, tgt[t].attempt + 1) :
                           t \in {u \in Targets : NeedsCommand(u)}}
  <2>1. /\ Created
        /\ outbox' = [e \in Events |-> IF e \in missing /\ outbox[e].state = "absent"
                                       THEN Unleased("unpublished") ELSE outbox[e]]
        /\ UNCHANGED <<job, tgt, wk, cmds>>
    BY Zenon, <1>1 DEF EnsureQueuedOutbox
  <2>2. ASSUME NEW e \in missing PROVE Paid(e)
    <3>1. PICK t \in Targets : NeedsCommand(t) /\ e = DispatchEvent(t, tgt[t].attempt + 1)
      BY Zenon, <2>2
    <3>2. e.target = t /\ e.attempt = tgt[t].attempt + 1
      BY Zenon, <3>1 DEF DispatchEvent
    <3>3. tgt[t].attempt <= tgt[t].retry /\ tgt[t].retry <= MaxRetries
      BY Zenon, <1>i, <1>t, <3>1 DEF TargetBudget, NeedsCommand, Held
    <3>4. tgt[t].attempt + 1 <= MaxRetries + 1 /\ tgt[t].attempt + 1 <= tgt[t].retry + 1
      BY <1>t, <3>3
    <3> HIDE DEF missing
    <3> QED BY Zenon, <3>2, <3>4 DEF Paid
  <2>3. RowStep
    <3> HIDE DEF missing
    <3> QED BY Zenon, <2>1, <2>2 DEF RowStep, Unleased
  <2> QED BY Zenon, <1>c, <1>r, <2>1, <2>3 DEF BudgetStep
<1>2. CASE ClaimOutbox(w)
  <2>1. PICK batch \in SUBSET Claimable :
          /\ outbox' = [e \in Events |-> IF e \in batch
                                         THEN [outbox[e] EXCEPT !.owner = w, !.live = TRUE]
                                         ELSE outbox[e]]
          /\ wk' = [wk EXCEPT ![w] = [pc |-> "batch", batch |-> batch, event |-> Nobody]]
    BY Zenon, <1>2 DEF ClaimOutbox
  <2>2. \A e \in batch : outbox[e].state # "absent"
    BY Zenon DEF Claimable
  <2>3. RowStep
    BY Zenon, <1>0, <2>1 DEF RowStep, TypeOK, Row
  <2>4. WorkerStep
    BY Zenon, <1>0, <1>i, <2>1, <2>2 DEF WorkerStep, WorkerRows, TypeOK
  <2> QED BY Zenon, <1>2, <1>r, <2>3, <2>4 DEF ClaimOutbox, CommandStep, BudgetStep
<1>3. ASSUME NEW e \in Events, RejectEvent(w, e) \/ PublishCancel(w, e) PROVE BudgetStep
  <2>1. outbox[e].state # "absent"
    BY Zenon, <1>i, <1>3 DEF WorkerRows, RejectEvent, PublishCancel
  <2> QED BY Zenon, <1>3, <1>d, <1>r, <2>1 DEF RejectEvent, PublishCancel, CommandStep, BudgetStep
<1>4. ASSUME NEW e \in Events, PublishFails(w, e) PROVE BudgetStep
  <2>1. outbox[e].state # "absent"
    BY Zenon, <1>i, <1>4 DEF WorkerRows, PublishFails
  <2>2. \/ cmds' = cmds
        \/ /\ wk[w].pc = "marked" /\ wk[w].event = e
           /\ cmds' = cmds \cup {[target |-> e.target, attempt |-> e.attempt]}
    BY Zenon, <1>4 DEF PublishFails
  <2>3. CommandStep
    <3>1. CASE cmds' = cmds
      BY Zenon, <3>1 DEF CommandStep
    <3>2. CASE /\ wk[w].pc = "marked" /\ wk[w].event = e
               /\ cmds' = cmds \cup {[target |-> e.target, attempt |-> e.attempt]}
      <4>1. e.kind = "dispatch"
        BY Zenon, <1>0, <3>2 DEF WorkerOK
      <4>2. \A c \in cmds' : c \in cmds \/ (c.target = e.target /\ c.attempt = e.attempt)
        BY <3>2
      <4> QED BY Zenon, <2>1, <4>1, <4>2 DEF CommandStep
    <3> QED BY Zenon, <2>2, <3>1, <3>2
  <2> QED BY Zenon, <1>4, <1>d, <1>r, <2>1, <2>3 DEF PublishFails, BudgetStep
<1>5. ASSUME NEW e \in Events, MarkDispatched(w, e) PROVE BudgetStep
  <2> DEFINE t == e.target
  <2>1. /\ outbox[e].state # "absent" /\ t \in Targets /\ e.attempt \in Nat
        /\ e.kind = "dispatch"
    <3>1. e \in wk[w].batch /\ e.kind = "dispatch"
      BY Zenon, <1>5 DEF MarkDispatched
    <3>2. outbox[e].state # "absent"
      BY Zenon, <1>i, <3>1 DEF WorkerRows
    <3> QED BY <3>1, <3>2, EventTypes
  <2>2. e.attempt <= MaxRetries + 1 /\ e.attempt <= tgt[t].retry + 1
    BY Zenon, <1>i, <2>1 DEF RowBudget, Paid
  <2>3. /\ \/ tgt' = tgt
           \/ tgt' = [tgt EXCEPT ![t].status = "dispatched", ![t].attempt = e.attempt,
                                 ![t].lease = "live"]
        /\ job' = job \/ job' = [job EXCEPT !.status = "dispatched"]
        /\ wk' = [wk EXCEPT ![w].pc = "marked", ![w].event = e]
        /\ outbox' = outbox /\ cmds' = cmds
    BY Zenon, <1>5 DEF MarkDispatched, AfterDispatchTx
  <2>c. Created
    BY Zenon, <2>1 DEF BudgetInv, NothingBeforeCreation
  <2>4. TargetStep
    <3>1. CASE tgt' = tgt
      BY Zenon, <3>1 DEF TargetStep
    <3>2. CASE tgt' = [tgt EXCEPT ![t].status = "dispatched", ![t].attempt = e.attempt,
                                  ![t].lease = "live"]
      <4>1. tgt[t] \in Target
        BY Zenon, <1>0, <2>1 DEF TypeOK
      <4>2. \A u \in Targets : u # t => tgt'[u] = tgt[u]
        BY Zenon, <1>0, <2>1, <3>2 DEF TypeOK
      <4>3. /\ tgt'[t].status = "dispatched" /\ tgt'[t].attempt = e.attempt
            /\ tgt'[t].retry = tgt[t].retry
        BY Zenon, <1>0, <2>1, <3>2, <4>1 DEF TypeOK, Target
      <4> QED BY Zenon, <2>c, <2>2, <4>2, <4>3 DEF TargetStep, Held
    <3> QED BY Zenon, <2>3, <3>1, <3>2
  <2>5. WorkerStep
    <3>1. /\ \A v \in Workers : wk'[v].batch = wk[v].batch
          /\ \A v \in Workers \ {w} : wk'[v] = wk[v]
          /\ wk'[w].event = e
      BY <1>0, <2>3 DEF TypeOK
    <3> QED BY Zenon, <1>i, <2>1, <3>1 DEF WorkerStep, WorkerRows
  <2>6. Created'
    BY Zenon, <1>0, <2>c, <2>3 DEF TypeOK
  <2> QED BY Zenon, <2>3, <2>4, <2>5, <2>6 DEF RowStep, CommandStep, BudgetStep
<1>6. CASE PublishCommand(w)
  <2>1. /\ wk[w].event \in Events /\ wk[w].event.kind = "dispatch"
        /\ outbox[wk[w].event].state # "absent"
    BY Zenon, <1>0, <1>i, <1>6 DEF PublishCommand, WorkerOK, WorkerRows
  <2>2. CommandStep
    BY <1>6, <2>1 DEF PublishCommand, CommandStep
  <2>3. WorkerStep
    <3>1. \A v \in Workers : wk'[v].batch = wk[v].batch /\ wk'[v].event = wk[v].event
      BY Zenon, <1>0, <1>6 DEF PublishCommand, TypeOK
    <3>2. \A v \in Workers \ {w} : wk'[v] = wk[v]
      BY Zenon, <1>0, <1>6 DEF PublishCommand, TypeOK
    <3> QED BY <1>i, <2>1, <3>1, <3>2 DEF WorkerStep, WorkerRows
  <2> QED BY Zenon, <1>6, <1>r, <2>2, <2>3 DEF PublishCommand, RowStep, BudgetStep
<1>7. CASE FinalizeDispatch(w)
  <2>1. wk[w].event \in Events /\ outbox[wk[w].event].state # "absent"
    BY Zenon, <1>0, <1>i, <1>7 DEF FinalizeDispatch, WorkerOK, WorkerRows
  <2> QED BY Zenon, <1>7, <1>d, <1>r, <2>1 DEF FinalizeDispatch, CommandStep, BudgetStep
\* Expiry and reconnection: a status changes, to "queued" only from "waiting".
<1>8. ASSUME NEW hit, NEW s, s \in Held => \A t \in Targets \cap hit : tgt[t].status \in Held,
             tgt' = [t \in Targets |-> IF t \in hit THEN [tgt[t] EXCEPT !.status = s]
                                      ELSE tgt[t]]
      PROVE  TargetStep
  <2>1. \A t \in Targets : /\ tgt'[t].attempt = tgt[t].attempt /\ tgt'[t].retry = tgt[t].retry
                           /\ tgt'[t].status = IF t \in hit THEN s ELSE tgt[t].status
    <3> TAKE t \in Targets
    <3>1. tgt[t] \in Target
      BY Zenon, <1>0 DEF TypeOK
    <3> QED BY Zenon, <1>8, <3>1 DEF Target
  <2> QED BY <1>8, <2>1 DEF TargetStep
<1>9. CASE ExpireJobs(w)
  <2>1. PICK batch \in Limited(Targets) :
          tgt' = [t \in Targets |-> IF t \in batch /\ Expirable(t)
                                   THEN [tgt[t] EXCEPT !.status = "expired"] ELSE tgt[t]]
    BY Zenon, <1>9 DEF ExpireJobs
  <2>2. TargetStep
    <3> DEFINE hit == {t \in batch : Expirable(t)}
    <3>1. tgt' = [t \in Targets |-> IF t \in hit
                                   THEN [tgt[t] EXCEPT !.status = "expired"] ELSE tgt[t]]
      BY Zenon, <2>1
    <3> HIDE DEF hit
    <3> QED BY Zenon, <1>8, <3>1 DEF Held
  <2>3. Created => Created'
    BY <1>0, <1>9 DEF ExpireJobs, Refreshed, Aggregate, TypeOK
  <2> QED BY Zenon, <1>9, <1>c, <2>2, <2>3 DEF ExpireJobs, RowStep, BudgetStep
<1>10. CASE HandleOfflineReconnect(w)
  <2>1. PICK online \in SUBSET {t \in Targets : tgt[t].status = "waiting"} :
          tgt' = [t \in Targets |-> IF t \in online
                                   THEN [tgt[t] EXCEPT !.status = "queued"] ELSE tgt[t]]
    BY Zenon, <1>10 DEF HandleOfflineReconnect
  <2>2. TargetStep
    BY Zenon, <1>8, <2>1 DEF Held
  <2> QED BY Zenon, <1>10, <1>c, <2>2 DEF HandleOfflineReconnect, RowStep, BudgetStep
<1>11. CASE ExpireOfflineWork(w)
  <2> DEFINE hit == {t \in Targets : tgt[t].status = "waiting"}
  <2>1. tgt' = [t \in Targets |-> IF t \in hit
                                 THEN [tgt[t] EXCEPT !.status = "expired"] ELSE tgt[t]]
    BY Zenon, <1>11 DEF ExpireOfflineWork
  <2>2. TargetStep
    <3> HIDE DEF hit
    <3> QED BY Zenon, <1>8, <2>1 DEF Held
  <2>3. Created => Created'
    BY Zenon, <1>0, <1>11 DEF ExpireOfflineWork, Refreshed, Aggregate, TypeOK
  <2> QED BY Zenon, <1>11, <1>c, <2>2, <2>3 DEF ExpireOfflineWork, RowStep, BudgetStep
<1> QED
  BY Zenon, <1>1, <1>2, <1>3, <1>4, <1>5, <1>6, <1>7, <1>9, <1>10, <1>11 DEF Publisher

LEMMA ConsumerBudget ==
    ASSUME TypeInv, BudgetInv, ReconcileTimeouts \/ ReconcileAggregates \/ Consumer
    PROVE  BudgetStep
<1>0. TypeOK /\ WorkerOK
  BY Zenon DEF TypeInv
<1>t. \A t \in Targets : tgt[t] \in Target
  BY Zenon, <1>0 DEF TypeOK
<1>c. ASSUME wk' = wk, cmds' = cmds, outbox' = outbox
      PROVE  WorkerStep /\ CommandStep /\ RowStep
  BY Zenon, <1>c DEF BudgetInv, WorkerRows, WorkerStep, CommandStep, RowStep
<1>1. CASE ReconcileTimeouts
  <2>1. PICK batch \in Limited({t \in Targets : tgt[t].lease = "lapsed"}) :
          tgt' = [t \in Targets |->
                    IF t \in batch /\ TimedOut(t) THEN AfterTimeout(tgt[t]) ELSE tgt[t]]
    BY Zenon, <1>1 DEF ReconcileTimeouts
  <2>2. \A t \in Targets :
          \/ tgt'[t] = tgt[t]
          \/ tgt'[t].attempt = tgt[t].attempt /\ tgt'[t].retry = tgt[t].retry + 1
    <3> TAKE t \in Targets
    <3>1. AfterTimeout(tgt[t]).attempt = tgt[t].attempt
          /\ AfterTimeout(tgt[t]).retry = tgt[t].retry + 1
      BY Zenon, <1>t DEF AfterTimeout, Target
    <3> QED BY Zenon, <2>1, <3>1
  <2>3. TargetStep
    BY Zenon, <2>2 DEF TargetStep
  <2>4. Created => Created'
    BY Zenon, <1>0, <1>1 DEF ReconcileTimeouts, Refreshed, Aggregate, TypeOK
  <2> QED BY Zenon, <1>1, <1>c, <2>3, <2>4 DEF ReconcileTimeouts, BudgetStep
<1>2. CASE ReconcileAggregates
  <2>1. Created'
    BY Zenon, <1>0, <1>2 DEF ReconcileAggregates, Aggregate, TypeOK
  <2> QED BY Zenon, <1>2, <1>c, <2>1 DEF ReconcileAggregates, TargetStep, BudgetStep
<1>3. ASSUME NEW m \in acks, HandleAgentAck(m) PROVE BudgetStep
  <2> DEFINE next == NextStatus(tgt[m.target].status, m.status)
  <2>1. m.target \in Targets
    BY Zenon, <1>0 DEF TypeOK, Ack
  <2>2. tgt' = [tgt EXCEPT ![m.target].status = next]
    BY Zenon, <1>3 DEF HandleAgentAck
  <2>3. next \in Held => next = tgt[m.target].status
    BY Zenon DEF NextStatus, Held
  <2> HIDE DEF next
  <2>4. \A t \in Targets : /\ tgt'[t].attempt = tgt[t].attempt /\ tgt'[t].retry = tgt[t].retry
                           /\ tgt'[t].status \in Held => tgt[t].status \in Held
    <3> TAKE t \in Targets
    <3>1. CASE t = m.target
      BY <1>0, <1>t, <2>1, <2>2, <2>3, <3>1 DEF TypeOK, Target
    <3>2. CASE t # m.target
      BY Zenon, <1>0, <2>1, <2>2, <3>2 DEF TypeOK
    <3> QED BY Zenon, <3>1, <3>2
  <2>5. TargetStep
    BY Zenon, <2>4 DEF TargetStep
  <2>6. Created => Created'
    BY Zenon, <1>0, <1>3 DEF HandleAgentAck, Refreshed, Aggregate, TypeOK
  <2> QED BY Zenon, <1>3, <1>c, <2>5, <2>6 DEF HandleAgentAck, BudgetStep
<1>4. ASSUME NEW m \in results, ProcessAgentResult(m) PROVE BudgetStep
  <2>1. m.target \in Targets /\ m.status \in Terminal
    BY Zenon, <1>0, StatusesAssumption DEF TypeOK, Result
  <2>2. \/ UNCHANGED <<tgt, job>>
        \/ tgt' = [tgt EXCEPT ![m.target].status = m.status, ![m.target].lease = "none"]
    BY Zenon, <1>4 DEF ProcessAgentResult
  <2>3. \A t \in Targets :
          \/ tgt'[t] = tgt[t]
          \/ /\ tgt'[t].attempt = tgt[t].attempt /\ tgt'[t].retry = tgt[t].retry
             /\ tgt'[t].status \notin Held
    <3> TAKE t \in Targets
    <3>1. CASE t = m.target
      BY <1>0, <1>t, <2>1, <2>2, <3>1 DEF TypeOK, Target, Held, Terminal
    <3>2. CASE t # m.target
      BY Zenon, <1>0, <2>1, <2>2, <3>2 DEF TypeOK
    <3> QED BY Zenon, <3>1, <3>2
  <2>4. TargetStep
    BY Zenon, <2>3 DEF TargetStep
  <2>5. Created => Created'
    BY Zenon, <1>0, <1>4 DEF ProcessAgentResult, Refreshed, Aggregate, TypeOK
  <2> QED BY Zenon, <1>4, <1>c, <2>4, <2>5 DEF ProcessAgentResult, BudgetStep
<1> QED BY Zenon, <1>1, <1>2, <1>3, <1>4 DEF Consumer

LEMMA EnvironmentBudget ==
    ASSUME TypeInv, BudgetInv, Environment
    PROVE  BudgetStep
<1>0. TypeOK /\ WorkerRows
  BY Zenon DEF TypeInv, BudgetInv
<1>c. ASSUME wk' = wk, cmds' = cmds, outbox' = outbox
      PROVE  WorkerStep /\ CommandStep /\ RowStep
  BY Zenon, <1>0, <1>c DEF WorkerRows, WorkerStep, CommandStep, RowStep
<1>1. ASSUME NEW c, NEW s, AgentAcks(c, s) \/ AgentReports(c, s) PROVE BudgetStep
  BY Zenon, <1>1, <1>c DEF AgentAcks, AgentReports, TargetStep, BudgetStep
<1>2. ASSUME NEW w \in Workers, CrashWorker(w) PROVE BudgetStep
  <2>1. WorkerStep
    BY Zenon, <1>0, <1>2 DEF CrashWorker, WorkerRows, WorkerStep, TypeOK
  <2> QED BY Zenon, <1>2, <2>1 DEF CrashWorker, TargetStep, RowStep, CommandStep, BudgetStep
<1>3. CASE JobDeadline
  <2>1. Created'
    BY Zenon, <1>0, <1>3 DEF JobDeadline, TypeOK
  <2> QED BY Zenon, <1>3, <1>c, <2>1 DEF JobDeadline, TargetStep, BudgetStep
<1>4. ASSUME NEW t \in Targets, LeaseLapses(t) PROVE BudgetStep
  <2>1. \A u \in Targets : /\ tgt'[u].attempt = tgt[u].attempt /\ tgt'[u].retry = tgt[u].retry
                           /\ tgt'[u].status = tgt[u].status
    BY <1>0, <1>4 DEF LeaseLapses, TypeOK, Target
  <2>2. TargetStep
    BY Zenon, <2>1 DEF TargetStep
  <2> QED BY Zenon, <1>4, <1>c, <2>2 DEF LeaseLapses, BudgetStep
<1>5. ASSUME NEW e \in Events, OutboxLeaseLapses(e) PROVE BudgetStep
  <2>1. \A f \in Events : outbox'[f].state = outbox[f].state
    BY <1>0, <1>5 DEF OutboxLeaseLapses, TypeOK, Row
  <2>2. RowStep
    BY Zenon, <2>1 DEF RowStep
  <2> QED
    BY Zenon, <1>0, <1>5, <2>2
       DEF OutboxLeaseLapses, WorkerRows, WorkerStep, TargetStep, CommandStep, BudgetStep
<1> QED BY Zenon, <1>1, <1>2, <1>3, <1>4, <1>5 DEF Environment

LEMMA NextBudget ==
    ASSUME TypeInv, BudgetInv, Next
    PROVE  BudgetStep
BY Zenon, RequestBudget, PublisherBudget, ConsumerBudget, EnvironmentBudget DEF Next

LEMMA BudgetInvariance == Spec => []BudgetInv
<1>1. Init => BudgetInv
  <2> SUFFICES ASSUME Init PROVE BudgetInv
    BY Zenon
  <2>1. \A t \in Targets : tgt[t].attempt = 0 /\ tgt[t].retry = 0
    BY Zenon DEF Init
  <2>2. \A e \in Events : outbox[e].state = "absent"
    BY Zenon DEF Init, Unleased
  <2>3. \A w \in Workers : wk[w].batch = {} /\ wk[w].pc = "idle"
    BY Zenon DEF Init
  <2>4. cmds = {}
    BY Zenon DEF Init
  <2>5. TargetBudget
    BY <2>1, MaxRetriesAssumption DEF TargetBudget
  <2>6. RowBudget /\ NothingBeforeCreation
    BY Zenon, <2>1, <2>2 DEF RowBudget, NothingBeforeCreation
  <2>7. WorkerRows
    BY Zenon, <2>3 DEF WorkerRows
  <2>8. RetryBudget
    BY Zenon, <2>4 DEF RetryBudget
  <2> QED BY Zenon, <2>5, <2>6, <2>7, <2>8 DEF BudgetInv
<1>2. TypeInv /\ TypeInv' /\ BudgetInv /\ [Next]_vars => BudgetInv'
  <2> SUFFICES ASSUME TypeInv, TypeInv', BudgetInv, [Next]_vars PROVE BudgetInv'
    BY Zenon
  <2>1. CASE Next
    <3>1. BudgetStep
      BY Zenon, <2>1, NextBudget
    <3> QED BY Zenon, <3>1, BudgetPreserved
  <2>2. CASE UNCHANGED vars
    BY Zenon, <2>2 DEF vars, BudgetInv, TargetBudget, RowBudget, Paid, WorkerRows,
                NothingBeforeCreation, RetryBudget
  <2> QED BY Zenon, <2>1, <2>2
<1> QED BY <1>1, <1>2, TypeInvariance, PTL DEF Spec

\* Whatever timeouts, lease take-overs, crashes between claim and finalisation
\* and operator retries happen, a target is commanded at most max_retries + 1
\* times and each further command was paid for by a counted retry
\* (ensureQueuedOutbox, processOutbox, reconcile, handleRetryJobTargets).
THEOREM BudgetIsKept == Spec => []RetryBudget
<1>1. BudgetInv => RetryBudget
  BY Zenon DEF BudgetInv
<1> QED BY <1>1, BudgetInvariance, PTL
--------------------------------------------------------------------------------
(***************************************************************************)
(* What a target's row says has happened: success has evidence, a          *)
(* cancellation is on its way to the agent, and an acknowledged result was *)
(* processed.                                                              *)
(***************************************************************************)

\* What no retry undoes.
Lasting == {"succeeded", "cancelled"}

\* A step that makes no target succeeded or cancelled, and moves none that is.
NoOutcome ==
    \A t \in Targets : tgt'[t].status \in Lasting
                       => tgt'[t].status = tgt[t].status /\ tgt'[t].attempt = tgt[t].attempt

\* What a step may do to the evidence: it only grows, results are of commands,
\* a target becomes succeeded with an inventory or a claimed result and cancelled
\* with a cancellation event or a claimed result, and what is settled was claimed.
EvidenceStep ==
    /\ cmds \subseteq cmds' /\ results \subseteq results'
    /\ inbox \subseteq inbox' /\ inventories \subseteq inventories'
    /\ \A m \in results' :
         m \in results \/ [target |-> m.target, attempt |-> m.attempt] \in cmds
    /\ \A m \in settled' : m \in settled \/ ResultId(m) \in inbox'
    /\ \A t \in Targets :
         tgt'[t].status \in Lasting
         => \/ tgt'[t].status = tgt[t].status /\ tgt'[t].attempt = tgt[t].attempt
            \/ tgt'[t].status = "succeeded" /\ t \in inventories'
            \/ tgt'[t].status = "cancelled" /\ outbox'[CancelEvent(t)].state # "absent"
            \/ \E m \in results : /\ m.target = t /\ m.attempt = tgt'[t].attempt
                                  /\ m.status = tgt'[t].status /\ ResultId(m) \in inbox'

\* Steps without a new result, inventory or lasting outcome.
LEMMA QuietEvidence ==
    ASSUME NoOutcome, cmds \subseteq cmds', inbox \subseteq inbox',
           UNCHANGED <<results, inventories, settled>>
    PROVE  EvidenceStep
BY Zenon DEF NoOutcome, EvidenceStep

\* Rows that change get a status that may still change.
LEMMA RowsStayOpen ==
    ASSUME \A t \in Targets : tgt'[t] = tgt[t] \/ tgt'[t].status \notin Lasting
    PROVE  NoOutcome
BY Zenon DEF NoOutcome

\* Producers and retries end nothing; an accepted inventory is its own evidence,
\* and a cancelled target gets its event in the same transaction.
LEMMA RequestEvidence ==
    ASSUME TypeInv, Request
    PROVE  EvidenceStep
<1>0. tgt \in [Targets -> Target]
  BY Zenon DEF TypeInv, TypeOK
<1>1. CASE CreateApiJob \/ CreateDurableJob \/ CreatePatchJob
  <2>1. UNCHANGED <<tgt, inbox, streams>>
    BY Zenon, <1>1 DEF CreateApiJob, CreateDurableJob, CreatePatchJob
  <2> QED BY Zenon, <2>1, QuietEvidence DEF streams, NoOutcome
<1>2. CASE CreateApprovedJob
  <2>1. PICK offline \in SUBSET Targets :
          tgt' = [t \in Targets |-> IF t \in offline
                                    THEN [tgt[t] EXCEPT !.status = "waiting"] ELSE tgt[t]]
    BY Zenon, <1>2 DEF CreateApprovedJob
  <2>2. NoOutcome
    BY Zenon, <1>0, <2>1, RowsStayOpen DEF Target, Lasting
  <2> QED BY Zenon, <1>2, <2>2, QuietEvidence DEF CreateApprovedJob, streams
<1>3. CASE CreateDeviceJob
  <2>1. \A t \in Targets : tgt'[t] = [tgt[t] EXCEPT !.agent = FALSE]
    BY Zenon, <1>3 DEF CreateDeviceJob
  <2>2. ASSUME NEW r \in Target
        PROVE  [r EXCEPT !.agent = FALSE].status = r.status /\ [r EXCEPT !.agent = FALSE].attempt = r.attempt
    BY Zenon DEF Target
  <2>3. NoOutcome
    BY Zenon, <1>0, <2>1, <2>2 DEF NoOutcome
  <2> QED BY Zenon, <1>3, <2>3, QuietEvidence DEF CreateDeviceJob, streams
<1>4. CASE CancelJob
  <2> DEFINE hit == {t \in Targets : tgt[t].status \in Active}
  <2>1. \A t \in Targets : t \notin hit => tgt'[t] = tgt[t]
    BY Zenon, <1>4 DEF CancelJob
  <2>2. \A t \in hit : tgt'[t] = [tgt[t] EXCEPT !.status = "cancelled", !.lease = "none"]
    BY Zenon, <1>4 DEF CancelJob
  <2>3. \A t \in hit : tgt'[t].status = "cancelled"
    <3> SUFFICES ASSUME NEW t \in hit PROVE tgt'[t].status = "cancelled"
      BY Zenon
    <3>1. tgt[t] \in Target
      BY Zenon, <1>0
    <3>2. tgt'[t] = [tgt[t] EXCEPT !.status = "cancelled", !.lease = "none"]
      BY Zenon, <2>2
    <3> HIDE DEF hit
    <3> QED BY Zenon, <3>1, <3>2 DEF Target
  <2>4. \A t \in hit : outbox'[CancelEvent(t)] = Unleased("unpublished")
    <3>1. outbox' = CancelRows(hit)
      BY Zenon, <1>4 DEF CancelJob
    <3>2. \A t \in hit : CancelEvent(t) \in Events
      BY Zenon, EventTypes
    <3>3. \A t \in hit : CancelEvent(t).kind = "cancel" /\ CancelEvent(t).target = t
      BY Zenon DEF CancelEvent
    <3> QED BY Zenon, <3>1, <3>2, <3>3 DEF CancelRows
  <2>5. \A t \in hit : outbox'[CancelEvent(t)].state # "absent"
    BY <2>4 DEF Unleased
  <2>6. UNCHANGED <<inbox, streams>>
    BY Zenon, <1>4 DEF CancelJob
  <2> HIDE DEF hit
  <2>7. UNCHANGED <<inbox, inventories, cmds, results, settled>>
    BY Zenon, <2>6 DEF streams
  <2> QED BY Zenon, <2>1, <2>3, <2>5, <2>7 DEF EvidenceStep
<1>5. ASSUME NEW hit, Requeue(hit) PROVE EvidenceStep
  <2>1. \A t \in Targets : \/ tgt'[t] = tgt[t]
                           \/ tgt'[t] = [tgt[t] EXCEPT !.status = "queued", !.retry = @ + 1]
    BY Zenon, <1>5 DEF Requeue
  <2>2. \A t \in Targets : tgt'[t] = tgt[t] \/ tgt'[t].status = "queued"
    BY Zenon, <1>0, <2>1 DEF Target
  <2>3. NoOutcome
    BY Zenon, <2>2, RowsStayOpen DEF Lasting
  <2> QED BY Zenon, <1>5, <2>3, QuietEvidence DEF Requeue, streams
<1>6. ASSUME NEW t \in Targets, SubmitInventory(t) PROVE EvidenceStep
  <2>1. \A u \in Targets : u # t => tgt'[u] = tgt[u]
    BY Zenon, <1>0, <1>6 DEF SubmitInventory
  <2>2. t \in inventories' /\ inventories \subseteq inventories' /\ UNCHANGED <<cmds, results, inbox, settled>>
    BY Zenon, <1>6 DEF SubmitInventory
  <2>3. tgt'[t].status = "succeeded"
    BY Zenon, <1>0, <1>6 DEF SubmitInventory, Target
  <2> QED BY Zenon, <2>1, <2>2, <2>3 DEF EvidenceStep
<1> QED BY Zenon, <1>1, <1>2, <1>3, <1>4, <1>5, <1>6 DEF Request, RetryAll, RetryTarget

\* Dispatchers move targets to dispatched, queued and expired.
LEMMA PublisherEvidence ==
    ASSUME TypeInv, NEW w \in Workers, Publisher(w)
    PROVE  EvidenceStep
<1>0. tgt \in [Targets -> Target]
  BY Zenon DEF TypeInv, TypeOK
<1>q. UNCHANGED <<results, inventories, inbox, settled>> /\ cmds \subseteq cmds'
  BY Zenon DEF Publisher, EnsureQueuedOutbox, ClaimOutbox, RejectEvent, PublishCancel, PublishFails,
         MarkDispatched, PublishCommand, FinalizeDispatch, ExpireJobs,
         HandleOfflineReconnect, ExpireOfflineWork, streams
<1>1. CASE tgt' = tgt
  BY Zenon, <1>1, <1>q, QuietEvidence DEF NoOutcome
<1>2. ASSUME NEW e \in Events, MarkDispatched(w, e) PROVE NoOutcome
  <2>1. \/ tgt' = tgt
        \/ tgt' = [tgt EXCEPT ![e.target].status = "dispatched",
                              ![e.target].attempt = e.attempt, ![e.target].lease = "live"]
    BY Zenon, <1>2 DEF MarkDispatched
  <2>2. \A t \in Targets : t # e.target => tgt'[t] = tgt[t]
    BY Zenon, <1>0, <2>1
  <2>3. e.target \in Targets
    BY Zenon, EventTypes
  <2>4. tgt'[e.target] = tgt[e.target] \/ tgt'[e.target].status = "dispatched"
    BY <1>0, <2>1, <2>3 DEF Target
  <2> QED BY Zenon, <2>2, <2>4, RowsStayOpen DEF Lasting
<1>3. CASE ExpireJobs(w) \/ HandleOfflineReconnect(w) \/ ExpireOfflineWork(w)
  <2>1. \A t \in Targets : \/ tgt'[t] = tgt[t]
                           \/ tgt'[t] = [tgt[t] EXCEPT !.status = "expired"]
                           \/ tgt'[t] = [tgt[t] EXCEPT !.status = "queued"]
    BY Zenon, <1>3 DEF ExpireJobs, HandleOfflineReconnect, ExpireOfflineWork
  <2>2. NoOutcome
    BY Zenon, <1>0, <2>1, RowsStayOpen DEF Target, Lasting
  <2> QED BY Zenon, <1>q, <2>2, QuietEvidence
<1>4. tgt' = tgt \/ (\E e \in Events : MarkDispatched(w, e))
      \/ ExpireJobs(w) \/ HandleOfflineReconnect(w) \/ ExpireOfflineWork(w)
  BY Zenon DEF Publisher, EnsureQueuedOutbox, ClaimOutbox, RejectEvent, PublishCancel, PublishFails,
         PublishCommand, FinalizeDispatch
<1> QED BY Zenon, <1>1, <1>2, <1>3, <1>4, <1>q, QuietEvidence

\* Reconciliation and acknowledgements end nothing that lasts; a result that applies
\* is claimed in the same transaction.
LEMMA ConsumerEvidence ==
    ASSUME TypeInv, ReconcileTimeouts \/ ReconcileAggregates \/ Consumer
    PROVE  EvidenceStep
<1>0. tgt \in [Targets -> Target] /\ acks \subseteq Ack /\ results \subseteq Result
  BY Zenon DEF TypeInv, TypeOK
<1>1. CASE ReconcileTimeouts
  <2>1. \A t \in Targets : tgt'[t] = tgt[t] \/ tgt'[t] = AfterTimeout(tgt[t])
    BY Zenon, <1>1 DEF ReconcileTimeouts
  <2>2. \A t \in Targets : AfterTimeout(tgt[t]).status \notin Lasting
    BY Zenon, <1>0 DEF AfterTimeout, Target, Lasting
  <2>3. NoOutcome
    BY Zenon, <2>1, <2>2, RowsStayOpen DEF Lasting
  <2> QED BY Zenon, <1>1, <2>3, QuietEvidence DEF ReconcileTimeouts, streams
<1>2. CASE ReconcileAggregates
  BY Zenon, <1>2, QuietEvidence DEF ReconcileAggregates, NoOutcome, streams
<1>3. ASSUME NEW m \in acks, HandleAgentAck(m) PROVE EvidenceStep
  <2> DEFINE next == NextStatus(tgt[m.target].status, m.status)
  <2>1. m.target \in Targets /\ tgt' = [tgt EXCEPT ![m.target].status = next]
    BY Zenon, <1>0, <1>3 DEF HandleAgentAck, Ack
  <2>2. next = tgt[m.target].status \/ next \notin Lasting
    BY Zenon DEF NextStatus, Lasting
  <2> HIDE DEF next
  <2>3. NoOutcome
    BY Zenon, <1>0, <2>1, <2>2 DEF NoOutcome, Target
  <2> QED BY Zenon, <1>3, <2>3, QuietEvidence DEF HandleAgentAck, streams
<1>4. ASSUME NEW m \in results, ProcessAgentResult(m) PROVE EvidenceStep
  <2>1. /\ UNCHANGED <<inventories, cmds, results>>
        /\ inbox \subseteq inbox' /\ ResultId(m) \in inbox'
        /\ settled' \subseteq settled \cup {m}
    BY Zenon, <1>4 DEF ProcessAgentResult
  <2>2. CASE tgt' = tgt
    BY Zenon, <2>1, <2>2 DEF EvidenceStep
  <2>3. CASE /\ Applies(m)
             /\ tgt' = [tgt EXCEPT ![m.target].status = m.status, ![m.target].lease = "none"]
    <3>1. m.target \in Targets
      BY Zenon, <1>0 DEF Result
    <3>2. \A u \in Targets : u # m.target => tgt'[u] = tgt[u]
      BY Zenon, <1>0, <2>3
    <3>3. /\ tgt'[m.target].status = m.status
          /\ tgt'[m.target].attempt = m.attempt
      BY <1>0, <2>3, <3>1 DEF Applies, Target
    <3> QED BY Zenon, <2>1, <3>2, <3>3 DEF EvidenceStep
  <2> QED BY Zenon, <1>4, <2>2, <2>3 DEF ProcessAgentResult
<1> QED BY Zenon, <1>1, <1>2, <1>3, <1>4 DEF Consumer

\* Agents report on what they were commanded; crashes and time prove nothing.
LEMMA EnvironmentEvidence ==
    ASSUME TypeInv, Environment
    PROVE  EvidenceStep
<1>0. tgt \in [Targets -> Target] /\ cmds \subseteq Message
  BY Zenon DEF TypeInv, TypeOK
<1>1. ASSUME NEW c \in cmds, NEW s, AgentReports(c, s) PROVE EvidenceStep
  <2>1. /\ UNCHANGED <<tgt, inbox, inventories, cmds>>
        /\ results' = results \cup {[target |-> c.target, attempt |-> c.attempt, status |-> s]}
        /\ settled' = settled
    BY Zenon, <1>1 DEF AgentReports
  <2>2. [target |-> c.target, attempt |-> c.attempt] = c
    BY Zenon, <1>0 DEF Message
  <2> QED BY <2>1, <2>2 DEF EvidenceStep
<1>2. ASSUME NEW t \in Targets, LeaseLapses(t) PROVE EvidenceStep
  <2>1. tgt' = [tgt EXCEPT ![t].lease = "lapsed"]
    BY Zenon, <1>2 DEF LeaseLapses
  <2>2. \A u \in Targets : tgt'[u].status = tgt[u].status /\ tgt'[u].attempt = tgt[u].attempt
    BY <1>0, <2>1 DEF Target
  <2> QED BY Zenon, <1>2, <2>2, QuietEvidence DEF LeaseLapses, NoOutcome, streams
<1>3. CASE UNCHANGED <<tgt, inbox, inventories, cmds, results, settled>>
  BY Zenon, <1>3, QuietEvidence DEF NoOutcome
<1> QED BY Zenon, <1>1, <1>2, <1>3 DEF Environment, AgentAcks, CrashWorker, JobDeadline,
          OutboxLeaseLapses, streams

\* Results are of commands that were published.
ResultsOfCommands ==
    \A m \in results : [target |-> m.target, attempt |-> m.attempt] \in cmds

EvidenceInv == ResultsOfCommands /\ SuccessHasEvidence /\ CancelIsDurable /\ SettledIsProcessed

LEMMA EvidencePreserved ==
    ASSUME TypeInv, EvidenceInv, EvidenceStep,
           \A e \in Events : outbox[e].state # "absent" => outbox'[e].state # "absent"
    PROVE  EvidenceInv'
<1>a. /\ cmds \subseteq cmds' /\ results \subseteq results'
      /\ inbox \subseteq inbox' /\ inventories \subseteq inventories'
  BY Zenon DEF EvidenceStep
<1>b. \A t \in Targets :
        tgt'[t].status \in Lasting
        => \/ tgt'[t].status = tgt[t].status /\ tgt'[t].attempt = tgt[t].attempt
           \/ tgt'[t].status = "succeeded" /\ t \in inventories'
           \/ tgt'[t].status = "cancelled" /\ outbox'[CancelEvent(t)].state # "absent"
           \/ \E m \in results : /\ m.target = t /\ m.attempt = tgt'[t].attempt
                                 /\ m.status = tgt'[t].status /\ ResultId(m) \in inbox'
  BY Zenon DEF EvidenceStep
<1>1. ResultsOfCommands'
  BY Zenon DEF EvidenceStep, EvidenceInv, ResultsOfCommands
<1>2. SettledIsProcessed'
  BY Zenon DEF EvidenceStep, EvidenceInv, SettledIsProcessed, ResultId
<1>m. ASSUME NEW t \in Targets, NEW s,
             \E m \in results : /\ m.target = t /\ m.attempt = tgt'[t].attempt
                                /\ m.status = s /\ ResultId(m) \in inbox'
      PROVE  /\ <<"res", t, tgt'[t].attempt>> \in inbox'
             /\ [target |-> t, attempt |-> tgt'[t].attempt] \in cmds'
             /\ [target |-> t, attempt |-> tgt'[t].attempt, status |-> s] \in results'
  <2>1. PICK m \in results : /\ m.target = t /\ m.attempt = tgt'[t].attempt
                             /\ m.status = s /\ ResultId(m) \in inbox'
    BY Zenon, <1>m
  <2>2. m \in Result
    BY Zenon DEF TypeInv, TypeOK
  <2>3. m = [target |-> t, attempt |-> tgt'[t].attempt, status |-> s]
    BY Zenon, <2>1, <2>2 DEF Result
  <2>4. [target |-> m.target, attempt |-> m.attempt] \in cmds
    BY Zenon DEF EvidenceInv, ResultsOfCommands
  <2>5. <<"res", t, tgt'[t].attempt>> \in inbox'
    BY Zenon, <2>1 DEF ResultId
  <2> QED BY Zenon, <1>a, <2>1, <2>3, <2>4, <2>5
<1>3. ASSUME NEW t \in Targets, tgt'[t].status = "succeeded", t \notin inventories'
      PROVE  /\ <<"res", t, tgt'[t].attempt>> \in inbox'
             /\ [target |-> t, attempt |-> tgt'[t].attempt] \in cmds'
             /\ [target |-> t, attempt |-> tgt'[t].attempt, status |-> "succeeded"] \in results'
  <2>1. CASE tgt[t].status = "succeeded" /\ tgt'[t].attempt = tgt[t].attempt
    <3>1. t \notin inventories
      BY Zenon, <1>a, <1>3
    <3>2. /\ <<"res", t, tgt[t].attempt>> \in inbox
          /\ [target |-> t, attempt |-> tgt[t].attempt] \in cmds
          /\ [target |-> t, attempt |-> tgt[t].attempt, status |-> "succeeded"] \in results
      BY Zenon, <2>1, <3>1 DEF EvidenceInv, SuccessHasEvidence
    <3> QED BY Zenon, <1>a, <2>1, <3>2
  <2>2. CASE \E m \in results : /\ m.target = t /\ m.attempt = tgt'[t].attempt
                                /\ m.status = "succeeded" /\ ResultId(m) \in inbox'
    BY Zenon, <1>m, <2>2
  <2>3. tgt'[t].status \in Lasting
    BY Zenon, <1>3 DEF Lasting
  <2> QED BY Zenon, <1>b, <1>3, <2>1, <2>2, <2>3
<1>4. SuccessHasEvidence'
  BY Zenon, <1>3 DEF SuccessHasEvidence
<1>5. ASSUME NEW t \in Targets, tgt'[t].status = "cancelled",
             outbox'[CancelEvent(t)].state = "absent"
      PROVE  <<"res", t, tgt'[t].attempt>> \in inbox'
  <2>1. CASE tgt[t].status = "cancelled" /\ tgt'[t].attempt = tgt[t].attempt
    <3>1. outbox[CancelEvent(t)].state = "absent"
      BY Zenon, <1>5, EventTypes
    <3>2. <<"res", t, tgt[t].attempt>> \in inbox
      BY Zenon, <2>1, <3>1 DEF EvidenceInv, CancelIsDurable
    <3> QED BY Zenon, <1>a, <2>1, <3>2
  <2>2. CASE \E m \in results : /\ m.target = t /\ m.attempt = tgt'[t].attempt
                                /\ m.status = "cancelled" /\ ResultId(m) \in inbox'
    BY Zenon, <1>m, <2>2
  <2>3. tgt'[t].status \in Lasting
    BY Zenon, <1>5 DEF Lasting
  <2> QED BY Zenon, <1>b, <1>5, <2>1, <2>2, <2>3
<1>6. CancelIsDurable'
  BY Zenon, <1>5 DEF CancelIsDurable, CancelEvent
<1> QED BY Zenon, <1>1, <1>2, <1>4, <1>6 DEF EvidenceInv

LEMMA EvidenceInvariance == Spec => []EvidenceInv
<1>1. Init => EvidenceInv
  <2> SUFFICES ASSUME Init PROVE EvidenceInv
    BY Zenon
  <2>1. results = {} /\ settled = {} /\ \A t \in Targets : tgt[t].status = "queued"
    BY Zenon DEF Init
  <2> QED BY Zenon, <2>1 DEF EvidenceInv, SuccessHasEvidence, ResultsOfCommands, CancelIsDurable,
                      SettledIsProcessed
<1>2. TypeInv /\ BudgetInv /\ EvidenceInv /\ [Next]_vars => EvidenceInv'
  <2> SUFFICES ASSUME TypeInv, BudgetInv, EvidenceInv, [Next]_vars PROVE EvidenceInv'
    BY Zenon
  <2>1. CASE Next
    <3>1. EvidenceStep
      BY Zenon, <2>1, RequestEvidence, PublisherEvidence, ConsumerEvidence, EnvironmentEvidence DEF Next
    <3>2. \A e \in Events : outbox[e].state # "absent" => outbox'[e].state # "absent"
      BY Zenon, <2>1, NextBudget DEF BudgetStep, RowStep
    <3> QED BY Zenon, <3>1, <3>2, EvidencePreserved
  <2>2. CASE UNCHANGED vars
    BY Zenon, <2>2 DEF vars, EvidenceInv, ResultsOfCommands, SuccessHasEvidence, CancelIsDurable,
                       SettledIsProcessed
  <2> QED BY Zenon, <2>1, <2>2
<1> QED BY <1>1, <1>2, TypeInvariance, BudgetInvariance, PTL DEF Spec

\* A target shows success only if an agent that was sent that very attempt has
\* reported it and the report was claimed, or its inventory was accepted
\* (processAgentResultOnce, SubmitInventory).
THEOREM SuccessIsProven == Spec => []SuccessHasEvidence
<1>1. EvidenceInv => SuccessHasEvidence
  BY Zenon DEF EvidenceInv
<1> QED BY <1>1, EvidenceInvariance, PTL

\* A target that shows cancelled has a durable event for its agent in the outbox,
\* or its agent reported the cancellation itself: no restart, retry or race of
\* handleCancelJob with results and reconciliation leaves an agent untold.
THEOREM CancellationIsDurable == Spec => []CancelIsDurable
<1>1. EvidenceInv => CancelIsDurable
  BY Zenon DEF EvidenceInv
<1> QED BY <1>1, EvidenceInvariance, PTL

\* A result that was acknowledged to the stream was claimed in the inbox by a
\* transaction that committed (processAgentResultOnce).
THEOREM AcknowledgedIsProcessed == Spec => []SettledIsProcessed
<1>1. EvidenceInv => SettledIsProcessed
  BY Zenon DEF EvidenceInv
<1> QED BY <1>1, EvidenceInvariance, PTL
--------------------------------------------------------------------------------
(***************************************************************************)
(* A published row was sent.  A dispatcher may finalise a row long after   *)
(* it published, or after its lease went to another and came back, so the  *)
(* invariant speaks of the dispatchers that are past the publication too.  *)
(***************************************************************************)
Command(e) == [target |-> e.target, attempt |-> e.attempt]

Sent(e) == \/ e.kind = "dispatch" /\ Command(e) \in cmds
           \/ e.kind = "cancel" /\ e.target \in cancels

WorkersSent == \A w \in Workers : wk[w].pc = "sent" => Command(wk[w].event) \in cmds

\* What a step may do to the rows: nothing is unsent, and what becomes published,
\* or is held as sent, went out.
SentStep ==
    /\ cmds \subseteq cmds' /\ cancels \subseteq cancels'
    /\ \A e \in Events : outbox'[e].state = "published" => outbox[e].state = "published" \/ Sent(e)'
    /\ \A w \in Workers : wk'[w].pc = "sent" => Command(wk'[w].event) \in cmds'

LEMMA RequestSent ==
    ASSUME TypeInv, WorkersSent, Request
    PROVE  SentStep
<1>0. Unleased("unpublished").state # "published"
  BY Zenon DEF Unleased
<1>1. UNCHANGED <<wk, cmds, cancels>>
  BY Zenon DEF Request, CreateApiJob, CreateDurableJob, CreatePatchJob, CreateApprovedJob,
               CreateDeviceJob, CancelJob, RetryAll, RetryTarget, Requeue, SubmitInventory, streams
<1>2. \A e \in Events : outbox'[e] = outbox[e] \/ outbox'[e] = Unleased("unpublished")
  BY Zenon DEF Request, CreateApiJob, CreateDurableJob, CreatePatchJob, CreateApprovedJob,
               CreateDeviceJob, CancelJob, CancelRows, RetryAll, RetryTarget, Requeue, SubmitInventory
<1> QED BY Zenon, <1>0, <1>1, <1>2 DEF SentStep, WorkersSent, Command

LEMMA PublisherSent ==
    ASSUME TypeInv, WorkersSent, NEW w \in Workers, Publisher(w)
    PROVE  SentStep
<1>0. Unleased("unpublished").state # "published"
  BY Zenon DEF Unleased
<1>t. outbox \in [Events -> Row] /\ wk \in [Workers -> [pc : {"idle", "batch", "marked", "sent"},
                                           batch : SUBSET Events, event : Events \cup {Nobody}]]
  BY Zenon DEF TypeInv, TypeOK
<1>d. ASSUME NEW e, Done(w, e)
      PROVE  \A v \in Workers : wk'[v].pc = "sent" => wk[v].pc = "sent" /\ wk'[v] = wk[v]
  <2>1. wk'[w].pc # "sent"
    BY Zenon, <1>t, <1>d DEF Done
  <2>2. \A v \in Workers : v # w => wk'[v] = wk[v]
    BY Zenon, <1>t, <1>d DEF Done
  <2> QED BY Zenon, <2>1, <2>2
<1>f. ASSUME NEW e \in Events, FailOutbox(w, e)
      PROVE  \A f \in Events : outbox'[f] = outbox[f] \/ outbox'[f] = Unleased("unpublished")
  BY Zenon, <1>t, <1>f DEF FailOutbox
<1>g. ASSUME NEW e \in Events, FinalizeOutbox(w, e)
      PROVE  \A f \in Events : outbox'[f] = outbox[f] \/ f = e
  BY Zenon, <1>t, <1>g DEF FinalizeOutbox
<1>1. CASE EnsureQueuedOutbox(w)
  <2>1. \A e \in Events : outbox'[e] = outbox[e] \/ outbox'[e] = Unleased("unpublished")
    BY Zenon, <1>1 DEF EnsureQueuedOutbox
  <2> QED BY Zenon, <1>0, <1>1, <2>1 DEF EnsureQueuedOutbox, streams, SentStep, WorkersSent, Command
<1>2. CASE ClaimOutbox(w)
  <2>1. PICK batch \in SUBSET Claimable :
          /\ outbox' = [e \in Events |-> IF e \in batch
                                         THEN [outbox[e] EXCEPT !.owner = w, !.live = TRUE]
                                         ELSE outbox[e]]
          /\ wk' = [wk EXCEPT ![w] = [pc |-> "batch", batch |-> batch, event |-> Nobody]]
    BY Zenon, <1>2 DEF ClaimOutbox
  <2>2. ASSUME NEW r \in Row PROVE [r EXCEPT !.owner = w, !.live = TRUE].state = r.state
    BY Zenon DEF Row
  <2>3. \A e \in Events : outbox'[e].state = outbox[e].state
    BY Zenon, <1>t, <2>1, <2>2
  <2>4. \A v \in Workers : wk'[v].pc = "sent" => wk'[v] = wk[v]
    BY Zenon, <1>t, <2>1
  <2>5. UNCHANGED <<cmds, cancels>>
    BY Zenon, <1>2 DEF ClaimOutbox, streams
  <2> QED BY Zenon, <2>3, <2>4, <2>5 DEF SentStep, WorkersSent, Command
<1>3. ASSUME NEW e \in Events, RejectEvent(w, e) PROVE SentStep
  <2>1. Done(w, e) /\ FailOutbox(w, e) /\ UNCHANGED <<cmds, cancels>>
    BY Zenon, <1>3 DEF RejectEvent, streams
  <2> QED BY Zenon, <1>0, <1>d, <1>f, <2>1 DEF SentStep, WorkersSent, Command
<1>4. ASSUME NEW e \in Events, PublishCancel(w, e) PROVE SentStep
  <2>1. /\ Done(w, e) /\ FinalizeOutbox(w, e) /\ UNCHANGED cmds
        /\ cancels' = cancels \cup {e.target} /\ e.kind = "cancel"
    BY Zenon, <1>4 DEF PublishCancel
  <2>2. Sent(e)'
    BY Zenon, <2>1 DEF Sent
  <2> QED BY Zenon, <1>d, <1>g, <2>1, <2>2 DEF SentStep, WorkersSent, Command
<1>5. ASSUME NEW e \in Events, PublishFails(w, e) PROVE SentStep
  <2>1. Done(w, e) /\ FailOutbox(w, e)
    BY Zenon, <1>5 DEF PublishFails
  <2>2. cmds \subseteq cmds' /\ cancels \subseteq cancels'
    BY Zenon, <1>5 DEF PublishFails, streams
  <2> QED BY Zenon, <1>0, <1>d, <1>f, <2>1, <2>2 DEF SentStep, WorkersSent, Command
<1>6. ASSUME NEW e \in Events, MarkDispatched(w, e) PROVE SentStep
  <2>1. /\ wk' = [wk EXCEPT ![w].pc = "marked", ![w].event = e]
        /\ UNCHANGED <<outbox, cmds, cancels>>
    BY Zenon, <1>6 DEF MarkDispatched, AfterDispatchTx, streams
  <2>2. \A v \in Workers : wk'[v].pc = "sent" => wk'[v] = wk[v]
    BY <1>t, <2>1
  <2>3. (\A f \in Events : outbox'[f].state = outbox[f].state) /\ UNCHANGED <<cmds, cancels>>
    BY Zenon, <2>1
  <2> QED BY Zenon, <2>2, <2>3 DEF SentStep, WorkersSent, Command
<1>7. CASE PublishCommand(w)
  <2>1. /\ wk' = [wk EXCEPT ![w].pc = "sent"]
        /\ cmds' = cmds \cup {Command(wk[w].event)}
        /\ UNCHANGED <<outbox, cancels>>
    BY Zenon, <1>7 DEF PublishCommand, Command
  <2>2. \A v \in Workers : v # w => wk'[v] = wk[v]
    BY Zenon, <1>t, <2>1
  <2>3. wk'[w].event = wk[w].event
    BY Zenon, <1>t, <2>1
  <2>4. \A v \in Workers : wk'[v].pc = "sent" => Command(wk'[v].event) \in cmds'
    BY <2>1, <2>2, <2>3 DEF WorkersSent
  <2> QED BY Zenon, <2>1, <2>4 DEF SentStep
<1>8. CASE FinalizeDispatch(w)
  <2>1. /\ FinalizeOutbox(w, wk[w].event) /\ Done(w, wk[w].event) /\ wk[w].pc = "sent"
        /\ UNCHANGED <<cmds, cancels>>
    BY Zenon, <1>8 DEF FinalizeDispatch, streams
  <2>2. wk[w].event \in Events /\ wk[w].event.kind = "dispatch"
    BY Zenon, <2>1 DEF TypeInv, WorkerOK
  <2>3. Sent(wk[w].event)
    BY Zenon, <2>1, <2>2 DEF Sent, WorkersSent
  <2>4. \A f \in Events : Sent(f) => Sent(f)'
    BY Zenon, <2>1 DEF Sent
  <2>5. \A f \in Events : outbox'[f].state = "published" => outbox[f].state = "published" \/ Sent(f)'
    BY Zenon, <1>g, <2>1, <2>2, <2>3, <2>4
  <2> QED BY Zenon, <1>d, <2>1, <2>5 DEF SentStep, WorkersSent
<1>9. CASE ExpireJobs(w) \/ HandleOfflineReconnect(w) \/ ExpireOfflineWork(w)
  <2>1. UNCHANGED <<outbox, wk, cmds, cancels>>
    BY Zenon, <1>9 DEF ExpireJobs, HandleOfflineReconnect, ExpireOfflineWork, streams
  <2> QED BY Zenon, <2>1 DEF SentStep, WorkersSent, Command
<1> QED BY Zenon, <1>1, <1>2, <1>3, <1>4, <1>5, <1>6, <1>7, <1>8, <1>9 DEF Publisher

LEMMA OthersSent ==
    ASSUME TypeInv, WorkersSent,
           ReconcileTimeouts \/ ReconcileAggregates \/ Consumer \/ Environment
    PROVE  SentStep
<1>t. outbox \in [Events -> Row] /\ wk \in [Workers -> [pc : {"idle", "batch", "marked", "sent"},
                                           batch : SUBSET Events, event : Events \cup {Nobody}]]
  BY Zenon DEF TypeInv, TypeOK
<1>1. CASE UNCHANGED <<outbox, wk, cmds, cancels>>
  BY Zenon, <1>1 DEF SentStep, WorkersSent, Command
<1>2. ASSUME NEW w \in Workers, CrashWorker(w) PROVE SentStep
  <2>1. /\ wk' = [wk EXCEPT ![w] = [pc |-> "idle", batch |-> {}, event |-> Nobody]]
        /\ UNCHANGED <<outbox, cmds, cancels>>
    BY Zenon, <1>2 DEF CrashWorker, streams
  <2>2. \A v \in Workers : wk'[v].pc = "sent" => wk'[v] = wk[v]
    BY Zenon, <1>t, <2>1
  <2>3. (\A f \in Events : outbox'[f].state = outbox[f].state) /\ UNCHANGED <<cmds, cancels>>
    BY Zenon, <2>1
  <2> QED BY Zenon, <2>2, <2>3 DEF SentStep, WorkersSent, Command
<1>3. ASSUME NEW e \in Events, OutboxLeaseLapses(e) PROVE SentStep
  <2>1. outbox' = [outbox EXCEPT ![e].live = FALSE] /\ UNCHANGED <<wk, cmds, cancels>>
    BY Zenon, <1>3 DEF OutboxLeaseLapses, streams
  <2>2. ASSUME NEW r \in Row PROVE [r EXCEPT !.live = FALSE].state = r.state
    BY Zenon DEF Row
  <2>3. \A f \in Events : outbox'[f].state = outbox[f].state
    BY Zenon, <1>t, <2>1, <2>2
  <2> QED BY Zenon, <2>1, <2>3 DEF SentStep, WorkersSent, Command
<1>4. CASE ReconcileTimeouts \/ ReconcileAggregates \/ Consumer
  BY Zenon, <1>1, <1>4 DEF ReconcileTimeouts, ReconcileAggregates, Consumer, HandleAgentAck,
                           ProcessAgentResult, streams
<1>5. ASSUME NEW c, NEW s, AgentAcks(c, s) \/ AgentReports(c, s) PROVE SentStep
  BY Zenon, <1>1, <1>5 DEF AgentAcks, AgentReports
<1>6. ASSUME NEW t, JobDeadline \/ LeaseLapses(t) PROVE SentStep
  BY Zenon, <1>1, <1>6 DEF JobDeadline, LeaseLapses, streams
<1> QED BY Zenon, <1>2, <1>3, <1>4, <1>5, <1>6 DEF Environment

\* An outbox row is marked published only when its message went out, although a
\* dispatcher may crash, lose its lease to another and finalise late, and any
\* number of dispatchers work on the table (processOutbox, failOutbox).
THEOREM PublishedIsSent == Spec => []PublishedRowWasSent
<1>1. Init => PublishedRowWasSent /\ WorkersSent
  <2> SUFFICES ASSUME Init PROVE PublishedRowWasSent /\ WorkersSent
    BY Zenon
  <2>1. \A e \in Events : outbox[e].state = "absent"
    BY Zenon DEF Init, Unleased
  <2>2. \A w \in Workers : wk[w].pc = "idle"
    BY Zenon DEF Init
  <2> QED BY Zenon, <2>1, <2>2 DEF PublishedRowWasSent, WorkersSent
<1>2. TypeInv /\ PublishedRowWasSent /\ WorkersSent /\ [Next]_vars
      => PublishedRowWasSent' /\ WorkersSent'
  <2> SUFFICES ASSUME TypeInv, PublishedRowWasSent, WorkersSent, [Next]_vars
               PROVE  PublishedRowWasSent' /\ WorkersSent'
    BY Zenon
  <2>1. CASE Next
    <3>1. SentStep
      BY Zenon, <2>1, RequestSent, PublisherSent, OthersSent DEF Next
    <3>2. \A e \in Events : outbox[e].state = "published" => Sent(e)
      BY Zenon DEF PublishedRowWasSent, Sent, Command
    <3>3. \A e \in Events : Sent(e) => Sent(e)'
      <4>1. cmds \subseteq cmds' /\ cancels \subseteq cancels'
        BY Zenon, <3>1 DEF SentStep
      <4> QED BY Zenon, <4>1 DEF Sent, Command
    <3>4. \A e \in Events : outbox'[e].state = "published" => Sent(e)'
      BY Zenon, <3>1, <3>2, <3>3 DEF SentStep
    <3>5. PublishedRowWasSent'
      BY Zenon, <3>4 DEF PublishedRowWasSent, Sent, Command
    <3> QED BY Zenon, <3>1, <3>5 DEF SentStep, WorkersSent, Command
  <2>2. CASE UNCHANGED vars
    BY Zenon, <2>2 DEF vars, PublishedRowWasSent, WorkersSent, Command
  <2> QED BY Zenon, <2>1, <2>2
<1> QED BY <1>1, <1>2, TypeInvariance, PTL DEF Spec

-----------------------------------------------------------------------------
(***************************************************************************)
(* JobDispatch implements JobOutcomes: each step of the job system is one  *)
(* abstract step, or changes nothing a caller sees.                        *)
(***************************************************************************)
USE DEF Created, Idle, streams

\* Before the job exists nobody has heard of it, and its targets are as
\* inserted; CreateApprovedJob relies on it.
Untouched ==
    ~Created => /\ cmds = {} /\ acks = {} /\ results = {}
                /\ \A t \in Targets : tgt[t].status = "queued"

seen == <<cmds, results, inventories, opRetries>>

\* A step after which every target has the outcome it had is invisible.
LEMMA Invisible ==
    ASSUME UNCHANGED seen,
           \A t \in Targets : OutcomeOf(tgt'[t].status) = OutcomeOf(tgt[t].status)
    PROVE  UNCHANGED Promise!vars
<1>1. Outcomes' = Outcomes
  BY Zenon DEF Outcomes
<1>2. Commanded' = Commanded /\ Proven' = Proven /\ opRetries' = opRetries
  BY Zenon DEF Commanded, Proven, seen
<1> QED BY Zenon, <1>1, <1>2 DEF Promise!vars

\* A step that ends open targets, all in the same way, is a Settle.
LEMMA Settles ==
    ASSUME UNCHANGED seen,
           NEW hit \in SUBSET Targets, NEW how \in Terminal,
           \A t \in hit : tgt[t].status \notin Terminal,
           how = "succeeded" => hit \subseteq Proven,
           \A t \in Targets : OutcomeOf(tgt'[t].status) =
                                IF t \in hit THEN how ELSE OutcomeOf(tgt[t].status)
    PROVE  Promise!Next
<1>1. \A t \in hit : Outcomes[t] = "open"
  BY Zenon DEF Outcomes, OutcomeOf
<1>2. Outcomes' = [t \in Targets |-> IF t \in hit THEN how ELSE Outcomes[t]]
  BY Zenon DEF Outcomes
<1>3. Commanded' = Commanded /\ Proven' = Proven /\ opRetries' = opRetries
  BY Zenon DEF Commanded, Proven, seen
<1>4. Promise!Settle(hit, how)
  BY Zenon, <1>1, <1>2, <1>3 DEF Promise!Settle
<1> QED BY Zenon, <1>4 DEF Promise!Next, Terminal

\* A command within the budget is a Command.
LEMMA Commands ==
    ASSUME TypeOK, RetryBudget', NEW c \in Message, cmds' = cmds \cup {c},
           UNCHANGED <<tgt, results, inventories, opRetries>>
    PROVE  Promise!Next
<1>1. Outcomes' = Outcomes /\ Proven' = Proven /\ opRetries' = opRetries
  BY Zenon DEF Outcomes, Proven
<1>2. c.attempt \in 1 .. MaxRetries + 1 /\ c.target \in Targets
  BY MaxRetriesAssumption, MaxAttemptAssumption DEF Message, Attempts, RetryBudget
<1>3. Commanded' = [Commanded EXCEPT ![c.target] = @ \cup {c.attempt}]
  <2>1. ASSUME NEW t \in Targets
        PROVE  {d.attempt : d \in {x \in cmds' : x.target = t}} =
               IF t = c.target THEN Commanded[t] \cup {c.attempt} ELSE Commanded[t]
    BY Zenon DEF Commanded
  <2> QED BY Zenon, <2>1 DEF Commanded
<1>4. Promise!Command(c.target)
  BY Zenon, <1>1, <1>2, <1>3 DEF Promise!Command
<1> QED BY Zenon, <1>2, <1>4 DEF Promise!Next

--------------------------------------------------------------------------------
\* No step but a creation touches the targets or the streams of no job.
LEMMA UntouchedStep ==
    ASSUME TypeInv, BudgetInv, BudgetStep, Untouched, Next
    PROVE  Untouched'
<1> SUFFICES ASSUME ~Created' PROVE /\ cmds' = {} /\ acks' = {} /\ results' = {}
                                    /\ \A t \in Targets : tgt'[t].status = "queued"
  BY Zenon DEF Untouched
<1>0. /\ ~Created /\ cmds = {} /\ acks = {} /\ results = {}
      /\ \A t \in Targets : tgt[t].status = "queued"
  BY Zenon DEF BudgetStep, Untouched
<1>1. ASSUME NEW w \in Workers
      PROVE  wk[w].batch = {} /\ wk[w].pc \notin {"marked", "sent"}
  <2>1. \A e \in Events : outbox[e].state = "absent"
    BY Zenon, <1>0 DEF BudgetInv, NothingBeforeCreation
  <2>2. wk[w].batch \subseteq Events /\ (wk[w].pc \in {"marked", "sent"} => wk[w].event \in Events)
    BY Zenon DEF TypeInv, TypeOK, WorkerOK
  <2> QED BY Zenon, <2>1, <2>2 DEF BudgetInv, WorkerRows
<1>2. CASE Request
  <2>1. ~CanTransition(job.status, "cancelled")
    BY Zenon, <1>0 DEF CanTransition, ValidStates
  <2>2. job.status = "none" /\ job'.status = "none" /\ DOMAIN job = {"status", "producer", "expired"}
    BY Zenon, <1>0 DEF TypeInv, TypeOK
  <2> QED BY Zenon, <1>0, <1>2, <2>1, <2>2
       DEF Request, CreateApiJob, CreateDurableJob, CreatePatchJob, CreateApprovedJob,
           CreateDeviceJob, CancelJob, RetryAll, RetryTarget, Requeue, SubmitInventory
<1>3. ASSUME NEW w \in Workers, Publisher(w)
      PROVE  /\ cmds' = {} /\ acks' = {} /\ results' = {}
             /\ \A t \in Targets : tgt'[t].status = "queued"
  <2>1. UNCHANGED <<tgt, cmds, acks, results>>
    BY Zenon, <1>0, <1>1, <1>3
       DEF Publisher, EnsureQueuedOutbox, ClaimOutbox, RejectEvent, PublishCancel, PublishFails,
           MarkDispatched, PublishCommand, FinalizeDispatch, ExpireJobs,
           HandleOfflineReconnect, ExpireOfflineWork
  <2> QED BY Zenon, <1>0, <2>1
<1>4. CASE ReconcileTimeouts \/ ReconcileAggregates \/ Consumer
  BY Zenon, <1>0, <1>4 DEF ReconcileTimeouts, ReconcileAggregates, Consumer
<1>5. CASE Environment
  <2>1. \A t \in Targets : LeaseLapses(t) => \A u \in Targets : tgt'[u].status = tgt[u].status
    BY DEF LeaseLapses, TypeInv, TypeOK, Target
  <2> QED BY Zenon, <1>0, <1>5, <2>1
       DEF Environment, CrashWorker, JobDeadline, LeaseLapses, OutboxLeaseLapses
<1> QED BY Zenon, <1>2, <1>3, <1>4, <1>5 DEF Next

\* Requests: a cancellation settles, an inventory is delivered, a retry reopens.
LEMMA RequestRefines ==
    ASSUME TypeInv, Untouched, Request
    PROVE  [Promise!Next]_(Promise!vars)
<1>0. TypeOK /\ \A t \in Targets : tgt[t] \in Target
  BY Zenon DEF TypeInv, TypeOK
<1>1. CASE CreateApiJob \/ CreateDurableJob \/ CreatePatchJob
  BY Zenon, <1>1, Invisible DEF CreateApiJob, CreateDurableJob, CreatePatchJob, seen
<1>2. CASE CreateApprovedJob \/ CreateDeviceJob
  <2>1. \A t \in Targets : tgt[t].status = "queued"
    BY Zenon, <1>2 DEF CreateApprovedJob, CreateDeviceJob, Untouched
  <2>2. \A t \in Targets : tgt'[t].status \in {"queued", "waiting"}
    <3>1. CASE CreateApprovedJob
      <4>1. PICK offline \in SUBSET Targets :
              tgt' = [t \in Targets |-> IF t \in offline
                                        THEN [tgt[t] EXCEPT !.status = "waiting"] ELSE tgt[t]]
        BY Zenon, <3>1 DEF CreateApprovedJob
      <4> QED BY Zenon, <1>0, <2>1, <4>1 DEF Target
    <3>2. CASE CreateDeviceJob
      BY Zenon, <1>0, <2>1, <3>2 DEF CreateDeviceJob, Target
    <3> QED BY Zenon, <1>2, <3>1, <3>2
  <2>3. \A t \in Targets : OutcomeOf(tgt'[t].status) = OutcomeOf(tgt[t].status)
    BY Zenon, <2>1, <2>2 DEF OutcomeOf, Terminal
  <2> QED BY Zenon, <1>2, <2>3, Invisible DEF CreateApprovedJob, CreateDeviceJob, seen
<1>3. CASE CancelJob
  <2> DEFINE hit == {t \in Targets : tgt[t].status \in Active}
  <2>1. \A t \in hit : tgt[t].status \notin Terminal
    BY Zenon DEF Active, Terminal
  <2>2. \A t \in Targets : tgt'[t].status = IF t \in hit THEN "cancelled" ELSE tgt[t].status
    <3> TAKE t \in Targets
    <3>1. tgt'[t] = IF t \in hit THEN [tgt[t] EXCEPT !.status = "cancelled", !.lease = "none"]
                    ELSE tgt[t]
      BY Zenon, <1>3 DEF CancelJob
    <3> QED BY Zenon, <1>0, <3>1 DEF Target
  <2>3. \A t \in Targets : OutcomeOf(tgt'[t].status) =
                             IF t \in hit THEN "cancelled" ELSE OutcomeOf(tgt[t].status)
    BY Zenon, <2>2 DEF OutcomeOf, Terminal
  <2>4. UNCHANGED seen
    BY Zenon, <1>3 DEF CancelJob, seen
  <2>5. hit \in SUBSET Targets /\ "cancelled" \in Terminal /\ "cancelled" # "succeeded"
    BY Zenon DEF Terminal
  <2> HIDE DEF hit
  <2> QED BY Zenon, <2>1, <2>3, <2>4, <2>5, Settles
<1>4. ASSUME NEW hit \in SUBSET {t \in Targets : tgt[t].status \in {"failed", "expired"}},
             Requeue(hit)
      PROVE  Promise!Next
  <2>1. \A t \in Targets : tgt'[t].status = IF t \in hit THEN "queued" ELSE tgt[t].status
    <3> TAKE t \in Targets
    <3>1. tgt'[t] = IF t \in hit THEN [tgt[t] EXCEPT !.status = "queued", !.retry = @ + 1]
                    ELSE tgt[t]
      BY Zenon, <1>4 DEF Requeue
    <3> QED BY Zenon, <1>0, <3>1 DEF Target
  <2>2. Outcomes' = [t \in Targets |-> IF t \in hit THEN "open" ELSE Outcomes[t]]
    BY Zenon, <2>1 DEF Outcomes, OutcomeOf, Terminal
  <2>3. \A t \in hit : Outcomes[t] \in {"failed", "expired"}
    BY Zenon DEF Outcomes, OutcomeOf, Terminal
  <2>4. Commanded' = Commanded /\ Proven' = Proven
    BY Zenon, <1>4 DEF Requeue, Commanded, Proven
  <2>5. Promise!Reopen(hit)
    BY Zenon, <1>4, <2>2, <2>3, <2>4 DEF Requeue, Promise!Reopen
  <2> QED BY Zenon, <2>5 DEF Promise!Next
<1>5. ASSUME NEW t \in Targets, SubmitInventory(t) PROVE Promise!Next
  <2>1. \A u \in Targets : tgt'[u].status = IF u = t THEN "succeeded" ELSE tgt[u].status
    BY Zenon, <1>0, <1>5 DEF SubmitInventory, TypeOK, Target
  <2>2. Outcomes' = [Outcomes EXCEPT ![t] = "succeeded"] /\ Outcomes[t] = "open"
    BY Zenon, <1>5, <2>1 DEF SubmitInventory, Outcomes, OutcomeOf, Terminal
  <2>3. Commanded' = Commanded /\ Commanded[t] # {}
    BY Zenon, <1>5 DEF SubmitInventory, Commanded
  <2>4. Proven' = Proven \cup {t} /\ opRetries' = opRetries
    BY Zenon, <1>5 DEF SubmitInventory, Proven
  <2>5. Promise!Deliver(t)
    BY Zenon, <2>2, <2>3, <2>4 DEF Promise!Deliver
  <2> QED BY Zenon, <2>5 DEF Promise!Next
<1> QED BY Zenon, <1>1, <1>2, <1>3, <1>4, <1>5 DEF Request, RetryAll, RetryTarget

\* A dispatcher: a publication is a Command, expiry settles, the rest is unseen.
LEMMA PublisherRefines ==
    ASSUME TypeInv, RetryBudget', NEW w \in Workers, Publisher(w)
    PROVE  [Promise!Next]_(Promise!vars)
<1> USE MaxRetriesAssumption, MaxAttemptAssumption
<1>0. TypeOK /\ WorkerOK /\ \A t \in Targets : tgt[t] \in Target
  BY Zenon DEF TypeInv, TypeOK
<1>1. CASE EnsureQueuedOutbox(w) \/ ClaimOutbox(w) \/ FinalizeDispatch(w)
  BY Zenon, <1>1, Invisible DEF EnsureQueuedOutbox, ClaimOutbox, FinalizeDispatch, seen
<1>2. ASSUME NEW e \in Events, RejectEvent(w, e) \/ PublishCancel(w, e)
      PROVE  UNCHANGED Promise!vars
  BY Zenon, <1>2, Invisible DEF RejectEvent, PublishCancel, seen
<1>3. ASSUME NEW e \in Events, PublishFails(w, e) PROVE [Promise!Next]_(Promise!vars)
  <2>1. [target |-> e.target, attempt |-> e.attempt] \in Message
    BY <1>3, EventTypes DEF PublishFails, Message, Attempts
  <2>2. /\ UNCHANGED <<tgt, results, inventories, opRetries>>
        /\ \/ cmds' = cmds
           \/ cmds' = cmds \cup {[target |-> e.target, attempt |-> e.attempt]}
    BY Zenon, <1>3 DEF PublishFails
  <2>3. CASE cmds' = cmds
    BY Zenon, <2>2, <2>3, Invisible DEF seen
  <2>4. CASE cmds' = cmds \cup {[target |-> e.target, attempt |-> e.attempt]}
    BY Zenon, <1>0, <2>1, <2>2, <2>4, Commands
  <2> QED BY Zenon, <2>2, <2>3, <2>4
<1>4. ASSUME NEW e \in Events, MarkDispatched(w, e) PROVE UNCHANGED Promise!vars
  <2>1. e.target \in Targets
    BY Zenon, EventTypes
  <2>2. \A t \in Targets : \/ tgt'[t].status = tgt[t].status
                           \/ tgt[t].status \in Active /\ tgt'[t].status \in Active
    <3> TAKE t \in Targets
    <3>1. CASE t = e.target
      <4>1. \/ tgt' = tgt
            \/ /\ tgt[t].status \in {"queued", "dispatched"}
               /\ tgt' = [tgt EXCEPT ![t].status = "dispatched", ![t].attempt = e.attempt,
                                     ![t].lease = "live"]
        BY Zenon, <1>4, <3>1 DEF MarkDispatched
      <4> QED BY <1>0, <4>1 DEF TypeOK, Target, Active
    <3>2. CASE t # e.target
      BY <1>0, <1>4, <2>1, <3>2 DEF MarkDispatched, TypeOK
    <3> QED BY Zenon, <3>1, <3>2
  <2>3. \A t \in Targets : OutcomeOf(tgt'[t].status) = OutcomeOf(tgt[t].status)
    BY <2>2 DEF OutcomeOf, Active, Terminal
  <2> QED BY Zenon, <1>4, <2>3, Invisible DEF MarkDispatched, seen
<1>5. CASE PublishCommand(w)
  <2>1. [target |-> wk[w].event.target, attempt |-> wk[w].event.attempt] \in Message
    BY <1>0, <1>5, EventTypes DEF PublishCommand, WorkerOK, Message, Attempts
  <2> QED BY Zenon, <1>0, <1>5, <2>1, Commands DEF PublishCommand
\* The targets of hit expire.
<1>6. ASSUME NEW hit \in SUBSET Targets, \A t \in hit : tgt[t].status \notin Terminal,
             tgt' = [t \in Targets |-> IF t \in hit THEN [tgt[t] EXCEPT !.status = "expired"]
                                      ELSE tgt[t]],
             UNCHANGED seen
      PROVE  Promise!Next
  <2>1. \A t \in Targets : tgt'[t].status = IF t \in hit THEN "expired" ELSE tgt[t].status
    <3> TAKE t \in Targets
    <3>1. tgt'[t] = IF t \in hit THEN [tgt[t] EXCEPT !.status = "expired"] ELSE tgt[t]
      BY Zenon, <1>6
    <3> QED BY Zenon, <1>0, <3>1 DEF Target
  <2>2. \A t \in Targets : OutcomeOf(tgt'[t].status) =
                             IF t \in hit THEN "expired" ELSE OutcomeOf(tgt[t].status)
    BY Zenon, <2>1 DEF OutcomeOf, Terminal
  <2>3. "expired" \in Terminal /\ "expired" # "succeeded"
    BY Zenon DEF Terminal
  <2> QED BY Zenon, <1>6, <2>2, <2>3, Settles
<1>7. CASE ExpireJobs(w)
  <2>1. PICK batch \in Limited(Targets) :
          tgt' = [t \in Targets |-> IF t \in batch /\ Expirable(t)
                                   THEN [tgt[t] EXCEPT !.status = "expired"] ELSE tgt[t]]
    BY Zenon, <1>7 DEF ExpireJobs
  <2> DEFINE hit == {t \in batch : Expirable(t)}
  <2>2. hit \in SUBSET Targets
    BY Zenon DEF Limited
  <2>3. \A t \in hit : tgt[t].status \notin Terminal
    BY Zenon DEF Expirable, Active, Terminal
  <2>4. tgt' = [t \in Targets |-> IF t \in hit THEN [tgt[t] EXCEPT !.status = "expired"]
                                  ELSE tgt[t]]
    BY Zenon, <2>1
  <2>5. UNCHANGED seen
    BY Zenon, <1>7 DEF ExpireJobs, seen
  <2> HIDE DEF hit
  <2> QED BY Zenon, <1>6, <2>2, <2>3, <2>4, <2>5
<1>8. CASE ExpireOfflineWork(w)
  <2> DEFINE hit == {t \in Targets : tgt[t].status = "waiting"}
  <2>1. tgt' = [t \in Targets |-> IF t \in hit THEN [tgt[t] EXCEPT !.status = "expired"]
                                  ELSE tgt[t]]
    BY Zenon, <1>8 DEF ExpireOfflineWork
  <2>2. \A t \in hit : tgt[t].status \notin Terminal
    BY Zenon DEF Terminal
  <2>3. UNCHANGED seen
    BY Zenon, <1>8 DEF ExpireOfflineWork, seen
  <2>4. hit \in SUBSET Targets
    BY Zenon
  <2> HIDE DEF hit
  <2> QED BY Zenon, <1>6, <2>1, <2>2, <2>3, <2>4
<1>9. CASE HandleOfflineReconnect(w)
  <2>1. PICK online \in SUBSET {t \in Targets : tgt[t].status = "waiting"} :
          tgt' = [t \in Targets |-> IF t \in online
                                   THEN [tgt[t] EXCEPT !.status = "queued"] ELSE tgt[t]]
    BY Zenon, <1>9 DEF HandleOfflineReconnect
  <2>2. \A t \in Targets : \/ tgt'[t].status = tgt[t].status
                           \/ tgt[t].status = "waiting" /\ tgt'[t].status = "queued"
    BY Zenon, <1>0, <2>1 DEF Target
  <2>3. \A t \in Targets : OutcomeOf(tgt'[t].status) = OutcomeOf(tgt[t].status)
    BY Zenon, <2>2 DEF OutcomeOf, Terminal
  <2> QED BY Zenon, <1>9, <2>3, Invisible DEF HandleOfflineReconnect, seen
<1> QED BY Zenon, <1>1, <1>2, <1>3, <1>4, <1>5, <1>7, <1>8, <1>9 DEF Publisher

\* Reconciliation and the consumers: a timeout beyond the budget, a refusal and
\* a result settle; a result of success has been proven.
LEMMA ConsumerRefines ==
    ASSUME TypeInv, ReconcileTimeouts \/ ReconcileAggregates \/ Consumer
    PROVE  [Promise!Next]_(Promise!vars)
<1>0. TypeOK /\ \A t \in Targets : tgt[t] \in Target
  BY Zenon DEF TypeInv, TypeOK
\* The status of one target becomes s: the state machine permits it.
<1>s. ASSUME NEW t \in Targets, NEW s, CanTransition(tgt[t].status, s),
             s = "succeeded" => t \in Proven, UNCHANGED seen,
             \A u \in Targets : tgt'[u].status = IF u = t THEN s ELSE tgt[u].status
      PROVE  [Promise!Next]_(Promise!vars)
  <2>1. tgt[t].status \notin Terminal
    BY Zenon, <1>s DEF CanTransition, AllowedTransitions, Terminal
  <2>2. CASE s \in Terminal
    <3>1. \A u \in Targets : OutcomeOf(tgt'[u].status) =
                               IF u \in {t} THEN s ELSE OutcomeOf(tgt[u].status)
      BY Zenon, <1>s, <2>2 DEF OutcomeOf
    <3>2. {t} \in SUBSET Targets /\ (s = "succeeded" => {t} \subseteq Proven)
          /\ \A u \in {t} : tgt[u].status \notin Terminal
      BY Zenon, <1>s, <2>1
    <3> QED BY Zenon, <1>s, <2>2, <3>1, <3>2, Settles
  <2>3. CASE s \notin Terminal
    <3>1. \A u \in Targets : OutcomeOf(tgt'[u].status) = OutcomeOf(tgt[u].status)
      BY Zenon, <1>s, <2>1, <2>3 DEF OutcomeOf
    <3> QED BY Zenon, <1>s, <3>1, Invisible
  <2> QED BY Zenon, <2>2, <2>3
<1>1. CASE ReconcileTimeouts
  <2>1. PICK batch \in Limited({t \in Targets : tgt[t].lease = "lapsed"}) :
          tgt' = [t \in Targets |->
                    IF t \in batch /\ TimedOut(t) THEN AfterTimeout(tgt[t]) ELSE tgt[t]]
    BY Zenon, <1>1 DEF ReconcileTimeouts
  <2> DEFINE hit == {t \in Targets : /\ t \in batch /\ TimedOut(t)
                                     /\ ~(tgt[t].retry < MaxRetries)}
  <2>2. \A t \in Targets : TimedOut(t) => tgt[t].status \notin Terminal
    BY Zenon DEF TimedOut, Terminal
  <2>3. \A t \in Targets :
          AfterTimeout(tgt[t]).status = IF tgt[t].retry < MaxRetries THEN "queued" ELSE "failed"
    BY Zenon, <1>0 DEF AfterTimeout, Target
  <2>4. \A t \in Targets : OutcomeOf(tgt'[t].status) =
                             IF t \in hit THEN "failed" ELSE OutcomeOf(tgt[t].status)
    BY Zenon, <2>1, <2>2, <2>3 DEF OutcomeOf, Terminal
  <2>5. UNCHANGED seen
    BY Zenon, <1>1 DEF ReconcileTimeouts, seen
  <2>6. /\ hit \in SUBSET Targets /\ \A t \in hit : tgt[t].status \notin Terminal
        /\ "failed" \in Terminal /\ "failed" # "succeeded"
    BY Zenon, <2>2 DEF Terminal
  <2> HIDE DEF hit
  <2> QED BY Zenon, <2>4, <2>5, <2>6, Settles
<1>2. CASE ReconcileAggregates
  BY Zenon, <1>2, Invisible DEF ReconcileAggregates, seen
<1>3. ASSUME NEW m \in acks, HandleAgentAck(m) PROVE [Promise!Next]_(Promise!vars)
  <2> DEFINE next == NextStatus(tgt[m.target].status, m.status)
  <2>1. m.target \in Targets
    BY Zenon, <1>0 DEF TypeOK, Ack
  <2>2. \A u \in Targets : tgt'[u].status = IF u = m.target THEN next ELSE tgt[u].status
    <3>1. tgt' = [tgt EXCEPT ![m.target].status = next]
      BY Zenon, <1>3 DEF HandleAgentAck
    <3> HIDE DEF next
    <3> QED BY <1>0, <2>1, <3>1 DEF TypeOK, Target
  <2>3. next = tgt[m.target].status \/ CanTransition(tgt[m.target].status, next)
    BY Zenon, <1>3 DEF HandleAgentAck
  <2>4. next = tgt[m.target].status \/ next # "succeeded"
    BY Zenon DEF NextStatus
  <2>5. UNCHANGED seen
    BY Zenon, <1>3 DEF HandleAgentAck, seen
  <2> HIDE DEF next
  <2>6. CASE next = tgt[m.target].status
    BY Zenon, <2>2, <2>5, <2>6, Invisible
  <2> QED BY <1>s, <2>1, <2>2, <2>3, <2>4, <2>5, <2>6
<1>4. ASSUME NEW m \in results, ProcessAgentResult(m) PROVE [Promise!Next]_(Promise!vars)
  <2>1. m.target \in Targets
    BY Zenon, <1>0 DEF TypeOK, Result
  <2>2. UNCHANGED seen
    BY Zenon, <1>4 DEF ProcessAgentResult, seen
  <2>3. CASE UNCHANGED tgt
    BY Zenon, <2>2, <2>3, Invisible
  <2>4. CASE /\ Applies(m)
             /\ tgt' = [tgt EXCEPT ![m.target].status = m.status, ![m.target].lease = "none"]
    <3>1. \A u \in Targets : tgt'[u].status = IF u = m.target THEN m.status ELSE tgt[u].status
      BY <1>0, <2>1, <2>4 DEF TypeOK, Target
    <3>2. m.status = "succeeded" => m.target \in Proven
      BY Zenon DEF Proven
    <3>3. CanTransition(tgt[m.target].status, m.status)
      BY Zenon, <2>4 DEF Applies
    <3> QED BY Zenon, <1>s, <2>1, <2>2, <3>1, <3>2, <3>3
  <2> QED BY Zenon, <1>4, <2>3, <2>4 DEF ProcessAgentResult
<1> QED BY Zenon, <1>1, <1>2, <1>3, <1>4 DEF Consumer

\* Agents, crashes and time: only a report of success is seen.
LEMMA EnvironmentRefines ==
    ASSUME TypeInv, Environment
    PROVE  [Promise!Next]_(Promise!vars)
<1>0. TypeOK
  BY Zenon DEF TypeInv
<1>1. ASSUME NEW c \in cmds, NEW s \in AckStatuses, AgentAcks(c, s)
      PROVE  UNCHANGED Promise!vars
  BY Zenon, <1>1, Invisible DEF AgentAcks, seen
<1>2. ASSUME NEW c \in cmds, NEW s \in ResultStatuses, AgentReports(c, s)
      PROVE  [Promise!Next]_(Promise!vars)
  <2> DEFINE r == [target |-> c.target, attempt |-> c.attempt, status |-> s]
  <2>1. c.target \in Targets
    BY Zenon, <1>0 DEF TypeOK, Message
  <2>2. Outcomes' = Outcomes /\ Commanded' = Commanded /\ opRetries' = opRetries
    BY Zenon, <1>2 DEF AgentReports, Outcomes, Commanded
  <2>3. results' = results \cup {r} /\ inventories' = inventories
    BY Zenon, <1>2 DEF AgentReports
  <2>4. r.target = c.target /\ r.status = s
    BY Zenon
  <2> HIDE DEF r
  <2>5. CASE s = "succeeded"
    <3>1. Proven' = Proven \cup {c.target}
      BY Zenon, <2>3, <2>4, <2>5 DEF Proven
    <3>2. Commanded[c.target] # {}
      BY Zenon, <2>1 DEF Commanded
    <3>3. Promise!Report(c.target)
      BY Zenon, <2>2, <3>1, <3>2 DEF Promise!Report
    <3> QED BY Zenon, <2>1, <3>3 DEF Promise!Next
  <2>6. CASE s # "succeeded"
    <3>1. Proven' = Proven
      BY Zenon, <2>3, <2>4, <2>6 DEF Proven
    <3> QED BY Zenon, <2>2, <3>1 DEF Promise!vars
  <2> QED BY Zenon, <2>5, <2>6
<1>3. ASSUME NEW w \in Workers, CrashWorker(w) PROVE UNCHANGED Promise!vars
  BY Zenon, <1>3, Invisible DEF CrashWorker, seen
<1>4. CASE JobDeadline
  BY Zenon, <1>4, Invisible DEF JobDeadline, seen
<1>5. ASSUME NEW t \in Targets, LeaseLapses(t) PROVE UNCHANGED Promise!vars
  <2>1. \A u \in Targets : tgt'[u].status = tgt[u].status
    BY <1>0, <1>5 DEF LeaseLapses, TypeOK, Target
  <2> QED BY Zenon, <1>5, <2>1, Invisible DEF LeaseLapses, seen
<1>6. ASSUME NEW e \in Events, OutboxLeaseLapses(e) PROVE UNCHANGED Promise!vars
  BY Zenon, <1>6, Invisible DEF OutboxLeaseLapses, seen
<1> QED BY Zenon, <1>1, <1>2, <1>3, <1>4, <1>5, <1>6 DEF Environment

\* The job system with its outbox, leases, replicas and redelivery implements the
\* outcome specification: an agent is commanded at most max_retries + 1 attempts,
\* a target ends once and as succeeded only on an agent's evidence, and only an
\* operator's counted retry reopens it (jobs.go, dispatcher.go, result_retry.go).
THEOREM Refinement == Spec => ImplementsOutcomes
<1>1. Init => Promise!Init
  <2> SUFFICES ASSUME Init PROVE Promise!Init
    BY Zenon
  <2>1. Outcomes = [t \in Targets |-> "open"]
    BY Zenon DEF Init, Outcomes, OutcomeOf, Terminal
  <2>2. Commanded = [t \in Targets |-> {}]
    BY Zenon DEF Init, Commanded
  <2>3. Proven = {} /\ opRetries = 0
    BY Zenon DEF Init, Proven
  <2> QED BY Zenon, <2>1, <2>2, <2>3 DEF Promise!Init
<1>2. Init => Untouched
  <2>1. Init => \A t \in Targets : tgt[t].status = "queued"
    BY DEF Init
  <2> QED BY Zenon, <2>1 DEF Init, Untouched
<1>3. TypeInv /\ BudgetInv /\ Untouched /\ [Next]_vars => Untouched'
  <2>1. Untouched /\ UNCHANGED vars => Untouched'
    BY Zenon DEF vars, Untouched
  <2> QED BY Zenon, <2>1, NextBudget, UntouchedStep
<1>4. TypeInv /\ Untouched /\ BudgetInv' /\ [Next]_vars => [Promise!Next]_(Promise!vars)
  <2> SUFFICES ASSUME TypeInv, Untouched, BudgetInv', [Next]_vars
               PROVE  [Promise!Next]_(Promise!vars)
    BY Zenon
  <2>1. RetryBudget'
    BY Zenon DEF BudgetInv
  <2>2. CASE UNCHANGED vars
    BY Zenon, <2>2, Invisible DEF vars, seen
  <2>3. CASE Next
    BY Zenon, <2>1, <2>3, RequestRefines, PublisherRefines, ConsumerRefines, EnvironmentRefines DEF Next
  <2> QED BY Zenon, <2>2, <2>3
<1> QED
  BY <1>1, <1>2, <1>3, <1>4, TypeInvariance, BudgetInvariance, PTL
     DEF Spec, ImplementsOutcomes, Promise!Spec
================================================================================
