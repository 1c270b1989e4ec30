--------------------------- MODULE PatchRollout_proofs ---------------------------
(***************************************************************************)
(* Proofs about PatchRollout, for every number of devices, replicas and    *)
(* retries.                                                                *)
(***************************************************************************)
EXTENDS PatchRollout, FiniteSetTheorems, TLAPS

\* The rows that PrepareCanaryRollout has labelled, and whether it has run.
Canaries == {d \in Devices : pdd[d].group = "canary"}
Labelled == \A d \in Devices : pdd[d].group = "canary" <=> d <= CanaryCount(Cardinality(Devices))
Unqueued == \A d \in Devices : pdd[d].job = 0

\* The canary group has enough successes.
Enough == Labelled /\ Cardinality(Succeeded(Canaries)) * 100 >= Cardinality(Canaries) * SuccessThreshold

\* Only the last job of a device may still be sent: the others are past their expiry.
OldJobsAreDue ==
    /\ \A d \in Devices, c \in Cycles :
          /\ c # pdd[d].job => jobs[d][c].status = "none" \/ jobs[d][c].due
          /\ jobs[d][c].status = "expired" => jobs[d][c].due
    /\ \A d \in Devices : pdd[d].job # 0 => jobs[d][pdd[d].job].status # "none"

AllSucceeded == Succeeded(Devices) = Devices

\* A replica that is about to dispatch to the broad group, or that holds a
\* Deployment saying that it is deploying, or completed, is right to.
HeldIsEarned(x) ==
    /\ x.snap.status = "deploying" => Enough
    /\ x.snap.status = "completed" => AllSucceeded
    /\ x.pc = "advanceDeploying" => Enough
    /\ x.pc \in {"dispatch", "queue"} /\ x.group = "broad" => Enough
    /\ x.pc = "queue" /\ x.group = "canary" => x.todo \subseteq Canaries

\* So is the row it writes, and what the job of a broad device was queued for.
RowsAreEarned ==
    /\ Labelled \/ (Canaries = {} /\ Unqueued)
    /\ \A d \in Devices : pdd[d].group = "broad" /\ pdd[d].job # 0 => Enough

RolloutIsEarned ==
    /\ RowsAreEarned
    /\ dep.status = "deploying" => Enough
    /\ dep.status = "completed" => AllSucceeded
    /\ \A r \in Replicas : HeldIsEarned(rep[r])

Beyond == {"dispatch", "queue", "advanceCanary", "canaryGate", "persistGate",
           "advanceDeploying", "deployGate", "persistDeploying"}

\* With one replica nothing is prepared again once a job exists: from the first
\* dispatch on, neither the row nor what the replica will write is pending.
Alone == \A r, s \in Replicas : r = s
HeldIsLater(x) ==
    /\ x.pc \in {"prepare", "persistCanary"} => Unqueued
    /\ x.pc \in Beyond => dep.status \notin {"absent", "pending"}
    /\ x.pc \in Beyond /\ ~(x.pc \in {"dispatch", "queue"} /\ x.after = "getCanary")
          => x.snap.status \notin {"absent", "pending"}
PreparedOnce ==
    /\ dep.status \in {"absent", "pending"} => Unqueued
    /\ \A r \in Replicas : HeldIsLater(rep[r])

\* What was sent to a device is within what its last job and those before it
\* consumed; a queued attempt is consumed and not yet sent.
SentOf(d) ==
    /\ sent[d] <= AttemptCap
    /\ pdd[d].job = 0 => sent[d] = 0
    /\ pdd[d].job # 0 =>
          LET j == jobs[d][pdd[d].job] IN
          /\ pdd[d].attempts = pdd[d].job /\ j.max = AttemptCap - pdd[d].job
          /\ sent[d] <= pdd[d].job + j.retry
          /\ j.status = "queued" => sent[d] < pdd[d].job + j.retry

SentIsConsumed == \A d \in Devices : SentOf(d)

--------------------------------------------------------------------------------
(***************************************************************************)
(* Facts about the operators.                                              *)
(***************************************************************************)

LEMMA LeastOfTwo ==
    ASSUME NEW a \in Int, NEW b \in Int
    PROVE  Min({a, b}) \in {a, b}
<1>1. \E x \in {a, b} : \A y \in {a, b} : x <= y
    OBVIOUS
<1>. QED BY Zenon, <1>1 DEF Min

LEMMA GreatestOfTwo ==
    ASSUME NEW a \in Int, NEW b \in Int
    PROVE  Max({a, b}) \in {a, b} /\ Max({a, b}) >= a
<1>1. \E x \in {a, b} : \A y \in {a, b} : x >= y
    OBVIOUS
<1>. QED BY Zenon, <1>1 DEF Max

\* Every policy allows one attempt at least.
LEMMA CapIsPositive ==
    ASSUME Sensible
    PROVE  AttemptCap \in Nat /\ AttemptCap >= 1
<1>. DEFINE m == Min({MaxRetries, 10})
<1>1. m \in Int
    BY LeastOfTwo DEF Sensible
<1>2. AttemptCap = Max({0, m}) + 1
    BY Zenon DEF AttemptCap
<1>. HIDE DEF m
<1>3. Max({0, m}) \in {0, m} /\ Max({0, m}) >= 0
    BY <1>1, GreatestOfTwo
<1>. QED BY <1>1, <1>2, <1>3

LEMMA DeviceSets ==
    ASSUME Sensible, NEW S \in SUBSET Devices
    PROVE  /\ IsFiniteSet(S)
           /\ Cardinality(S) \in 0 .. DeviceCount
<1>1. IsFiniteSet(Devices) /\ Cardinality(Devices) = DeviceCount
    BY FS_Interval DEF Sensible, Devices
<1>2. IsFiniteSet(S) /\ Cardinality(S) <= Cardinality(Devices)
    BY Zenon, <1>1, FS_Subset
<1>3. Cardinality(S) \in Nat
    BY Zenon, <1>2, FS_CardinalityType
<1>. QED BY <1>1, <1>2, <1>3 DEF Sensible

LEMMA TargetType ==
    ASSUME TypeOK, NEW d \in Devices
    PROVE  Target(d) \in Job /\ Consumed(d) \in Nat
<1>1. AttemptCap \in Nat /\ AttemptCap >= 1
    BY Zenon, CapIsPositive DEF TypeOK
<1>2. NoJob \in Job
    BY <1>1 DEF NoJob, Job
<1>3. pdd[d] \in Row
    BY Zenon DEF TypeOK
<1>4. pdd[d].job # 0 => jobs[d][pdd[d].job] \in Job
    BY Zenon, <1>3 DEF TypeOK, Row
<1>5. Target(d) \in Job
    BY Zenon, <1>2, <1>4 DEF Target
<1>. QED BY <1>1, <1>3, <1>5 DEF Consumed, Row, Job

\* The counters that a gate writes are within the device count.
LEMMA CountedType ==
    ASSUME Sensible, NEW row \in Deployment, NEW S \in SUBSET Devices,
           NEW total \in Nat, total = DeviceCount \/ total = Cardinality(S),
           NEW status \in {"absent", "pending", "canary", "deploying", "completed", "failed", "deleted"}
    PROVE  Counted(row, S, total, status) \in Deployment
<1>1. Succeeded(S) \in SUBSET Devices /\ Failed(S) \in SUBSET Devices
    BY Zenon DEF Succeeded, Failed
<1>2. Succeeded(S) \cup Failed(S) \in SUBSET S
    BY Zenon DEF Succeeded, Failed
<1>3. Cardinality(Succeeded(S)) \in 0 .. DeviceCount /\ Cardinality(Failed(S)) \in 0 .. DeviceCount
    BY Zenon, <1>1, DeviceSets
<1>4. Cardinality(Succeeded(S) \cup Failed(S)) \in 0 .. DeviceCount
    BY Zenon, <1>1, DeviceSets
<1>5. Cardinality(S) \in 0 .. DeviceCount
    BY Zenon, DeviceSets
<1>6. Cardinality(Succeeded(S) \cup Failed(S)) <= Cardinality(S)
    BY Zenon, <1>2, DeviceSets, FS_Subset
<1>7. total - Cardinality(Succeeded(S) \cup Failed(S)) \in 0 .. DeviceCount
    BY <1>4, <1>5, <1>6 DEF Sensible
<1>. QED BY Zenon, <1>3, <1>7 DEF Counted, Deployment

--------------------------------------------------------------------------------
(***************************************************************************)
(* Types.                                                                  *)
(***************************************************************************)

\* One step of the job system on the job c of d: it exists, keeps its budget and
\* its success; once due it stays due and is not sent; each attempt is sent from
\* queued, and queued again only with one more retry counted.
JobMoves(d, c) ==
    LET j == jobs[d][c]
        new == jobs'[d][c]
    IN  /\ \E n \in Job : jobs' = [jobs EXCEPT ![d][c] = n]
        /\ UNCHANGED <<dep, pdd, inv, disabled, open, rep, crashes>>
        /\ hand' \in 0 .. MaxInterventions
        /\ new.max = j.max /\ new.retry >= j.retry /\ (j.due => new.due)
        /\ j.status # "none" /\ new.status # "none"
        /\ j.status = "succeeded" => new.status = "succeeded"
        /\ new.status = "expired" => new.due \/ j.status = "expired"
        /\ \/ /\ sent' = [sent EXCEPT ![d] = @ + 1]
              /\ j.status = "queued" /\ ~j.due /\ j.retry <= j.max
              /\ new.status = "sent"
           \/ /\ UNCHANGED sent
              /\ new.status = "queued" => j.status = "queued" \/ new.retry > j.retry

LEMMA JobSteps ==
    ASSUME TypeOK, NEW d \in Devices, NEW c \in Cycles,
           \/ JobSystem(d, c) \/ ExpiryPasses(d, c)
           \/ JobEnds(d, c, "cancelled") \/ RetryJobTarget(d, c)
    PROVE  JobMoves(d, c)
<1>. DEFINE j == jobs[d][c]
<1>1. j \in Job /\ jobs \in [Devices -> [Cycles -> Job]]
    BY Zenon DEF TypeOK
<1>0. AttemptCap \in Nat /\ AttemptCap >= 1
    BY Zenon, CapIsPositive DEF TypeOK
<1>2. hand \in 0 .. MaxInterventions /\ MaxInterventions \in Nat
    BY Zenon DEF TypeOK, Sensible
<1>3. ASSUME NEW n \in Job, SetJob(d, c, n)
      PROVE  jobs' = [jobs EXCEPT ![d][c] = n] /\ jobs'[d][c] = n
             /\ UNCHANGED <<dep, pdd, inv, disabled, open, rep, crashes>>
    BY Zenon, <1>1, <1>3 DEF SetJob
<1>. HIDE DEF j
<1>. DEFINE N(s, k) == [j EXCEPT !.status = s, !.retry = k]
<1>r. ASSUME NEW s \in {"queued", "failed"}, NEW k \in Nat
      PROVE  /\ N(s, k) \in Job /\ N(s, k).status = s /\ N(s, k).retry = k
             /\ N(s, k).max = j.max /\ N(s, k).due = j.due
    BY Zenon, <1>0, <1>1 DEF Job, Live, Ended
<1>. HIDE DEF N
<1>k. j.retry \in Nat /\ j.retry + 1 \in Nat
    BY <1>1 DEF Job
<1>4. CASE SendCommand(d, c)
    <2>. DEFINE n == [j EXCEPT !.status = "sent"]
    <2>1. n \in Job /\ n.status = "sent" /\ n.retry = j.retry /\ n.max = j.max /\ n.due = j.due
        BY Zenon, <1>0, <1>1 DEF Job, Live
    <2>2. SetJob(d, c, n) /\ j.status = "queued" /\ ~j.due /\ j.retry <= j.max
          /\ sent' = [sent EXCEPT ![d] = @ + 1] /\ hand' = hand
        BY Zenon, <1>4 DEF SendCommand, j
    <2>. HIDE DEF n
    <2>. QED BY <1>1, <1>2, <1>3, <2>1, <2>2 DEF JobMoves, Job, j
<1>5. ASSUME NEW s \in {"succeeded", "failed", "cancelled"}, JobEnds(d, c, s)
      PROVE  JobMoves(d, c)
    <2>. DEFINE n == [j EXCEPT !.status = s]
    <2>1. n \in Job /\ n.status = s /\ n.retry = j.retry /\ n.max = j.max /\ n.due = j.due
        BY Zenon, <1>0, <1>1 DEF Job, Ended
    <2>2. SetJob(d, c, n) /\ j.status \in Live /\ sent' = sent /\ hand' \in 0 .. MaxInterventions
        BY <1>2, <1>5 DEF JobEnds, j, Live
    <2>. HIDE DEF n
    <2>. QED BY <1>1, <1>3, <2>1, <2>2 DEF JobMoves, Job, j, Live
<1>6. CASE ExecutionTimeout(d, c)
    <2>. DEFINE s == IF j.retry < j.max THEN "queued" ELSE "failed"
                n == N(s, j.retry + 1)
    <2>1. SetJob(d, c, n) /\ j.status = "sent" /\ sent' = sent /\ hand' = hand
        BY Zenon, <1>6 DEF ExecutionTimeout, j, N
    <2>2. s \in {"queued", "failed"}
        BY Zenon
    <2>. HIDE DEF s
    <2>3. n \in Job /\ n.status = s /\ n.retry = j.retry + 1 /\ n.max = j.max /\ n.due = j.due
        BY <1>r, <1>k, <2>2
    <2>. HIDE DEF n
    <2>. QED BY <1>k, <1>2, <1>3, <2>1, <2>2, <2>3 DEF JobMoves, j
<1>7. CASE ExpireJob(d, c)
    <2>. DEFINE n == [j EXCEPT !.status = "expired"]
    <2>1. n \in Job /\ n.status = "expired" /\ n.retry = j.retry /\ n.max = j.max
          /\ n.due = j.due
        BY Zenon, <1>0, <1>1 DEF Job, Ended
    <2>2. SetJob(d, c, n) /\ j.status \notin {"none", "succeeded"} /\ j.due
          /\ sent' = sent /\ hand' = hand
        BY Zenon, <1>7 DEF ExpireJob, Live, j
    <2>3. n.due
        BY Zenon, <2>1, <2>2
    <2>. HIDE DEF n
    <2>. QED BY <1>k, <1>2, <1>3, <2>1, <2>2, <2>3 DEF JobMoves, j
<1>8. CASE RetryJobTarget(d, c)
    <2>. DEFINE n == N("queued", j.retry + 1)
    <2>1. SetJob(d, c, n) /\ j.status \in {"failed", "expired"} /\ sent' = sent
          /\ hand' \in 0 .. MaxInterventions
        BY <1>2, <1>8 DEF RetryJobTarget, j, N
    <2>2. n \in Job /\ n.status = "queued" /\ n.retry = j.retry + 1 /\ n.max = j.max /\ n.due = j.due
        BY Zenon, <1>r, <1>k
    <2>. HIDE DEF n
    <2>. QED BY <1>k, <1>3, <2>1, <2>2 DEF JobMoves, j
<1>9. CASE ExpiryPasses(d, c)
    <2>. DEFINE n == [j EXCEPT !.due = TRUE]
    <2>1. n \in Job /\ n.status = j.status /\ n.retry = j.retry /\ n.max = j.max /\ n.due
        BY Zenon, <1>0, <1>1 DEF Job
    <2>2. SetJob(d, c, n) /\ j.status # "none" /\ sent' = sent /\ hand' = hand
        BY Zenon, <1>9 DEF ExpiryPasses, j
    <2>. HIDE DEF n
    <2>. QED BY <1>1, <1>2, <1>3, <2>1, <2>2 DEF JobMoves, Job, j
<1>. QED BY Zenon, <1>4, <1>5, <1>6, <1>7, <1>8, <1>9 DEF JobSystem

\* What a queued job changes: the row d points to its new job, which nobody had.
Queues(d) ==
    LET cycle == Consumed(d) + 1
    IN  /\ MayQueue(d, Consumed(d)) /\ cycle \in Cycles /\ jobs[d][cycle] = NoJob
        /\ NewJob(Consumed(d)) \in Job
        /\ jobs' = [jobs EXCEPT ![d][cycle] = NewJob(Consumed(d))]
        /\ pdd' \in [Devices -> Row]
        /\ \A e \in Devices : e # d => pdd'[e] = pdd[e]
        /\ pdd'[d].group = pdd[d].group /\ pdd'[d].attempts = cycle /\ pdd'[d].job = cycle

LEMMA QueueSteps ==
    ASSUME TypeOK, NEW r \in Replicas, QueuePatchRolloutDevice(r)
    PROVE  \E d \in rep[r].todo :
              /\ d \in Devices
              /\ Queues(d) \/ UNCHANGED <<jobs, pdd>>
              /\ rep' = [rep EXCEPT ![r].todo = @ \ {d}]
<1>1. PICK d \in rep[r].todo :
          /\ \/ /\ MayQueue(d, Consumed(d)) /\ Consumed(d) + 1 \in Cycles
                /\ jobs[d][Consumed(d) + 1] = NoJob
                /\ jobs' = [jobs EXCEPT ![d][Consumed(d) + 1] = NewJob(Consumed(d))]
                /\ pdd' = [pdd EXCEPT ![d].dispatched = TRUE, ![d].attempts = Consumed(d) + 1,
                                      ![d].job = Consumed(d) + 1]
             \/ UNCHANGED <<jobs, pdd>>
          /\ rep' = [rep EXCEPT ![r].todo = @ \ {d}]
    BY Zenon DEF QueuePatchRolloutDevice
<1>2. d \in Devices
    BY Zenon DEF TypeOK, Replica
<1>3. AttemptCap \in Nat /\ AttemptCap >= 1 /\ Consumed(d) \in Nat
    BY Zenon, <1>2, CapIsPositive, TargetType DEF TypeOK
<1>4. CASE UNCHANGED <<jobs, pdd>>
    BY Zenon, <1>1, <1>2, <1>4
<1>5. CASE /\ MayQueue(d, Consumed(d)) /\ Consumed(d) + 1 \in Cycles
           /\ jobs[d][Consumed(d) + 1] = NoJob
           /\ jobs' = [jobs EXCEPT ![d][Consumed(d) + 1] = NewJob(Consumed(d))]
           /\ pdd' = [pdd EXCEPT ![d].dispatched = TRUE, ![d].attempts = Consumed(d) + 1,
                                 ![d].job = Consumed(d) + 1]
    <2>. DEFINE k == Consumed(d) + 1
    <2>1. k \in Cycles /\ k \in 0 .. AttemptCap
        BY <1>3, <1>5 DEF Cycles
    <2>2. Consumed(d) < AttemptCap
        BY Zenon, <1>5 DEF MayQueue
    <2>3. AttemptCap - Consumed(d) - 1 \in 0 .. AttemptCap - 1
        BY <1>3, <2>2
    <2>4. NewJob(Consumed(d)) \in Job
        BY Zenon, <2>3 DEF NewJob, NoJob, Job, Live
    <2>5. pdd \in [Devices -> Row]
        BY Zenon DEF TypeOK
    <2>. HIDE DEF k
    <2>6. pdd' = [pdd EXCEPT ![d].dispatched = TRUE, ![d].attempts = k, ![d].job = k]
        BY Zenon, <1>5 DEF k
    <2>. DEFINE row == [pdd[d] EXCEPT !.dispatched = TRUE, !.attempts = k, !.job = k]
    <2>7. row \in Row /\ row.group = pdd[d].group /\ row.attempts = k /\ row.job = k
        BY <1>2, <2>1, <2>5 DEF Row
    <2>8. pdd' = [pdd EXCEPT ![d] = row]
        BY Zenon, <1>2, <2>5, <2>6
    <2>. HIDE DEF row
    <2>9. /\ pdd' \in [Devices -> Row] /\ \A e \in Devices : e # d => pdd'[e] = pdd[e]
          /\ pdd'[d] = row
        BY <1>2, <2>5, <2>7, <2>8
    <2>10. Queues(d)
        BY Zenon, <1>5, <2>4, <2>7, <2>9 DEF Queues, k
    <2>. QED BY Zenon, <1>1, <1>2, <2>10
<1>. QED BY Zenon, <1>1, <1>4, <1>5

\* The steps of a replica that write nothing but where it is and what it read.
RepOnly(r) ==
    \/ StartReturns(r) \/ Tick(r) \/ Dispatch(r) \/ GroupDispatched(r)
    \/ GetCanaryDeployments(r) \/ AdvanceCanary(r) \/ CanaryGate(r)
    \/ GetDeployingDeployments(r) \/ AdvanceDeploying(r) \/ DeployGate(r)

LEMMA GoesType ==
    ASSUME TypeOK, NEW r \in Replicas, NEW pc \in Steps, NEW g \in {"canary", "broad"}
    PROVE  /\ Goto(r, pc) => rep' \in [Replicas -> Replica]
           /\ pc \in Afters /\ DispatchThen(r, g, pc) => rep' \in [Replicas -> Replica]
<1>1. rep \in [Replicas -> Replica]
    BY Zenon DEF TypeOK
<1>. QED BY <1>1 DEF Goto, DispatchThen, Replica, Steps, Afters

LEMMA RowsAre ==
    ASSUME Sensible
    PROVE  Rows \in SUBSET Devices /\ (Rows # {} => Rows = Devices)
    BY DEF Rows

LEMMA RepOnlyType ==
    ASSUME TypeOK, NEW r \in Replicas, RepOnly(r)
    PROVE  /\ rep' \in [Replicas -> Replica]
           /\ UNCHANGED <<dep, pdd, jobs, sent, inv, disabled, open, hand, crashes>>
<1>1. rep \in [Replicas -> Replica] /\ dep \in Deployment /\ Sensible
    BY Zenon DEF TypeOK
<1>2. ASSUME NEW s \in Deployment, NEW pc \in Steps, rep' = [rep EXCEPT ![r].pc = pc, ![r].snap = s]
      PROVE  rep' \in [Replicas -> Replica]
    BY <1>1, <1>2 DEF Replica
<1>3. CASE StartReturns(r)
    BY <1>3, GoesType DEF StartReturns, Steps
<1>4. CASE Tick(r)
    BY <1>1, <1>2, <1>4, GoesType DEF Tick, Steps
<1>5. CASE Dispatch(r)
    <2>1. Undispatched(rep[r].group) \in SUBSET Devices
        BY <1>1, RowsAre DEF Undispatched, Group
    <2>. DEFINE T == Undispatched(rep[r].group)
    <2>2. /\ rep' = [rep EXCEPT ![r].pc = "queue", ![r].todo = T]
          /\ UNCHANGED <<dep, pdd, jobs, sent, inv, disabled, open, hand, crashes>>
        BY Zenon, <1>5 DEF Dispatch
    <2>. HIDE DEF T
    <2>3. T \in SUBSET Devices
        BY <2>1 DEF T
    <2>. DEFINE n == [rep[r] EXCEPT !.pc = "queue", !.todo = T]
    <2>4. rep[r] \in Replica
        BY Zenon, <1>1
    <2>5. n \in Replica
        BY Zenon, <2>3, <2>4 DEF Replica, Steps
    <2>6. rep' = [rep EXCEPT ![r] = n]
        BY Zenon, <1>1, <2>2
    <2>. HIDE DEF n
    <2>. QED BY <1>1, <2>2, <2>5, <2>6
<1>6. CASE GroupDispatched(r)
    <2>1. rep[r].after \in Steps
        BY Zenon, <1>1 DEF Replica, Afters, Steps
    <2>. QED BY Zenon, <1>6, <2>1, GoesType DEF GroupDispatched
<1>7. CASE GetCanaryDeployments(r)
    BY Zenon, <1>1, <1>2, <1>7, GoesType DEF GetCanaryDeployments, Steps
<1>8. CASE AdvanceCanary(r)
    BY Zenon, <1>8, GoesType DEF AdvanceCanary, Steps, Afters
<1>9. CASE CanaryGate(r)
    <2>. DEFINE S == Group("canary")
                s == Counted(rep[r].snap, S, DeviceCount, IF Passes(S) THEN "deploying" ELSE "failed")
    <2>1. S \in SUBSET Devices /\ rep[r].snap \in Deployment /\ DeviceCount \in Nat
        BY Zenon, <1>1, RowsAre DEF Group, Replica, Sensible
    <2>2. s \in Deployment
        BY Zenon, <1>1, <2>1, CountedType
    <2>3. \/ rep' = [rep EXCEPT ![r].pc = "persistGate", ![r].snap = s]
          \/ Goto(r, "getDeploying")
        BY Zenon, <1>9 DEF CanaryGate
    <2>. HIDE DEF s
    <2>. QED BY Zenon, <1>2, <1>9, <2>2, <2>3, GoesType DEF CanaryGate, Steps
<1>10. CASE GetDeployingDeployments(r)
    BY Zenon, <1>1, <1>2, <1>10, GoesType DEF GetDeployingDeployments, Steps
<1>11. CASE AdvanceDeploying(r)
    BY Zenon, <1>11, GoesType DEF AdvanceDeploying, Steps, Afters
<1>12. CASE DeployGate(r)
    <2>. DEFINE t == IF Ready(Rows) THEN FinalStatus(Rows) ELSE rep[r].snap.status
                s == Counted(rep[r].snap, Rows, Cardinality(Rows), t)
    <2>1. Rows \in SUBSET Devices /\ rep[r].snap \in Deployment /\ Cardinality(Rows) \in Nat
        BY <1>1, RowsAre, DeviceSets DEF Replica, Sensible
    <2>2. t \in {"absent", "pending", "canary", "deploying", "completed", "failed", "deleted"}
        BY Zenon, <2>1 DEF Deployment, FinalStatus
    <2>. HIDE DEF t
    <2>3. s \in Deployment
        BY Zenon, <1>1, <2>1, <2>2, CountedType
    <2>4. rep' = [rep EXCEPT ![r].pc = "persistDeploying", ![r].snap = s]
        BY Zenon, <1>12 DEF DeployGate, t
    <2>. HIDE DEF s
    <2>. QED BY Zenon, <1>2, <1>12, <2>3, <2>4 DEF DeployGate, Steps
<1>. QED BY <1>3, <1>4, <1>5, <1>6, <1>7, <1>8, <1>9, <1>10, <1>11, <1>12 DEF RepOnly

LEMMA TypePreserved ==
    ASSUME TypeOK, [Next]_vars
    PROVE  TypeOK'
<1>1. /\ rep \in [Replicas -> Replica] /\ dep \in Deployment /\ pdd \in [Devices -> Row] /\ Sensible
      /\ jobs \in [Devices -> [Cycles -> Job]]
    BY Zenon DEF TypeOK
<1>2. AttemptCap \in Nat /\ AttemptCap >= 1
    BY Zenon, <1>1, CapIsPositive
<1>3. Sensible'
    BY Zenon, <1>1 DEF Sensible
<1>4. CASE CreateDeployment
    BY Zenon, <1>1, <1>3, <1>4 DEF CreateDeployment, TypeOK, Deployment
<1>5. CASE WindowCloses
    <2>0. ASSUME NEW j \in Job, NEW b \in BOOLEAN PROVE [j EXCEPT !.due = b] \in Job
        BY Zenon DEF Job
    <2>1. \A d \in Devices, c \in Cycles :
              [jobs[d][c] EXCEPT !.due = jobs[d][c].status # "none"] \in Job
        BY <1>1, <2>0, Zenon
    <2>2. jobs' \in [Devices -> [Cycles -> Job]]
        BY <1>5, <2>1, Zenon DEF WindowCloses
    <2>3. open' \in BOOLEAN /\ UNCHANGED <<dep, pdd, sent, inv, disabled, rep, hand, crashes>>
        BY Zenon, <1>5 DEF WindowCloses
    <2>. QED BY Zenon, <1>1, <1>3, <2>2, <2>3 DEF TypeOK
<1>6. CASE WindowOpens
    BY Zenon, <1>1, <1>3, <1>6 DEF WindowOpens, TypeOK
<1>7. ASSUME NEW r \in Replicas, RepOnly(r) PROVE TypeOK'
    BY Zenon, <1>3, <1>7, RepOnlyType DEF TypeOK
<1>8. ASSUME NEW r \in Replicas, PrepareCanaryRollout(r) PROVE TypeOK'
    <2>1. rep' \in [Replicas -> Replica]
        BY Zenon, <1>8, GoesType DEF PrepareCanaryRollout, Steps
    <2>2. ASSUME NEW row \in Row, NEW g \in {"canary", "broad"}, NEW k \in 0 .. AttemptCap
          PROVE  [row EXCEPT !.group = g, !.dispatched = FALSE, !.attempts = k] \in Row
        BY Zenon DEF Row
    <2>0. 0 \in 0 .. AttemptCap
        BY <1>2
    <2>3. \A d \in Devices :
             [pdd[d] EXCEPT !.group = IF d \in CanarySet THEN "canary" ELSE "broad",
                            !.dispatched = FALSE, !.attempts = 0] \in Row
        BY <1>1, <2>0, <2>2, Zenon
    <2>4. pdd' \in [Devices -> Row]
        <3> DEFINE new == [d \in Devices |->
                [pdd[d] EXCEPT !.group = IF d \in CanarySet THEN "canary" ELSE "broad",
                               !.dispatched = FALSE, !.attempts = 0]]
        <3>1. pdd' = new \/ pdd' = pdd
            BY <1>8, Zenon DEF PrepareCanaryRollout
        <3>2. new \in [Devices -> Row]
            BY <2>3, Zenon
        <3>. QED BY <1>1, <3>1, <3>2, Zenon
    <2>5. UNCHANGED <<dep, jobs, sent, inv, disabled, open, hand, crashes>>
        BY Zenon, <1>8 DEF PrepareCanaryRollout
    <2>. QED BY Zenon, <1>3, <2>1, <2>4, <2>5 DEF TypeOK
<1>9. ASSUME NEW r \in Replicas, PersistCanary(r) \/ PersistGate(r) \/ PersistDeploying(r)
      PROVE  TypeOK'
    <2>1. rep[r].snap \in Deployment
        BY Zenon, <1>1 DEF Replica
    <2>2. [rep[r].snap EXCEPT !.status = "canary"] \in Deployment
        BY Zenon, <2>1 DEF Deployment
    <2>3. dep' \in Deployment
        BY Zenon, <1>1, <1>9, <2>1, <2>2 DEF PersistCanary, PersistGate, PersistDeploying, Persist
    <2>4. rep' \in [Replicas -> Replica]
        BY Zenon, <1>9, GoesType DEF PersistCanary, PersistGate, PersistDeploying, Steps, Afters
    <2>5. UNCHANGED <<pdd, jobs, sent, inv, disabled, open, hand, crashes>>
        BY Zenon, <1>9 DEF PersistCanary, PersistGate, PersistDeploying
    <2>. QED BY Zenon, <1>3, <2>3, <2>4, <2>5 DEF TypeOK
<1>10. ASSUME NEW r \in Replicas, QueuePatchRolloutDevice(r) PROVE TypeOK'
    <2>1. PICK d \in Devices : /\ Queues(d) \/ UNCHANGED <<jobs, pdd>>
                               /\ rep' = [rep EXCEPT ![r].todo = @ \ {d}]
        BY Zenon, <1>10, QueueSteps
    <2>2. rep' \in [Replicas -> Replica]
        BY <1>1, <2>1 DEF Replica
    <2>3. jobs' \in [Devices -> [Cycles -> Job]] /\ pdd' \in [Devices -> Row]
        <3>1. CASE Queues(d)
            <4>. DEFINE n == NewJob(Consumed(d))
                        k == Consumed(d) + 1
            <4>1. /\ n \in Job /\ k \in Cycles /\ jobs' = [jobs EXCEPT ![d][k] = n]
                  /\ pdd' \in [Devices -> Row]
                BY Zenon, <3>1 DEF Queues
            <4>. HIDE DEF n, k
            <4>. QED BY Zenon, <1>1, <4>1
        <3>. QED BY Zenon, <1>1, <2>1, <3>1
    <2>4. UNCHANGED <<dep, sent, inv, disabled, open, hand, crashes>>
        BY Zenon, <1>10 DEF QueuePatchRolloutDevice
    <2>. QED BY Zenon, <1>3, <2>2, <2>3, <2>4 DEF TypeOK
<1>11. ASSUME NEW r \in Replicas, Restart(r) PROVE TypeOK'
    <2>1. crashes' \in 0 .. MaxCrashes
        BY <1>1, <1>11 DEF Restart, TypeOK, Sensible
    <2>2. ASSUME NEW k \in BOOLEAN PROVE [Starting EXCEPT !.knows = k] \in Replica
        BY <1>1 DEF Starting, Replica, Steps, Afters, NoDeployment, Deployment, Sensible
    <2>3. rep' \in [Replicas -> Replica]
        BY Zenon, <1>1, <1>11, <2>2 DEF Restart
    <2>4. UNCHANGED <<dep, pdd, jobs, sent, inv, disabled, open, hand>>
        BY Zenon, <1>11 DEF Restart
    <2>. QED BY Zenon, <1>3, <2>1, <2>3, <2>4 DEF TypeOK
<1>12. ASSUME NEW r \in Replicas, DeletePolicy(r) PROVE TypeOK'
    <2>1. dep' \in Deployment
        BY Zenon, <1>1, <1>12 DEF DeletePolicy, Deployment
    <2>2. rep' \in [Replicas -> Replica]
        BY <1>1, <1>12 DEF DeletePolicy, Replica
    <2>3. UNCHANGED <<pdd, jobs, sent, inv, disabled, open, hand, crashes>>
        BY Zenon, <1>12 DEF DeletePolicy
    <2>. QED BY Zenon, <1>3, <2>1, <2>2, <2>3 DEF TypeOK
<1>13. ASSUME NEW r \in Replicas, NEW d \in Devices, HandlePatchInventory(r, d) PROVE TypeOK'
    BY Zenon, <1>3, <1>13 DEF HandlePatchInventory, TypeOK
<1>14. ASSUME NEW d \in Devices, DisableDevice(d) PROVE TypeOK'
    BY Zenon, <1>3, <1>14 DEF DisableDevice, TypeOK
<1>15. ASSUME NEW d \in Devices, NEW c \in Cycles, JobMoves(d, c) PROVE TypeOK'
    <2>1. jobs' \in [Devices -> [Cycles -> Job]]
        BY <1>1, <1>15 DEF JobMoves
    <2>2. sent' \in [Devices -> Nat]
        BY <1>15 DEF JobMoves, TypeOK
    <2>3. hand' \in 0 .. MaxInterventions /\ UNCHANGED <<dep, pdd, inv, disabled, open, rep, crashes>>
        BY Zenon, <1>15 DEF JobMoves
    <2>. QED BY Zenon, <1>3, <2>1, <2>2, <2>3 DEF TypeOK
<1>16. CASE UNCHANGED vars
    BY Zenon, <1>3, <1>16 DEF vars, TypeOK
<1>. QED BY Zenon, <1>4, <1>5, <1>6, <1>7, <1>8, <1>9, <1>10, <1>11, <1>12, <1>13, <1>14, <1>15, <1>16,
            JobSteps DEF Next, Scheduler, RepOnly

--------------------------------------------------------------------------------
(***************************************************************************)
(* What no step takes back: a success, and a label once given.             *)
(***************************************************************************)

Keeps ==
    \A d \in Devices : /\ Target(d).status = "succeeded" => Target(d)'.status = "succeeded"
                       /\ Labelled => pdd'[d].group = pdd[d].group

\* PrepareCanaryRollout labels every row, or leaves all of them; their jobs stay.
Labels ==
    \A d \in Devices : pdd'[d].group = IF d <= CanaryCount(Cardinality(Devices)) THEN "canary" ELSE "broad"

LEMMA PrepareSteps ==
    ASSUME TypeOK, NEW r \in Replicas, PrepareCanaryRollout(r)
    PROVE  /\ jobs' = jobs /\ \A d \in Devices : pdd'[d].job = pdd[d].job
           /\ pdd' = pdd \/ (Labels /\ Rows = Devices)
<1>1. pdd \in [Devices -> Row] /\ Sensible
    BY Zenon DEF TypeOK
<1>2. jobs' = jobs
    BY Zenon DEF PrepareCanaryRollout
<1>3. CASE pdd' = pdd
    BY Zenon, <1>2, <1>3
<1>4. CASE /\ CanarySet # {}
           /\ pdd' = [d \in Devices |->
                       [pdd[d] EXCEPT !.group = IF d \in CanarySet THEN "canary" ELSE "broad",
                                      !.dispatched = FALSE, !.attempts = 0]]
    <2>1. Rows = Devices
        BY Zenon, <1>1, <1>4, RowsAre DEF CanarySet
    <2>2. ASSUME NEW d \in Devices
          PROVE  /\ pdd'[d].job = pdd[d].job
                 /\ pdd'[d].group = IF d \in CanarySet THEN "canary" ELSE "broad"
        <3>1. pdd[d] \in Row
            BY Zenon, <1>1
        <3>2. pdd'[d] = [pdd[d] EXCEPT !.group = IF d \in CanarySet THEN "canary" ELSE "broad",
                                       !.dispatched = FALSE, !.attempts = 0]
            BY Zenon, <1>4
        <3>. QED BY Zenon, <3>1, <3>2 DEF Row
    <2>. QED BY Zenon, <1>2, <2>1, <2>2 DEF Labels, CanarySet
<1>. QED BY Zenon, <1>3, <1>4 DEF PrepareCanaryRollout

LEMMA NextKeeps ==
    ASSUME TypeOK, [Next]_vars
    PROVE  Keeps
<1>1. /\ rep \in [Replicas -> Replica] /\ dep \in Deployment /\ pdd \in [Devices -> Row] /\ Sensible
      /\ jobs \in [Devices -> [Cycles -> Job]]
    BY Zenon DEF TypeOK
<1>2. ASSUME UNCHANGED <<pdd, jobs>> PROVE Keeps
    BY Zenon, <1>2 DEF Keeps, Target
<1>3. CASE WindowCloses
    <2>1. pdd' = pdd
        BY Zenon, <1>3 DEF WindowCloses
    <2>2. ASSUME NEW d \in Devices, NEW c \in Cycles PROVE jobs'[d][c].status = jobs[d][c].status
        <3>1. jobs[d][c] \in Job
            BY Zenon, <1>1
        <3>2. jobs'[d][c] = [jobs[d][c] EXCEPT !.due = jobs[d][c].status # "none"]
            BY Zenon, <1>3 DEF WindowCloses
        <3>. QED BY Zenon, <3>1, <3>2 DEF Job
    <2>3. ASSUME NEW d \in Devices PROVE pdd[d].job = 0 \/ pdd[d].job \in Cycles
        BY Zenon, <1>1 DEF Row
    <2>. QED BY Zenon, <2>1, <2>2, <2>3 DEF Keeps, Target
<1>4. ASSUME NEW r \in Replicas, PrepareCanaryRollout(r) PROVE Keeps
    <2>1. /\ jobs' = jobs /\ \A d \in Devices : pdd'[d].job = pdd[d].job
          /\ pdd' = pdd \/ (Labels /\ Rows = Devices)
        BY Zenon, <1>4, PrepareSteps
    <2>2. ASSUME NEW d \in Devices, Labelled PROVE pdd'[d].group = pdd[d].group
        <3>1. pdd[d].group \in {"canary", "broad"}
            BY Zenon, <1>1 DEF Row
        <3>. QED BY Zenon, <2>1, <2>2, <3>1 DEF Labelled, Labels
    <2>3. ASSUME NEW d \in Devices PROVE Target(d)' = Target(d)
        BY Zenon, <2>1 DEF Target
    <2>. QED BY Zenon, <2>2, <2>3 DEF Keeps
<1>5. ASSUME NEW r \in Replicas, QueuePatchRolloutDevice(r) PROVE Keeps
    <2>1. PICK d \in Devices : Queues(d) \/ UNCHANGED <<jobs, pdd>>
        BY Zenon, <1>5, QueueSteps
    <2>2. CASE Queues(d)
        <3>1. /\ Target(d).status \in {"none", "expired"}
              /\ \A e \in Devices : e # d => pdd'[e] = pdd[e]
              /\ pdd'[d].group = pdd[d].group
              /\ \A e \in Devices : e # d => jobs'[e] = jobs[e]
            BY Zenon, <1>1, <2>2 DEF Queues, MayQueue
        <3>. QED BY Zenon, <3>1 DEF Keeps, Target
    <2>. QED BY Zenon, <1>2, <2>1, <2>2
<1>6. ASSUME NEW d \in Devices, NEW c \in Cycles, JobMoves(d, c) PROVE Keeps
    <2>1. /\ pdd' = pdd
          /\ \A e \in Devices, k \in Cycles : e # d \/ k # c => jobs'[e][k] = jobs[e][k]
          /\ jobs[d][c].status = "succeeded" => jobs'[d][c].status = "succeeded"
        BY <1>1, <1>6 DEF JobMoves
    <2>2. ASSUME NEW e \in Devices PROVE pdd[e].job = 0 \/ pdd[e].job \in Cycles
        BY Zenon, <1>1 DEF Row
    <2>. QED BY <2>1, <2>2 DEF Keeps, Target
<1>7. CASE CreateDeployment \/ WindowOpens
    BY Zenon, <1>2, <1>7 DEF CreateDeployment, WindowOpens
<1>8. ASSUME NEW r \in Replicas, RepOnly(r) PROVE Keeps
    BY Zenon, <1>2, <1>8, RepOnlyType
<1>9. ASSUME NEW r \in Replicas,
             PersistCanary(r) \/ PersistGate(r) \/ PersistDeploying(r) \/ Restart(r) \/ DeletePolicy(r)
      PROVE  Keeps
    BY Zenon, <1>2, <1>9 DEF PersistCanary, PersistGate, PersistDeploying, Restart, DeletePolicy
<1>10. ASSUME NEW r \in Replicas, NEW d \in Devices, HandlePatchInventory(r, d)
       PROVE  Keeps
    BY Zenon, <1>2, <1>10 DEF HandlePatchInventory
<1>11. ASSUME NEW d \in Devices, DisableDevice(d) PROVE Keeps
    BY Zenon, <1>2, <1>11 DEF DisableDevice
<1>12. CASE UNCHANGED vars
    BY Zenon, <1>2, <1>12 DEF vars
<1>. QED BY Zenon, <1>3, <1>4, <1>5, <1>6, <1>7, <1>8, <1>9, <1>10, <1>11, <1>12, JobSteps
         DEF Next, Scheduler, RepOnly

\* So enough successes of the canaries stay enough, and the success of all stays.
LEMMA SuccessStays ==
    ASSUME TypeOK, TypeOK', Keeps
    PROVE  /\ Labelled => Labelled' /\ Canaries' = Canaries
           /\ Enough => Enough'
           /\ AllSucceeded => AllSucceeded'
<1>1. Labelled => Labelled' /\ Canaries' = Canaries
    BY Zenon DEF Keeps, Labelled, Canaries
<1>2. AllSucceeded => AllSucceeded'
    BY Zenon DEF Keeps, AllSucceeded, Succeeded
<1>3. ASSUME Enough PROVE Enough'
    <2>. DEFINE A == Succeeded(Canaries)
                B == Succeeded(Canaries)'
    <2>1. Labelled' /\ Canaries' = Canaries /\ Canaries \in SUBSET Devices
        BY Zenon, <1>1, <1>3 DEF Enough, Canaries
    <2>2. B \in SUBSET Devices /\ A \in SUBSET B
        BY Zenon, <2>1 DEF Succeeded, Keeps
    <2>3. IsFiniteSet(B) /\ Cardinality(B) \in Nat /\ Cardinality(A) \in Nat /\ Cardinality(Canaries) \in Nat
        BY <2>1, <2>2, DeviceSets DEF TypeOK, Sensible
    <2>4. Cardinality(A) <= Cardinality(B)
        BY Zenon, <2>2, <2>3, FS_Subset
    <2>5. Cardinality(A) * 100 >= Cardinality(Canaries) * SuccessThreshold
        BY Zenon, <1>3 DEF Enough
    <2>6. SuccessThreshold \in Nat
        BY Zenon DEF TypeOK, Sensible
    <2>. HIDE DEF A, B
    <2>7. \A x \in Nat : Cardinality(A) * 100 >= x => Cardinality(B) * 100 >= x
        BY <2>3, <2>4
    <2>8. Cardinality(Canaries) * SuccessThreshold \in Nat
        BY <2>3, <2>6
    <2>9. Cardinality(B) * 100 >= Cardinality(Canaries) * SuccessThreshold
        BY Zenon, <2>5, <2>7, <2>8
    <2>. QED BY Zenon, <2>1, <2>9 DEF Enough, B
<1>. QED BY Zenon, <1>1, <1>2, <1>3

--------------------------------------------------------------------------------
(***************************************************************************)
(* The jobs of a device.                                                   *)
(***************************************************************************)

LEMMA OldJobsInitially == ASSUME Init PROVE OldJobsAreDue
    BY Zenon DEF Init, OldJobsAreDue, NewRow, NoJob

LEMMA CycleIsNotZero ==
    ASSUME NEW c \in Cycles PROVE c # 0
    BY DEF Cycles

LEMMA OldJobsPreserved ==
    ASSUME TypeOK, OldJobsAreDue, [Next]_vars
    PROVE  OldJobsAreDue'
<1>1. /\ pdd \in [Devices -> Row] /\ Sensible /\ jobs \in [Devices -> [Cycles -> Job]]
    BY Zenon DEF TypeOK
<1>2. ASSUME jobs' = jobs, \A d \in Devices : pdd'[d].job = pdd[d].job PROVE OldJobsAreDue'
    BY Zenon, <1>2 DEF OldJobsAreDue
<1>3. CASE WindowCloses
    <2>1. pdd' = pdd
        BY Zenon, <1>3 DEF WindowCloses
    <2>2. ASSUME NEW d \in Devices, NEW c \in Cycles
          PROVE  jobs'[d][c].status = jobs[d][c].status /\ (jobs[d][c].status # "none" => jobs'[d][c].due = TRUE)
        <3>1. jobs[d][c] \in Job
            BY Zenon, <1>1
        <3>2. jobs'[d][c] = [jobs[d][c] EXCEPT !.due = jobs[d][c].status # "none"]
            BY Zenon, <1>3 DEF WindowCloses
        <3>. QED BY Zenon, <3>1, <3>2 DEF Job
    <2>3. ASSUME NEW d \in Devices PROVE pdd[d].job = 0 \/ pdd[d].job \in Cycles
        BY Zenon, <1>1 DEF Row
    <2>4. ASSUME NEW d \in Devices, NEW c \in Cycles
          PROVE  jobs'[d][c].status = "none" \/ jobs'[d][c].due
        BY <2>2, Zenon
    <2>5. ASSUME NEW d \in Devices, pdd'[d].job # 0 PROVE jobs'[d][pdd'[d].job].status # "none"
        BY <2>1, <2>2, <2>3, <2>5 DEF OldJobsAreDue
    <2>6. "expired" # "none"
        BY Zenon
    <2>. QED BY <2>4, <2>5, <2>6, Zenon DEF OldJobsAreDue
<1>4. ASSUME NEW r \in Replicas, PrepareCanaryRollout(r) PROVE OldJobsAreDue'
    BY Zenon, <1>2, <1>4, PrepareSteps
<1>5. ASSUME NEW r \in Replicas, QueuePatchRolloutDevice(r) PROVE OldJobsAreDue'
    <2>1. PICK d \in Devices : Queues(d) \/ UNCHANGED <<jobs, pdd>>
        BY Zenon, <1>5, QueueSteps
    <2>2. CASE Queues(d)
        <3>. DEFINE k == Consumed(d) + 1
                    n == NewJob(Consumed(d))
        <3>1. /\ Target(d).status \in {"none", "expired"} /\ k \in Cycles
              /\ jobs' = [jobs EXCEPT ![d][k] = n]
              /\ \A e \in Devices : e # d => pdd'[e] = pdd[e]
              /\ pdd'[d].job = k
            BY Zenon, <2>2 DEF Queues, MayQueue
        <3>2. n.status = "queued"
            BY Zenon DEF NewJob, NoJob
        <3>3. k # 0
            BY Zenon, <3>1, CycleIsNotZero
        <3>. HIDE DEF k, n
        <3>4. /\ jobs'[d][k] = n
              /\ \A e \in Devices, c \in Cycles : e # d \/ c # k => jobs'[e][c] = jobs[e][c]
            BY <1>1, <3>1
        <3>5. pdd[d].job # 0 => jobs[d][pdd[d].job].status = "expired" /\ pdd[d].job \in Cycles
            BY Zenon, <1>1, <3>1 DEF Target, OldJobsAreDue, Row
        <3>6. ASSUME NEW e \in Devices, NEW c \in Cycles
              PROVE  /\ c # pdd'[e].job => jobs'[e][c].status = "none" \/ jobs'[e][c].due
                     /\ jobs'[e][c].status = "expired" => jobs'[e][c].due
            <4>1. CASE e = d /\ c = k
                BY Zenon, <3>1, <3>2, <3>4, <4>1
            <4>2. CASE e = d /\ c # k /\ c = pdd[d].job
                <5>1. jobs'[d][c] = jobs[d][c] /\ jobs[d][c].status = "expired"
                    BY Zenon, <3>3, <3>4, <3>5, <4>2, CycleIsNotZero
                <5>. QED BY Zenon, <4>2, <5>1 DEF OldJobsAreDue
            <4>3. CASE e = d /\ c # k /\ c # pdd[d].job
                <5>1. jobs'[d][c] = jobs[d][c]
                    BY Zenon, <3>4, <4>3
                <5>. QED BY Zenon, <4>3, <5>1 DEF OldJobsAreDue
            <4>4. CASE e # d
                <5>1. jobs'[e][c] = jobs[e][c] /\ pdd'[e].job = pdd[e].job
                    BY Zenon, <3>1, <3>4, <4>4
                <5>. QED BY Zenon, <5>1 DEF OldJobsAreDue
            <4>. QED BY Zenon, <4>1, <4>2, <4>3, <4>4
        <3>7. ASSUME NEW e \in Devices, pdd'[e].job # 0 PROVE jobs'[e][pdd'[e].job].status # "none"
            <4>1. pdd[e].job = 0 \/ pdd[e].job \in Cycles
                BY Zenon, <1>1 DEF Row
            <4>. QED BY <3>1, <3>2, <3>4, <3>7, <4>1 DEF OldJobsAreDue
        <3>. QED BY Zenon, <3>6, <3>7 DEF OldJobsAreDue
    <2>. QED BY Zenon, <1>2, <2>1, <2>2
<1>6. ASSUME NEW d \in Devices, NEW c \in Cycles, JobMoves(d, c) PROVE OldJobsAreDue'
    <2>1. /\ pdd' = pdd
          /\ \A e \in Devices, k \in Cycles : e # d \/ k # c => jobs'[e][k] = jobs[e][k]
          /\ jobs[d][c].status # "none" /\ jobs'[d][c].status # "none"
          /\ jobs[d][c].due => jobs'[d][c].due
          /\ jobs'[d][c].status = "expired" => jobs'[d][c].due \/ jobs[d][c].status = "expired"
        BY <1>1, <1>6 DEF JobMoves
    <2>2. ASSUME NEW e \in Devices PROVE pdd[e].job = 0 \/ pdd[e].job \in Cycles
        BY Zenon, <1>1 DEF Row
    <2>. QED BY <2>1, <2>2 DEF OldJobsAreDue
<1>7. CASE CreateDeployment \/ WindowOpens
    BY Zenon, <1>2, <1>7 DEF CreateDeployment, WindowOpens
<1>8. ASSUME NEW r \in Replicas, RepOnly(r) PROVE OldJobsAreDue'
    BY Zenon, <1>2, <1>8, RepOnlyType
<1>9. ASSUME NEW r \in Replicas,
             PersistCanary(r) \/ PersistGate(r) \/ PersistDeploying(r) \/ Restart(r) \/ DeletePolicy(r)
      PROVE  OldJobsAreDue'
    BY Zenon, <1>2, <1>9 DEF PersistCanary, PersistGate, PersistDeploying, Restart, DeletePolicy
<1>10. ASSUME NEW r \in Replicas, NEW d \in Devices, HandlePatchInventory(r, d) PROVE OldJobsAreDue'
    BY Zenon, <1>2, <1>10 DEF HandlePatchInventory
<1>11. ASSUME NEW d \in Devices, DisableDevice(d) PROVE OldJobsAreDue'
    BY Zenon, <1>2, <1>11 DEF DisableDevice
<1>12. CASE UNCHANGED vars
    BY Zenon, <1>2, <1>12 DEF vars
<1>. QED BY Zenon, <1>3, <1>4, <1>5, <1>6, <1>7, <1>8, <1>9, <1>10, <1>11, <1>12, JobSteps
         DEF Next, Scheduler, RepOnly

LEMMA OldJobsSuffice ==
    ASSUME OldJobsAreDue
    PROVE  OneRunnableJob
<1>. SUFFICES ASSUME NEW d \in Devices
              PROVE  Cardinality({c \in Cycles : jobs[d][c].status \in Live /\ ~jobs[d][c].due}) <= 1
    BY Zenon DEF OneRunnableJob
<1>. DEFINE R == {c \in Cycles : jobs[d][c].status \in Live /\ ~jobs[d][c].due}
<1>1. R \subseteq {pdd[d].job}
    BY Zenon DEF OldJobsAreDue, Live
<1>2. IsFiniteSet({pdd[d].job}) /\ Cardinality({pdd[d].job}) = 1
    BY Zenon, FS_Singleton
<1>. HIDE DEF R
<1>3. Cardinality(R) <= 1
    BY <1>1, <1>2, FS_Subset
<1>. QED BY Zenon, <1>3 DEF R

--------------------------------------------------------------------------------
(***************************************************************************)
(* The phases of the rollout.                                              *)
(***************************************************************************)

LEMMA RolloutInitially == ASSUME Init PROVE RolloutIsEarned
<1>1. RowsAreEarned
    BY Zenon DEF Init, RowsAreEarned, Canaries, Unqueued, NewRow
<1>2. dep.status = "absent"
    BY Zenon DEF Init, NoDeployment
<1>3. ASSUME NEW r \in Replicas PROVE HeldIsEarned(rep[r])
    <2>1. PICK k \in BOOLEAN : rep[r] = [Starting EXCEPT !.knows = k]
        BY Zenon DEF Init
    <2>2. rep[r].pc = "starting" /\ rep[r].snap.status = "absent"
        BY <2>1 DEF Starting, NoDeployment
    <2>. QED BY Zenon, <2>2 DEF HeldIsEarned
<1>. QED BY Zenon, <1>1, <1>2, <1>3 DEF RolloutIsEarned

\* What a step leaves alone stays earned.
LEMMA EarnedFrame ==
    ASSUME TypeOK, TypeOK', RolloutIsEarned, Keeps
    PROVE  /\ \A r \in Replicas : rep'[r] = rep[r] => HeldIsEarned(rep[r])'
           /\ dep' = dep => /\ dep'.status = "deploying" => Enough'
                            /\ dep'.status = "completed" => AllSucceeded'
           /\ (\A d \in Devices : pdd'[d].job = pdd[d].job) /\ (pdd' = pdd \/ Labels) => RowsAreEarned'
<1>1. /\ Labelled => Labelled' /\ Canaries' = Canaries
      /\ Enough => Enough'
      /\ AllSucceeded => AllSucceeded'
    BY Zenon, SuccessStays
<1>2. ASSUME NEW r \in Replicas, rep'[r] = rep[r] PROVE HeldIsEarned(rep[r])'
    <2>1. HeldIsEarned(rep[r]) /\ (Labelled \/ Canaries = {})
        BY Zenon DEF RolloutIsEarned, RowsAreEarned
    <2>. QED BY Zenon, <1>1, <1>2, <2>1 DEF HeldIsEarned
<1>3. ASSUME \A d \in Devices : pdd'[d].job = pdd[d].job, pdd' = pdd \/ Labels PROVE RowsAreEarned'
    <2>1. Labelled' \/ (Canaries' = {} /\ Unqueued')
        BY Zenon, <1>3 DEF RolloutIsEarned, RowsAreEarned, Labels, Labelled, Canaries, Unqueued
    <2>2. ASSUME NEW d \in Devices, pdd'[d].group = "broad", pdd'[d].job # 0 PROVE Enough'
        <3>1. Labelled
            BY Zenon, <1>3, <2>2 DEF RolloutIsEarned, RowsAreEarned, Unqueued
        <3>2. pdd[d].group = "broad" /\ pdd[d].job # 0
            BY Zenon, <1>3, <2>2, <3>1 DEF Keeps
        <3>. QED BY Zenon, <1>1, <3>2 DEF RolloutIsEarned, RowsAreEarned
    <2>. QED BY Zenon, <2>1, <2>2 DEF RowsAreEarned
<1>. QED BY Zenon, <1>1, <1>2, <1>3 DEF RolloutIsEarned

\* A gate that passes has seen enough; a gate that completes has seen all.
LEMMA GatesAreRight ==
    ASSUME TypeOK, RolloutIsEarned
    PROVE  /\ Passes(Group("canary")) => Enough
           /\ Ready(Rows) /\ FinalStatus(Rows) = "completed" => AllSucceeded
<1>1. Rows \in SUBSET Devices /\ (Rows # {} => Rows = Devices)
    BY Zenon, RowsAre DEF TypeOK
<1>2. ASSUME Passes(Group("canary")) PROVE Enough
    <2>1. Group("canary") # {}
        BY Zenon, <1>2 DEF Passes, Ready
    <2>2. Group("canary") = Canaries
        BY Zenon, <1>1, <2>1 DEF Group, Canaries
    <2>3. Labelled
        BY Zenon, <2>1, <2>2 DEF RolloutIsEarned, RowsAreEarned
    <2>. QED BY Zenon, <1>2, <2>2, <2>3 DEF Passes, Enough
<1>3. ASSUME Ready(Rows), FinalStatus(Rows) = "completed" PROVE AllSucceeded
    BY Zenon, <1>1, <1>3 DEF Ready, FinalStatus, AllSucceeded
<1>. QED BY Zenon, <1>2, <1>3

LEMMA RepOnlyEarned ==
    ASSUME TypeOK, TypeOK', RolloutIsEarned, Keeps, NEW r \in Replicas, RepOnly(r)
    PROVE  HeldIsEarned(rep[r])' /\ \A s \in Replicas : s # r => rep'[s] = rep[s]
<1>1. rep \in [Replicas -> Replica] /\ rep[r] \in Replica
    BY Zenon DEF TypeOK
<1>2. HeldIsEarned(rep[r]) /\ (dep.status = "deploying" => Enough)
    BY Zenon DEF RolloutIsEarned
<1>3. Enough' = Enough /\ AllSucceeded' = AllSucceeded /\ Canaries' = Canaries
    BY RepOnlyType DEF Enough, AllSucceeded, Canaries, Labelled, Succeeded, Target
<1>4. ASSUME NEW pc \in Steps \ {"dispatch", "queue", "advanceDeploying"}, Goto(r, pc)
      PROVE  HeldIsEarned(rep[r])' /\ \A s \in Replicas : s # r => rep'[s] = rep[s]
    <2>1. rep'[r].pc = pc /\ rep'[r].snap = rep[r].snap
        BY Zenon, <1>1, <1>4 DEF Goto, Replica
    <2>. QED BY Zenon, <1>1, <1>2, <1>3, <1>4, <2>1 DEF HeldIsEarned, Goto
<1>5. ASSUME NEW pc \in Steps, NEW g \in {"canary", "broad"}, DispatchThen(r, g, pc),
             g = "broad" => Enough
      PROVE  HeldIsEarned(rep[r])' /\ \A s \in Replicas : s # r => rep'[s] = rep[s]
    <2>1. rep'[r].pc = "dispatch" /\ rep'[r].snap = rep[r].snap /\ rep'[r].group = g
        BY Zenon, <1>1, <1>5 DEF DispatchThen, Replica
    <2>. QED BY Zenon, <1>1, <1>2, <1>3, <1>5, <2>1 DEF HeldIsEarned, DispatchThen
<1>6. ASSUME NEW pc \in {"prepare", "advanceCanary", "persistGate", "advanceDeploying", "persistDeploying"},
             NEW s, rep' = [rep EXCEPT ![r].pc = pc, ![r].snap = s],
             s.status = "deploying" \/ pc = "advanceDeploying" => Enough,
             s.status = "completed" => AllSucceeded
      PROVE  HeldIsEarned(rep[r])' /\ \A t \in Replicas : t # r => rep'[t] = rep[t]
    <2>1. rep'[r].pc = pc /\ rep'[r].snap = s
        BY Zenon, <1>1, <1>6 DEF Replica
    <2>. QED BY Zenon, <1>1, <1>3, <1>6, <2>1 DEF HeldIsEarned
<1>7. CASE StartReturns(r)
    BY Zenon, <1>4, <1>7 DEF StartReturns, Steps
<1>8. CASE Tick(r)
    <2>1. CASE dep.status = "pending"
        BY Zenon, <1>6, <1>8, <2>1 DEF Tick
    <2>2. CASE dep.status # "pending"
        BY Zenon, <1>4, <1>8, <2>2 DEF Tick, Steps
    <2>. QED BY Zenon, <2>1, <2>2
<1>9. CASE Dispatch(r)
    <2>. DEFINE T == Undispatched(rep[r].group)
    <2>1. rep' = [rep EXCEPT ![r].pc = "queue", ![r].todo = T] /\ At(r, "dispatch")
        BY Zenon, <1>9 DEF Dispatch
    <2>2. rep[r].group = "canary" => T \subseteq Canaries
        BY Zenon, RowsAre DEF Undispatched, Group, Canaries, TypeOK
    <2>. HIDE DEF T
    <2>3. /\ rep'[r].pc = "queue" /\ rep'[r].todo = T
          /\ rep'[r].snap = rep[r].snap /\ rep'[r].group = rep[r].group
          /\ rep[r].pc = "dispatch"
        BY Zenon, <1>1, <2>1 DEF Replica, At
    <2>. QED BY Zenon, <1>1, <1>2, <1>3, <2>1, <2>2, <2>3 DEF HeldIsEarned
<1>10. CASE GroupDispatched(r)
    <2>1. rep[r].after \in Steps \ {"dispatch", "queue", "advanceDeploying"}
        BY Zenon, <1>1 DEF Replica, Afters, Steps
    <2>. QED BY Zenon, <1>4, <1>10, <2>1 DEF GroupDispatched
<1>11. CASE GetCanaryDeployments(r)
    <2>1. CASE dep.status = "canary"
        BY Zenon, <1>6, <1>11, <2>1 DEF GetCanaryDeployments
    <2>2. CASE dep.status # "canary"
        BY Zenon, <1>4, <1>11, <2>2 DEF GetCanaryDeployments, Steps
    <2>. QED BY Zenon, <2>1, <2>2
<1>12. CASE AdvanceCanary(r)
    BY Zenon, <1>4, <1>5, <1>12 DEF AdvanceCanary, Steps
<1>13. CASE CanaryGate(r)
    <2>. DEFINE S == Group("canary")
                t == IF Passes(S) THEN "deploying" ELSE "failed"
                s == Counted(rep[r].snap, S, DeviceCount, t)
    <2>1. S \in SUBSET Devices /\ rep[r].snap \in Deployment /\ DeviceCount \in Nat /\ Sensible
        BY Zenon, <1>1, RowsAre DEF Group, Replica, Sensible, TypeOK
    <2>2. s \in Deployment
        BY Zenon, <2>1, CountedType
    <2>3. s.status = t
        BY Zenon, <2>1 DEF Counted, Deployment
    <2>4. t = "deploying" => Enough
        BY Zenon, GatesAreRight
    <2>5. \/ rep' = [rep EXCEPT ![r].pc = "persistGate", ![r].snap = s]
          \/ Goto(r, "getDeploying")
        BY Zenon, <1>13 DEF CanaryGate
    <2>6. t # "completed"
        BY Zenon
    <2>. HIDE DEF s, t
    <2>. QED BY Zenon, <1>4, <1>6, <2>2, <2>3, <2>4, <2>5, <2>6 DEF Steps
<1>14. CASE GetDeployingDeployments(r)
    <2>1. CASE dep.status = "deploying"
        BY Zenon, <1>2, <1>6, <1>14, <2>1 DEF GetDeployingDeployments
    <2>2. CASE dep.status # "deploying"
        BY Zenon, <1>4, <1>14, <2>2 DEF GetDeployingDeployments, Steps
    <2>. QED BY Zenon, <2>1, <2>2
<1>15. CASE AdvanceDeploying(r)
    <2>1. Enough
        BY Zenon, <1>2, <1>15 DEF AdvanceDeploying, HeldIsEarned, At
    <2>. QED BY Zenon, <1>4, <1>5, <1>15, <2>1 DEF AdvanceDeploying, Steps
<1>16. CASE DeployGate(r)
    <2>. DEFINE t == IF Ready(Rows) THEN FinalStatus(Rows) ELSE rep[r].snap.status
                s == Counted(rep[r].snap, Rows, Cardinality(Rows), t)
    <2>1. Rows \in SUBSET Devices /\ rep[r].snap \in Deployment /\ Cardinality(Rows) \in Nat /\ Sensible
        BY <1>1, RowsAre, DeviceSets DEF Replica, Sensible, TypeOK
    <2>2. t \in {"absent", "pending", "canary", "deploying", "completed", "failed", "deleted"}
        BY Zenon, <2>1 DEF Deployment, FinalStatus
    <2>3. (t = "deploying" => Enough) /\ (t = "completed" => AllSucceeded)
        BY Zenon, <1>2, GatesAreRight DEF HeldIsEarned, FinalStatus
    <2>. HIDE DEF t
    <2>4. s \in Deployment
        BY Zenon, <2>1, <2>2, CountedType
    <2>5. s.status = t
        BY Zenon, <2>1 DEF Counted, Deployment
    <2>6. rep' = [rep EXCEPT ![r].pc = "persistDeploying", ![r].snap = s]
        BY Zenon, <1>16 DEF DeployGate, t
    <2>. HIDE DEF s
    <2>. QED BY Zenon, <1>6, <2>3, <2>5, <2>6
<1>. QED BY Zenon, <1>7, <1>8, <1>9, <1>10, <1>11, <1>12, <1>13, <1>14, <1>15, <1>16 DEF RepOnly

LEMMA RolloutPreserved ==
    ASSUME TypeOK, TypeOK', RolloutIsEarned, [Next]_vars
    PROVE  RolloutIsEarned'
<1>1. /\ rep \in [Replicas -> Replica] /\ pdd \in [Devices -> Row] /\ dep \in Deployment
    BY Zenon DEF TypeOK
<1>2. Keeps
    BY Zenon, NextKeeps
<1>3. /\ Enough => Enough'
      /\ AllSucceeded => AllSucceeded'
    BY Zenon, <1>2, SuccessStays
<1>4. /\ \A r \in Replicas : rep'[r] = rep[r] => HeldIsEarned(rep[r])'
      /\ dep' = dep => /\ dep'.status = "deploying" => Enough'
                       /\ dep'.status = "completed" => AllSucceeded'
      /\ (\A d \in Devices : pdd'[d].job = pdd[d].job) /\ (pdd' = pdd \/ Labels) => RowsAreEarned'
    BY Zenon, <1>2, EarnedFrame
<1>5. ASSUME UNCHANGED <<dep, pdd, rep>> PROVE RolloutIsEarned'
    BY Zenon, <1>4, <1>5 DEF RolloutIsEarned
<1>6. ASSUME UNCHANGED <<dep, pdd>>, NEW r \in Replicas, HeldIsEarned(rep[r])',
             \A s \in Replicas : s # r => rep'[s] = rep[s]
      PROVE  RolloutIsEarned'
    BY Zenon, <1>4, <1>6 DEF RolloutIsEarned
<1>7. ASSUME NEW r \in Replicas, NEW pc \in Steps \ {"dispatch", "queue", "advanceDeploying"}, Goto(r, pc)
      PROVE  HeldIsEarned(rep[r])' /\ \A s \in Replicas : s # r => rep'[s] = rep[s]
    <2>1. rep'[r].pc = pc /\ rep'[r].snap = rep[r].snap
        BY Zenon, <1>1, <1>7 DEF Goto, Replica
    <2>2. HeldIsEarned(rep[r])
        BY Zenon DEF RolloutIsEarned
    <2>. QED BY Zenon, <1>1, <1>3, <1>7, <2>1, <2>2 DEF HeldIsEarned, Goto
<1>8. ASSUME NEW r \in Replicas, RepOnly(r) PROVE RolloutIsEarned'
    <2>1. UNCHANGED <<dep, pdd>>
        BY Zenon, <1>8, RepOnlyType
    <2>2. HeldIsEarned(rep[r])' /\ \A s \in Replicas : s # r => rep'[s] = rep[s]
        BY Zenon, <1>2, <1>8, RepOnlyEarned
    <2>. QED BY Zenon, <1>6, <2>1, <2>2
<1>9. ASSUME NEW r \in Replicas, PrepareCanaryRollout(r) PROVE RolloutIsEarned'
    <2>1. RowsAreEarned'
        BY Zenon, <1>4, <1>9, PrepareSteps
    <2>2. dep' = dep
        BY Zenon, <1>9 DEF PrepareCanaryRollout
    <2>3. HeldIsEarned(rep[r])' /\ \A s \in Replicas : s # r => rep'[s] = rep[s]
        BY Zenon, <1>7, <1>9 DEF PrepareCanaryRollout, Steps
    <2>. QED BY Zenon, <1>4, <2>1, <2>2, <2>3 DEF RolloutIsEarned
<1>10. ASSUME NEW r \in Replicas, PersistCanary(r) \/ PersistGate(r) \/ PersistDeploying(r)
       PROVE  RolloutIsEarned'
    <2>1. HeldIsEarned(rep[r]) /\ rep[r] \in Replica
        BY Zenon, <1>1 DEF RolloutIsEarned
    <2>2. dep' = dep \/ dep'.status = "canary" \/ dep' = rep[r].snap
        <3>1. [rep[r].snap EXCEPT !.status = "canary"].status = "canary"
            BY Zenon, <2>1 DEF Replica, Deployment
        <3>. QED BY Zenon, <1>10, <3>1 DEF PersistCanary, PersistGate, PersistDeploying, Persist
    <2>3. (dep'.status = "deploying" => Enough') /\ (dep'.status = "completed" => AllSucceeded')
        BY Zenon, <1>3, <1>4, <2>1, <2>2 DEF HeldIsEarned
    <2>4. pdd' = pdd
        BY Zenon, <1>10 DEF PersistCanary, PersistGate, PersistDeploying
    <2>5. ASSUME NEW g \in {"canary", "broad"}, NEW pc, DispatchThen(r, g, pc), g = "broad" => Enough
          PROVE  HeldIsEarned(rep[r])' /\ \A s \in Replicas : s # r => rep'[s] = rep[s]
        <3>1. rep'[r].pc = "dispatch" /\ rep'[r].snap = rep[r].snap /\ rep'[r].group = g
            BY Zenon, <2>1, <2>5, <1>1 DEF DispatchThen, Replica
        <3>. QED BY Zenon, <1>1, <1>3, <2>1, <2>5, <3>1 DEF HeldIsEarned, DispatchThen
    <2>6. HeldIsEarned(rep[r])' /\ \A s \in Replicas : s # r => rep'[s] = rep[s]
        <3>1. CASE PersistCanary(r)
            BY Zenon, <2>5, <3>1 DEF PersistCanary
        <3>2. CASE PersistGate(r)
            BY Zenon, <1>7, <2>1, <2>5, <3>2 DEF PersistGate, HeldIsEarned, Steps
        <3>3. CASE PersistDeploying(r)
            BY Zenon, <1>7, <3>3 DEF PersistDeploying, Steps
        <3>. QED BY Zenon, <1>10, <3>1, <3>2, <3>3
    <2>7. RowsAreEarned'
        BY Zenon, <1>4, <2>4
    <2>. QED BY Zenon, <1>4, <2>3, <2>6, <2>7 DEF RolloutIsEarned
<1>11. ASSUME NEW r \in Replicas, QueuePatchRolloutDevice(r) PROVE RolloutIsEarned'
    <2>1. PICK d \in rep[r].todo : /\ d \in Devices
                                   /\ Queues(d) \/ UNCHANGED <<jobs, pdd>>
                                   /\ rep' = [rep EXCEPT ![r].todo = @ \ {d}]
        BY Zenon, <1>11, QueueSteps
    <2>2. HeldIsEarned(rep[r]) /\ rep[r] \in Replica
        BY Zenon, <1>1 DEF RolloutIsEarned
    <2>3. rep[r].pc = "queue" /\ dep' = dep
        BY Zenon, <1>11 DEF QueuePatchRolloutDevice, At
    <2>4. pdd[d].group = "canary" \/ Enough
        BY Zenon, <2>1, <2>2, <2>3 DEF HeldIsEarned, Replica, Canaries
    <2>5. Labelled
        BY Zenon, <2>1, <2>4 DEF Enough, RolloutIsEarned, RowsAreEarned, Canaries
    <2>6. Labelled' /\ Canaries' = Canaries
        BY Zenon, <1>2, <2>5, SuccessStays
    <2>7. rep'[r].pc = rep[r].pc /\ rep'[r].snap = rep[r].snap /\ rep'[r].group = rep[r].group
          /\ rep'[r].todo = rep[r].todo \ {d}
        BY Zenon, <1>1, <2>1 DEF Replica
    <2>8. HeldIsEarned(rep[r])'
        BY Zenon, <1>3, <2>2, <2>6, <2>7 DEF HeldIsEarned
    <2>9. ASSUME NEW e \in Devices, pdd'[e].group = "broad", pdd'[e].job # 0 PROVE Enough'
        <3>1. pdd[e].group = "broad"
            BY Zenon, <1>2, <2>5, <2>9 DEF Keeps
        <3>2. CASE e = d
            BY Zenon, <1>3, <2>4, <3>1, <3>2
        <3>3. CASE e # d
            <4>1. pdd'[e] = pdd[e]
                BY Zenon, <2>1, <3>3 DEF Queues
            <4>. QED BY Zenon, <1>3, <2>9, <3>1, <4>1 DEF RolloutIsEarned, RowsAreEarned
        <3>. QED BY Zenon, <3>2, <3>3
    <2>10. RowsAreEarned'
        BY Zenon, <2>6, <2>9 DEF RowsAreEarned
    <2>11. \A s \in Replicas : s # r => rep'[s] = rep[s]
        BY Zenon, <1>1, <2>1
    <2>. QED BY Zenon, <1>4, <2>3, <2>8, <2>10, <2>11 DEF RolloutIsEarned
<1>12. ASSUME NEW r \in Replicas, Restart(r) PROVE RolloutIsEarned'
    <2>1. rep' = [rep EXCEPT ![r] = [Starting EXCEPT !.knows = dep.status # "deleted"]]
          /\ UNCHANGED <<dep, pdd>>
        BY Zenon, <1>12 DEF Restart
    <2>2. rep'[r].pc = "starting" /\ rep'[r].snap.status = "absent"
        BY Zenon, <1>1, <2>1 DEF Starting, NoDeployment
    <2>3. HeldIsEarned(rep[r])'
        BY Zenon, <2>2 DEF HeldIsEarned
    <2>. QED BY Zenon, <1>1, <1>6, <2>1, <2>3
<1>13. ASSUME NEW r \in Replicas, DeletePolicy(r) PROVE RolloutIsEarned'
    <2>1. dep' = [dep EXCEPT !.status = "deleted"] /\ rep' = [rep EXCEPT ![r].knows = FALSE] /\ pdd' = pdd
        BY Zenon, <1>13 DEF DeletePolicy
    <2>2. dep'.status = "deleted"
        BY Zenon, <1>1, <2>1 DEF Deployment
    <2>3. /\ rep'[r].pc = rep[r].pc /\ rep'[r].snap = rep[r].snap /\ rep'[r].group = rep[r].group
          /\ rep'[r].todo = rep[r].todo
          /\ \A s \in Replicas : s # r => rep'[s] = rep[s]
        BY Zenon, <1>1, <2>1 DEF Replica
    <2>4. HeldIsEarned(rep[r]) /\ Canaries' = Canaries
        BY Zenon, <2>1 DEF RolloutIsEarned, Canaries
    <2>5. HeldIsEarned(rep[r])'
        BY Zenon, <1>3, <2>3, <2>4 DEF HeldIsEarned
    <2>6. RowsAreEarned'
        BY Zenon, <1>4, <2>1
    <2>. QED BY Zenon, <1>4, <2>2, <2>3, <2>5, <2>6 DEF RolloutIsEarned
<1>14. CASE CreateDeployment
    <2>1. dep'.status = "pending" /\ UNCHANGED <<pdd, rep>>
        BY Zenon, <1>1, <1>14 DEF CreateDeployment, Deployment
    <2>2. RowsAreEarned'
        BY Zenon, <1>4, <2>1
    <2>. QED BY Zenon, <1>4, <2>1, <2>2 DEF RolloutIsEarned
<1>15. CASE WindowCloses \/ WindowOpens
    BY Zenon, <1>5, <1>15 DEF WindowCloses, WindowOpens
<1>16. ASSUME NEW r \in Replicas, NEW d \in Devices, HandlePatchInventory(r, d) PROVE RolloutIsEarned'
    BY Zenon, <1>5, <1>16 DEF HandlePatchInventory
<1>17. ASSUME NEW d \in Devices, DisableDevice(d) PROVE RolloutIsEarned'
    BY Zenon, <1>5, <1>17 DEF DisableDevice
<1>18. ASSUME NEW d \in Devices, NEW c \in Cycles, JobMoves(d, c) PROVE RolloutIsEarned'
    BY Zenon, <1>5, <1>18 DEF JobMoves
<1>19. CASE UNCHANGED vars
    BY Zenon, <1>5, <1>19 DEF vars
<1>. QED BY Zenon, <1>8, <1>9, <1>10, <1>11, <1>12, <1>13, <1>14, <1>15, <1>16, <1>17, <1>18, <1>19, JobSteps
         DEF Next, Scheduler, RepOnly

LEMMA RolloutSuffices ==
    ASSUME TypeOK, RolloutIsEarned
    PROVE  CanaryFirst /\ CompletedIsReal
<1>1. CompletedIsReal
    BY Zenon DEF RolloutIsEarned, CompletedIsReal, AllSucceeded
<1>2. ASSUME NEW d \in Group("broad"), pdd[d].job # 0
      PROVE  Cardinality(Succeeded(Group("canary"))) * 100 >= Cardinality(Group("canary")) * SuccessThreshold
    <2>1. Rows = Devices
        BY Zenon, <1>2, RowsAre DEF Group, TypeOK
    <2>2. Group("canary") = Canaries
        BY Zenon, <2>1 DEF Group, Canaries
    <2>3. Enough
        BY Zenon, <1>2, <2>1 DEF RolloutIsEarned, RowsAreEarned, Group
    <2>. QED BY Zenon, <2>2, <2>3 DEF Enough
<1>. QED BY Zenon, <1>1, <1>2 DEF CanaryFirst

--------------------------------------------------------------------------------
(***************************************************************************)
(* The attempts of a device, with one replica.                             *)
(***************************************************************************)

LEMMA PreparedInitially == ASSUME Init PROVE PreparedOnce
<1>1. Unqueued
    BY Zenon DEF Init, Unqueued, NewRow
<1>2. ASSUME NEW r \in Replicas PROVE HeldIsLater(rep[r])
    <2>1. PICK k \in BOOLEAN : rep[r] = [Starting EXCEPT !.knows = k]
        BY Zenon DEF Init
    <2>2. rep[r].pc = "starting"
        BY Zenon, <2>1 DEF Starting
    <2>. QED BY Zenon, <2>2 DEF HeldIsLater, Beyond
<1>. QED BY Zenon, <1>1, <1>2 DEF PreparedOnce

LEMMA RepOnlyLater ==
    ASSUME TypeOK, PreparedOnce, NEW r \in Replicas, RepOnly(r)
    PROVE  HeldIsLater(rep[r])'
<1>1. rep \in [Replicas -> Replica] /\ rep[r] \in Replica
    BY Zenon DEF TypeOK
<1>2. HeldIsLater(rep[r]) /\ (dep.status \in {"absent", "pending"} => Unqueued)
    BY Zenon DEF PreparedOnce
<1>3. Unqueued' = Unqueued /\ dep' = dep
    BY Zenon, RepOnlyType DEF Unqueued
<1>4. ASSUME NEW pc \in Steps \ (Beyond \cup {"prepare", "persistCanary"}), Goto(r, pc)
      PROVE  HeldIsLater(rep[r])'
    <2>1. rep'[r].pc = pc
        BY Zenon, <1>1, <1>4 DEF Goto, Replica
    <2>. QED BY Zenon, <1>4, <2>1 DEF HeldIsLater, Beyond
<1>5. ASSUME rep[r].pc \in {"advanceCanary", "advanceDeploying"},
             NEW pc \in {"canaryGate", "deployGate"}, NEW g,
             Goto(r, pc) \/ DispatchThen(r, g, pc)
      PROVE  HeldIsLater(rep[r])'
    <2>1. rep'[r].pc \in {"dispatch", pc} /\ rep'[r].snap = rep[r].snap
        BY <1>1, <1>5 DEF Goto, DispatchThen, Replica
    <2>. QED BY Zenon, <1>2, <1>3, <1>5, <2>1 DEF HeldIsLater, Beyond
<1>6. ASSUME NEW pc \in {"advanceCanary", "persistGate", "advanceDeploying", "persistDeploying"},
             NEW s, rep' = [rep EXCEPT ![r].pc = pc, ![r].snap = s],
             s.status \notin {"absent", "pending"}, dep.status \notin {"absent", "pending"}
      PROVE  HeldIsLater(rep[r])'
    <2>1. rep'[r].pc = pc /\ rep'[r].snap = s
        BY Zenon, <1>1, <1>6 DEF Replica
    <2>. QED BY Zenon, <1>3, <1>6, <2>1 DEF HeldIsLater, Beyond
<1>7. CASE StartReturns(r)
    BY Zenon, <1>4, <1>7 DEF StartReturns, Steps, Beyond
<1>8. CASE Tick(r)
    <2>1. CASE dep.status = "pending"
        <3>1. rep'[r].pc = "prepare"
            BY <1>1, <1>8, <2>1 DEF Tick, Replica
        <3>. QED BY Zenon, <1>2, <1>3, <2>1, <3>1 DEF HeldIsLater, Beyond
    <2>2. CASE dep.status # "pending"
        BY Zenon, <1>4, <1>8, <2>2 DEF Tick, Steps, Beyond
    <2>. QED BY Zenon, <2>1, <2>2
<1>9. CASE Dispatch(r)
    <2>. DEFINE T == Undispatched(rep[r].group)
    <2>1. rep' = [rep EXCEPT ![r].pc = "queue", ![r].todo = T] /\ rep[r].pc = "dispatch"
        BY Zenon, <1>9 DEF Dispatch, At
    <2>. HIDE DEF T
    <2>2. rep'[r].pc = "queue" /\ rep'[r].snap = rep[r].snap /\ rep'[r].after = rep[r].after
        BY Zenon, <1>1, <2>1 DEF Replica
    <2>. QED BY Zenon, <1>2, <1>3, <2>1, <2>2 DEF HeldIsLater, Beyond
<1>10. CASE GroupDispatched(r)
    <2>1. rep[r].pc = "queue" /\ rep'[r].pc = rep[r].after /\ rep'[r].snap = rep[r].snap
          /\ rep[r].after \in Afters
        BY Zenon, <1>1, <1>10 DEF GroupDispatched, At, Goto, Replica
    <2>. QED BY Zenon, <1>2, <1>3, <2>1 DEF HeldIsLater, Beyond, Afters
<1>11. CASE GetCanaryDeployments(r)
    <2>1. CASE dep.status = "canary"
        BY Zenon, <1>6, <1>11, <2>1 DEF GetCanaryDeployments
    <2>2. CASE dep.status # "canary"
        BY Zenon, <1>4, <1>11, <2>2 DEF GetCanaryDeployments, Steps, Beyond
    <2>. QED BY Zenon, <2>1, <2>2
<1>12. CASE AdvanceCanary(r)
    BY Zenon, <1>4, <1>5, <1>12 DEF AdvanceCanary, At, Steps, Beyond
<1>13. CASE CanaryGate(r)
    <2>. DEFINE S == Group("canary")
                t == IF Passes(S) THEN "deploying" ELSE "failed"
                s == Counted(rep[r].snap, S, DeviceCount, t)
    <2>1. rep[r].snap \in Deployment /\ rep[r].pc = "canaryGate"
        BY Zenon, <1>1, <1>13 DEF Replica, CanaryGate, At
    <2>2. s.status = t
        BY Zenon, <2>1 DEF Counted, Deployment
    <2>3. \/ rep' = [rep EXCEPT ![r].pc = "persistGate", ![r].snap = s]
          \/ Goto(r, "getDeploying")
        BY Zenon, <1>13 DEF CanaryGate
    <2>4. t \notin {"absent", "pending"}
        BY Zenon
    <2>5. dep.status \notin {"absent", "pending"}
        BY Zenon, <1>2, <2>1 DEF HeldIsLater, Beyond
    <2>. HIDE DEF s, t
    <2>. QED BY Zenon, <1>4, <1>6, <2>2, <2>3, <2>4, <2>5 DEF Steps, Beyond
<1>14. CASE GetDeployingDeployments(r)
    <2>1. CASE dep.status = "deploying"
        BY Zenon, <1>6, <1>14, <2>1 DEF GetDeployingDeployments
    <2>2. CASE dep.status # "deploying"
        BY Zenon, <1>4, <1>14, <2>2 DEF GetDeployingDeployments, Steps, Beyond
    <2>. QED BY Zenon, <2>1, <2>2
<1>15. CASE AdvanceDeploying(r)
    BY Zenon, <1>4, <1>5, <1>15 DEF AdvanceDeploying, At, Steps, Beyond
<1>16. CASE DeployGate(r)
    <2>. DEFINE t == IF Ready(Rows) THEN FinalStatus(Rows) ELSE rep[r].snap.status
                s == Counted(rep[r].snap, Rows, Cardinality(Rows), t)
    <2>1. rep[r].snap \in Deployment /\ rep[r].pc = "deployGate"
        BY Zenon, <1>1, <1>16 DEF Replica, DeployGate, At
    <2>2. dep.status \notin {"absent", "pending"} /\ rep[r].snap.status \notin {"absent", "pending"}
        BY Zenon, <1>2, <2>1 DEF HeldIsLater, Beyond
    <2>3. t \notin {"absent", "pending"}
        BY Zenon, <2>2 DEF FinalStatus
    <2>. HIDE DEF t
    <2>4. s.status = t
        BY Zenon, <2>1 DEF Counted, Deployment
    <2>5. rep' = [rep EXCEPT ![r].pc = "persistDeploying", ![r].snap = s]
        BY Zenon, <1>16 DEF DeployGate, t
    <2>. HIDE DEF s
    <2>. QED BY Zenon, <1>6, <2>2, <2>3, <2>4, <2>5
<1>. QED BY Zenon, <1>7, <1>8, <1>9, <1>10, <1>11, <1>12, <1>13, <1>14, <1>15, <1>16 DEF RepOnly

LEMMA PreparedPreserved ==
    ASSUME TypeOK, Alone, PreparedOnce, [Next]_vars
    PROVE  PreparedOnce'
<1>1. rep \in [Replicas -> Replica] /\ dep \in Deployment
    BY Zenon DEF TypeOK
<1>2. ASSUME UNCHANGED <<dep, pdd, rep>> PROVE PreparedOnce'
    BY Zenon, <1>2 DEF PreparedOnce, HeldIsLater, Unqueued
<1>3. ASSUME NEW r \in Replicas, HeldIsLater(rep[r])',
             dep'.status \in {"absent", "pending"} => Unqueued'
      PROVE  PreparedOnce'
    BY Zenon, <1>3 DEF PreparedOnce, Alone
<1>4. \A r \in Replicas : HeldIsLater(rep[r])
    BY Zenon DEF PreparedOnce
<1>5. ASSUME NEW r \in Replicas, RepOnly(r) PROVE PreparedOnce'
    <2>1. dep' = dep /\ Unqueued' = Unqueued
        BY Zenon, <1>5, RepOnlyType DEF Unqueued
    <2>. QED BY Zenon, <1>3, <1>5, <2>1, RepOnlyLater DEF PreparedOnce
<1>6. ASSUME NEW r \in Replicas, PrepareCanaryRollout(r) PROVE PreparedOnce'
    <2>1. Unqueued
        BY Zenon, <1>4, <1>6 DEF PrepareCanaryRollout, At, HeldIsLater
    <2>2. Unqueued'
        BY Zenon, <1>6, <2>1, PrepareSteps DEF Unqueued
    <2>3. rep'[r].pc \in {"persistCanary", "getCanary"}
        <3>1. Goto(r, "persistCanary") \/ Goto(r, "getCanary")
            BY Zenon, <1>6 DEF PrepareCanaryRollout
        <3>. QED BY <1>1, <3>1 DEF Goto, Replica
    <2>. QED BY Zenon, <1>3, <2>2, <2>3 DEF HeldIsLater, Beyond
<1>7. ASSUME NEW r \in Replicas, PersistCanary(r) \/ PersistGate(r) \/ PersistDeploying(r)
      PROVE  PreparedOnce'
    <2>1. rep[r].snap \in Deployment /\ HeldIsLater(rep[r])
        BY Zenon, <1>1, <1>4 DEF Replica
    <2>2. dep'.status \notin {"absent", "pending"}
        <3>1. [rep[r].snap EXCEPT !.status = "canary"].status = "canary"
            BY Zenon, <2>1 DEF Deployment
        <3>2. CASE PersistCanary(r)
            BY Zenon, <3>1, <3>2 DEF PersistCanary, Persist
        <3>3. CASE PersistGate(r) \/ PersistDeploying(r)
            <4>1. rep[r].snap.status \notin {"absent", "pending"}
                BY Zenon, <2>1, <3>3 DEF PersistGate, PersistDeploying, At, HeldIsLater, Beyond
            <4>. QED BY Zenon, <3>3, <4>1 DEF PersistGate, PersistDeploying, Persist
        <3>. QED BY Zenon, <1>7, <3>2, <3>3
    <2>3. \/ rep'[r].pc \in {"getDeploying", "idle"}
          \/ rep'[r].pc = "dispatch" /\ rep'[r].after = "getCanary"
          \/ rep'[r].pc = "dispatch" /\ rep'[r].snap.status \notin {"absent", "pending"}
        <3>1. CASE PersistCanary(r)
            BY Zenon, <1>1, <3>1 DEF PersistCanary, DispatchThen, Replica
        <3>2. CASE PersistGate(r)
            <4>1. CASE Goto(r, "getDeploying")
                BY Zenon, <1>1, <4>1 DEF Goto, Replica
            <4>2. CASE rep[r].snap.status = "deploying" /\ DispatchThen(r, "broad", "getDeploying")
                <5>1. rep'[r].pc = "dispatch" /\ rep'[r].snap = rep[r].snap
                    BY <1>1, <4>2 DEF DispatchThen, Replica
                <5>. QED BY Zenon, <4>2, <5>1
            <4>. QED BY Zenon, <3>2, <4>1, <4>2 DEF PersistGate
        <3>3. CASE PersistDeploying(r)
            BY Zenon, <1>1, <3>3 DEF PersistDeploying, Goto, Replica
        <3>. QED BY Zenon, <1>7, <3>1, <3>2, <3>3
    <2>4. HeldIsLater(rep[r])'
        BY Zenon, <2>2, <2>3 DEF HeldIsLater, Beyond
    <2>. QED BY Zenon, <1>3, <2>2, <2>4
<1>8. ASSUME NEW r \in Replicas, QueuePatchRolloutDevice(r) PROVE PreparedOnce'
    <2>1. PICK d \in rep[r].todo : rep' = [rep EXCEPT ![r].todo = @ \ {d}]
        BY Zenon, <1>8, QueueSteps
    <2>2. rep[r].pc = "queue" /\ dep' = dep
        BY Zenon, <1>8 DEF QueuePatchRolloutDevice, At
    <2>3. rep'[r].pc = rep[r].pc /\ rep'[r].snap = rep[r].snap /\ rep'[r].after = rep[r].after
        BY Zenon, <1>1, <2>1 DEF Replica
    <2>4. HeldIsLater(rep[r])
        BY Zenon, <1>4
    <2>. QED BY Zenon, <1>3, <2>2, <2>3, <2>4 DEF HeldIsLater, Beyond
<1>9. ASSUME NEW r \in Replicas, Restart(r) PROVE PreparedOnce'
    <2>1. rep' = [rep EXCEPT ![r] = [Starting EXCEPT !.knows = dep.status # "deleted"]]
          /\ dep' = dep /\ Unqueued' = Unqueued
        BY Zenon, <1>9 DEF Restart, Unqueued
    <2>2. rep'[r].pc = "starting"
        BY Zenon, <1>1, <2>1 DEF Starting
    <2>. QED BY <1>3, <2>1, <2>2 DEF HeldIsLater, Beyond, PreparedOnce
<1>10. ASSUME NEW r \in Replicas, DeletePolicy(r) PROVE PreparedOnce'
    <2>1. dep' = [dep EXCEPT !.status = "deleted"] /\ rep' = [rep EXCEPT ![r].knows = FALSE] /\ pdd' = pdd
        BY Zenon, <1>10 DEF DeletePolicy
    <2>2. dep'.status = "deleted" /\ Unqueued' = Unqueued
        BY Zenon, <1>1, <2>1 DEF Deployment, Unqueued
    <2>3. rep'[r].pc = rep[r].pc /\ rep'[r].snap = rep[r].snap /\ rep'[r].after = rep[r].after
        BY <1>1, <2>1 DEF Replica
    <2>4. HeldIsLater(rep[r])
        BY Zenon, <1>4
    <2>. QED BY Zenon, <1>3, <2>2, <2>3, <2>4 DEF HeldIsLater, Beyond
<1>11. CASE CreateDeployment
    <2>1. dep.status = "absent" /\ UNCHANGED <<pdd, rep>>
        BY Zenon, <1>11 DEF CreateDeployment
    <2>2. Unqueued'
        BY Zenon, <2>1 DEF PreparedOnce, Unqueued
    <2>3. ASSUME NEW r \in Replicas PROVE HeldIsLater(rep[r])'
        <3>1. HeldIsLater(rep[r])
            BY Zenon, <1>4
        <3>. QED BY Zenon, <2>1, <2>2, <3>1 DEF HeldIsLater
    <2>. QED BY Zenon, <2>2, <2>3 DEF PreparedOnce
<1>12. CASE WindowCloses \/ WindowOpens
    BY Zenon, <1>2, <1>12 DEF WindowCloses, WindowOpens
<1>13. ASSUME NEW r \in Replicas, NEW d \in Devices, HandlePatchInventory(r, d) PROVE PreparedOnce'
    BY Zenon, <1>2, <1>13 DEF HandlePatchInventory
<1>14. ASSUME NEW d \in Devices, DisableDevice(d) PROVE PreparedOnce'
    BY Zenon, <1>2, <1>14 DEF DisableDevice
<1>15. ASSUME NEW d \in Devices, NEW c \in Cycles, JobMoves(d, c) PROVE PreparedOnce'
    BY Zenon, <1>2, <1>15 DEF JobMoves
<1>16. CASE UNCHANGED vars
    BY Zenon, <1>2, <1>16 DEF vars
<1>. QED BY Zenon, <1>5, <1>6, <1>7, <1>8, <1>9, <1>10, <1>11, <1>12, <1>13, <1>14, <1>15, <1>16, JobSteps
         DEF Next, Scheduler, RepOnly

LEMMA SentInitially == ASSUME Sensible, Init PROVE SentIsConsumed
<1>1. AttemptCap \in Nat /\ AttemptCap >= 1
    BY Zenon, CapIsPositive
<1>. QED BY <1>1 DEF Init, SentIsConsumed, SentOf, NewRow

LEMMA SentPreserved ==
    ASSUME TypeOK, TypeOK', OldJobsAreDue, PreparedOnce, SentIsConsumed, [Next]_vars
    PROVE  SentIsConsumed'
<1>1. /\ pdd \in [Devices -> Row] /\ Sensible /\ jobs \in [Devices -> [Cycles -> Job]]
      /\ sent \in [Devices -> Nat] /\ rep \in [Replicas -> Replica]
    BY Zenon DEF TypeOK
<1>2. AttemptCap \in Nat /\ AttemptCap >= 1
    BY Zenon, <1>1, CapIsPositive
<1>3. \A d \in Devices : SentOf(d)
    BY Zenon DEF SentIsConsumed
<1>4. ASSUME UNCHANGED <<pdd, jobs, sent>> PROVE SentIsConsumed'
    BY Zenon, <1>4 DEF SentIsConsumed, SentOf
<1>5. ASSUME NEW r \in Replicas, PrepareCanaryRollout(r) PROVE SentIsConsumed'
    <2>1. Unqueued
        BY Zenon, <1>5 DEF PrepareCanaryRollout, At, HeldIsLater, PreparedOnce
    <2>2. sent' = sent /\ \A d \in Devices : pdd'[d].job = 0
        BY Zenon, <1>5, <2>1, PrepareSteps DEF Unqueued, PrepareCanaryRollout
    <2>3. \A d \in Devices : sent[d] = 0
        BY Zenon, <1>3, <2>1 DEF SentOf, Unqueued
    <2>. QED BY Zenon, <1>2, <2>2, <2>3 DEF SentIsConsumed, SentOf
<1>6. ASSUME NEW r \in Replicas, QueuePatchRolloutDevice(r) PROVE SentIsConsumed'
    <2>1. PICK d \in Devices : Queues(d) \/ UNCHANGED <<jobs, pdd>>
        BY Zenon, <1>6, QueueSteps
    <2>2. sent' = sent
        BY Zenon, <1>6 DEF QueuePatchRolloutDevice
    <2>3. CASE Queues(d)
        <3>. DEFINE n == NewJob(Consumed(d))
                    k == Consumed(d) + 1
        <3>1. /\ k \in Cycles /\ jobs' = [jobs EXCEPT ![d][k] = n]
              /\ \A e \in Devices : e # d => pdd'[e] = pdd[e]
              /\ pdd'[d].job = k /\ pdd'[d].attempts = k
            BY Zenon, <2>3 DEF Queues
        <3>2. Consumed(d) \in Nat /\ k # 0
            BY Zenon, <3>1, TargetType, CycleIsNotZero
        <3>3. n.max = AttemptCap - k /\ n.retry = 0
            BY <1>2, <3>2 DEF NewJob, NoJob
        <3>4. sent[d] \in Nat /\ SentOf(d)
            BY Zenon, <1>1, <1>3
        <3>5. sent[d] <= Consumed(d)
            <4>1. CASE pdd[d].job = 0
                BY <3>2, <3>4, <4>1 DEF SentOf
            <4>2. CASE pdd[d].job # 0
                BY Zenon, <3>4, <4>2 DEF SentOf, Consumed, Target
            <4>. QED BY Zenon, <4>1, <4>2
        <3>6. sent[d] < k + n.retry
            BY <3>2, <3>3, <3>4, <3>5
        <3>. HIDE DEF n, k
        <3>7. jobs'[d][k] = n /\ \A e \in Devices : e # d => jobs'[e] = jobs[e]
            BY Zenon, <1>1, <3>1
        <3>8. SentOf(d)'
            <4>1. k \in Int /\ n.retry = 0
                BY <3>1, <3>3 DEF Cycles
            <4>. QED BY <2>2, <3>1, <3>2, <3>3, <3>4, <3>6, <3>7, <4>1 DEF SentOf
        <3>9. ASSUME NEW e \in Devices, e # d PROVE SentOf(e)'
            <4>1. SentOf(e)
                BY Zenon, <1>3
            <4>. QED BY Zenon, <2>2, <3>1, <3>7, <3>9, <4>1 DEF SentOf
        <3>. QED BY Zenon, <3>8, <3>9 DEF SentIsConsumed
    <2>. QED BY Zenon, <1>4, <2>1, <2>2, <2>3
<1>7. ASSUME NEW d \in Devices, NEW c \in Cycles, JobMoves(d, c) PROVE SentIsConsumed'
    <2>. DEFINE j == jobs[d][c]
                n == jobs'[d][c]
    <2>1. pdd' = pdd /\ \A e \in Devices, k \in Cycles : e # d \/ k # c => jobs'[e][k] = jobs[e][k]
        BY <1>1, <1>7 DEF JobMoves
    <2>2. j \in Job /\ n \in Job /\ sent[d] \in Nat /\ c \in Nat
        <3>1. jobs' \in [Devices -> [Cycles -> Job]]
            BY Zenon DEF TypeOK
        <3>2. c \in Nat
            BY <1>2 DEF Cycles
        <3>. QED BY Zenon, <1>1, <3>1, <3>2
    <2>3. /\ n.max = j.max /\ n.retry >= j.retry /\ j.status # "none"
          /\ \/ /\ sent' = [sent EXCEPT ![d] = @ + 1]
                /\ j.status = "queued" /\ ~j.due /\ j.retry <= j.max
                /\ n.status = "sent"
             \/ /\ UNCHANGED sent
                /\ n.status = "queued" => j.status = "queued" \/ n.retry > j.retry
        BY Zenon, <1>7 DEF JobMoves
    <2>4. j.retry \in Nat /\ n.retry \in Nat /\ j.max \in Int
        BY <1>2, <2>2 DEF Job
    <2>5. c # pdd[d].job => j.due
        BY Zenon, <2>3 DEF OldJobsAreDue
    <2>6. c # 0
        BY Zenon, CycleIsNotZero
    <2>7. pdd[d].job = c =>
              /\ pdd[d].attempts = c /\ j.max = AttemptCap - c
              /\ sent[d] <= c + j.retry /\ sent[d] <= AttemptCap
              /\ j.status = "queued" => sent[d] < c + j.retry
        BY Zenon, <1>3, <2>6 DEF SentOf
    <2>8. ASSUME NEW e \in Devices, e # d PROVE SentOf(e)'
        <3>1. sent'[e] = sent[e] /\ SentOf(e)
            BY Zenon, <1>1, <1>3, <2>3, <2>8
        <3>2. pdd[e].job # 0 => jobs'[e][pdd[e].job] = jobs[e][pdd[e].job]
            BY Zenon, <1>1, <2>1, <2>8 DEF Row
        <3>. QED BY Zenon, <2>1, <3>1, <3>2 DEF SentOf
    <2>9. CASE pdd[d].job # c
        <3>1. sent'[d] = sent[d] /\ SentOf(d)
            BY Zenon, <1>3, <2>3, <2>5, <2>9
        <3>2. pdd[d].job # 0 => jobs'[d][pdd[d].job] = jobs[d][pdd[d].job]
            BY Zenon, <1>1, <2>1, <2>9 DEF Row
        <3>3. SentOf(d)'
            BY Zenon, <2>1, <3>1, <3>2 DEF SentOf
        <3>. QED BY Zenon, <2>8, <3>3 DEF SentIsConsumed
    <2>10. CASE pdd[d].job = c
        <3>. HIDE DEF j, n
        <3>1. ASSUME sent'[d] = sent[d] + 1, j.status = "queued", j.retry <= j.max, n.status = "sent"
              PROVE  SentOf(d)'
            <4>1. sent'[d] <= c + j.retry /\ sent'[d] <= AttemptCap
                BY <1>2, <2>2, <2>4, <2>7, <2>10, <3>1
            <4>2. sent'[d] <= c + n.retry
                BY <2>2, <2>3, <2>4, <3>1, <4>1
            <4>. QED BY Zenon, <2>1, <2>3, <2>6, <2>7, <2>10, <3>1, <4>1, <4>2 DEF SentOf, n
        <3>2. ASSUME sent'[d] = sent[d], n.status = "queued" => j.status = "queued" \/ n.retry > j.retry
              PROVE  SentOf(d)'
            <4>1. sent[d] <= c + n.retry
                BY <2>2, <2>3, <2>4, <2>7, <2>10
            <4>2. n.status = "queued" => sent[d] < c + n.retry
                BY <2>2, <2>3, <2>4, <2>7, <2>10, <3>2
            <4>. QED BY Zenon, <2>1, <2>3, <2>6, <2>7, <2>10, <3>2, <4>1, <4>2 DEF SentOf, n
        <3>3. SentOf(d)'
            BY Zenon, <1>1, <2>3, <3>1, <3>2
        <3>. QED BY Zenon, <2>8, <3>3 DEF SentIsConsumed
    <2>. QED BY Zenon, <2>9, <2>10
<1>8. CASE WindowCloses
    <2>1. pdd' = pdd /\ sent' = sent
        BY Zenon, <1>8 DEF WindowCloses
    <2>2. ASSUME NEW d \in Devices, NEW c \in Cycles
          PROVE  /\ jobs'[d][c].status = jobs[d][c].status /\ jobs'[d][c].retry = jobs[d][c].retry
                 /\ jobs'[d][c].max = jobs[d][c].max
        <3>1. jobs[d][c] \in Job
            BY Zenon, <1>1
        <3>2. jobs'[d][c] = [jobs[d][c] EXCEPT !.due = jobs[d][c].status # "none"]
            BY Zenon, <1>8 DEF WindowCloses
        <3>. QED BY Zenon, <3>1, <3>2 DEF Job
    <2>3. ASSUME NEW d \in Devices PROVE SentOf(d)'
        <3>1. SentOf(d) /\ (pdd[d].job = 0 \/ pdd[d].job \in Cycles)
            BY Zenon, <1>1, <1>3 DEF Row
        <3>. QED BY Zenon, <2>1, <2>2, <3>1 DEF SentOf
    <2>. QED BY Zenon, <2>3 DEF SentIsConsumed
<1>9. CASE CreateDeployment \/ WindowOpens
    BY Zenon, <1>4, <1>9 DEF CreateDeployment, WindowOpens
<1>10. ASSUME NEW r \in Replicas, RepOnly(r) PROVE SentIsConsumed'
    BY Zenon, <1>4, <1>10, RepOnlyType
<1>11. ASSUME NEW r \in Replicas,
              PersistCanary(r) \/ PersistGate(r) \/ PersistDeploying(r) \/ Restart(r) \/ DeletePolicy(r)
       PROVE  SentIsConsumed'
    BY Zenon, <1>4, <1>11 DEF PersistCanary, PersistGate, PersistDeploying, Restart, DeletePolicy
<1>12. ASSUME NEW r \in Replicas, NEW d \in Devices, HandlePatchInventory(r, d) PROVE SentIsConsumed'
    BY Zenon, <1>4, <1>12 DEF HandlePatchInventory
<1>13. ASSUME NEW d \in Devices, DisableDevice(d) PROVE SentIsConsumed'
    BY Zenon, <1>4, <1>13 DEF DisableDevice
<1>14. CASE UNCHANGED vars
    BY Zenon, <1>4, <1>14 DEF vars
<1>. QED BY Zenon, <1>5, <1>6, <1>7, <1>8, <1>9, <1>10, <1>11, <1>12, <1>13, <1>14, JobSteps
         DEF Next, Scheduler, RepOnly

--------------------------------------------------------------------------------

RolloutInv == TypeOK /\ OldJobsAreDue /\ RolloutIsEarned

\* For any number of replicas: what a replica read, holds and will write back with
\* UpdateDeployment was earned by the devices' rows, and only the last job of a
\* device is not yet due.  The next three theorems follow from it.
THEOREM RolloutInvariance == Sensible => (Spec => []RolloutInv)
<1>. SUFFICES ASSUME Sensible PROVE Spec => []RolloutInv
    BY Zenon
<1>1. ASSUME Init PROVE TypeOK
    <2>1. AttemptCap \in Nat /\ AttemptCap >= 1
        BY Zenon, CapIsPositive
    <2>2. NoDeployment \in Deployment
        BY DEF NoDeployment, Deployment, Sensible
    <2>3. NewRow \in Row /\ NoJob \in Job
        BY <2>1 DEF NewRow, Row, NoJob, Job
    <2>4. ASSUME NEW k \in BOOLEAN PROVE [Starting EXCEPT !.knows = k] \in Replica
        BY Zenon, <2>2 DEF Starting, Replica, Steps, Afters
    <2>5. rep \in [Replicas -> Replica]
        BY <1>1, <2>4, Zenon DEF Init
    <2>6. open \in BOOLEAN
        BY Zenon, <1>1 DEF Init, Sensible
    <2>7. hand \in 0 .. MaxInterventions /\ crashes \in 0 .. MaxCrashes
        BY <1>1 DEF Init, Sensible
    <2>. QED BY Zenon, <1>1, <2>2, <2>3, <2>5, <2>6, <2>7 DEF Init, TypeOK
<1>2. Init => RolloutInv
    BY Zenon, <1>1, OldJobsInitially, RolloutInitially DEF RolloutInv
<1>3. RolloutInv /\ [Next]_vars => RolloutInv'
    BY Zenon, TypePreserved, OldJobsPreserved, RolloutPreserved DEF RolloutInv
<1>. QED BY <1>2, <1>3, PTL DEF Spec

\* Of all the jobs that a device got over the maintenance windows, by any number of
\* replicas with stale lists, at most one may still be sent (QueuePatchRolloutDevice).
THEOREM OneJobRuns == Sensible => (Spec => []OneRunnableJob)
<1>. SUFFICES ASSUME Sensible PROVE Spec => []OneRunnableJob
    BY Zenon
<1>1. RolloutInv => OneRunnableJob
    BY Zenon, OldJobsSuffice DEF RolloutInv
<1>. QED BY <1>1, RolloutInvariance, PTL

\* No broad device has a job unless enough of the canaries succeeded, whichever
\* replicas decided that and on whatever they had read (advanceCanaryDeployment).
THEOREM CanariesGoFirst == Sensible => (Spec => []CanaryFirst)
<1>. SUFFICES ASSUME Sensible PROVE Spec => []CanaryFirst
    BY Zenon
<1>1. RolloutInv => CanaryFirst
    BY Zenon, RolloutSuffices DEF RolloutInv
<1>. QED BY <1>1, RolloutInvariance, PTL

\* A deployment that says completed has a success of every device for its last job
\* (advanceDeployingDeployment), although UpdateDeployment writes back a row that
\* was read long before.
THEOREM CompletionIsReal == Sensible => (Spec => []CompletedIsReal)
<1>. SUFFICES ASSUME Sensible PROVE Spec => []CompletedIsReal
    BY Zenon
<1>1. RolloutInv => CompletedIsReal
    BY Zenon, RolloutSuffices DEF RolloutInv
<1>. QED BY <1>1, RolloutInvariance, PTL

\* With one replica no device is sent its patch more often than the policy allows,
\* over all windows, timeouts and retries by hand (remainingRetries).  With two a
\* stale PrepareCanaryRollout may reset the attempts that are counted.
THEOREM BudgetIsKept == Sensible /\ Alone => (Spec => []PatchBudget)
<1>. SUFFICES ASSUME Sensible, Alone PROVE Spec => []PatchBudget
    BY Zenon
<1>. DEFINE I == RolloutInv /\ PreparedOnce /\ SentIsConsumed
<1>1. Init => PreparedOnce /\ SentIsConsumed
    BY Zenon, PreparedInitially, SentInitially
<1>2. I /\ RolloutInv' /\ [Next]_vars => I'
    BY Zenon, PreparedPreserved, SentPreserved DEF RolloutInv
<1>3. I => PatchBudget
    BY Zenon DEF SentIsConsumed, SentOf, PatchBudget
<1>. QED BY <1>1, <1>2, <1>3, RolloutInvariance, PTL DEF Spec
================================================================================
