---------------------------- MODULE BackupSet ----------------------------
(***************************************************************************)
(* The backup command (Engine.Backup in pkg/backup) and the writers it     *)
(* must hold still: the recovery gate of the API                           *)
(* (internal/platform/recovery_gate.go) and of the dispatcher, and the     *)
(* triggers of migration 65.                                               *)
(*                                                                         *)
(* A backup holds the exclusive session advisory lock and closes the gate  *)
(* row.  API transactions and dispatcher passes hold the lock shared.  A   *)
(* trigger lets a statement write only while it can hold the lock shared   *)
(* and the gate is open.  Uploads and JetStream are not gated.             *)
(***************************************************************************)
EXTENDS Naturals, Sequences, FiniteSets, FiniteSetsExt, SequencesExt

CONSTANTS Jobs,        \* jobs that API requests create
          Reports,     \* scheduled reports: an object and a row each
          Ops,         \* backup commands, each one process
          Expiry,      \* may messages age out of a stream (MaxAge, 7 days)?
          MaxResults,  \* bound on the messages of the results stream
          None

VARIABLES
    db,         \* rows: <<"job", j>>, <<"sent", j>>, <<"done", j>>, <<"report", p>>
    objects,    \* uploaded report objects
    cmds,       \* commands in the command stream
    results,    \* the results stream, as published since it was created
    first,      \* sequence of its oldest retained message
    floor,      \* ack floor of its durable consumer
    req,        \* API request that creates a job
    pass,       \* the dispatcher's pass: "idle" or the job it is publishing
    lock,       \* the operation that holds the exclusive advisory lock
    gate,       \* operation_id of the closed gate row, None when it is open
    op,         \* backup commands: program counter
    set,        \* what each backup command captured
    finalized   \* backup sets with a readable manifest

source == <<db, objects, cmds, results, first, floor, req, pass>>
control == <<lock, gate, op, set, finalized>>
vars == <<source, control>>

Rows == ({"job", "sent", "done"} \X Jobs) \cup ({"report"} \X Reports)
Empty == [db |-> {}, objects |-> {}, cmds |-> {}, results |-> <<>>, first |-> 1, floor |-> 0]

Init ==
    /\ db = {} /\ objects = {} /\ cmds = {} /\ results = <<>> /\ first = 1 /\ floor = 0
    /\ req = [j \in Jobs |-> "idle"] /\ pass = None
    /\ lock = None /\ gate = None
    /\ op = [o \in Ops |-> "idle"] /\ set = [o \in Ops |-> Empty] /\ finalized = {}

-----------------------------------------------------------------------------
\* The writers of the source.

\* A session or transaction that holds the advisory lock shared.
SharedHeld == pass # None \/ \E j \in Jobs : req[j] \in {"inside", "wrote"}

\* pg_try_advisory_lock_shared succeeds.
TryShared == lock = None

\* Faulty: the trigger does not look at the gate row.
TriggerOnlyLock == TryShared

\* enforce_recovery_mutation_gate lets a statement write.
TriggerAllows == TryShared /\ gate = None

\* withRecoveryGate: take the lock shared, then read the gate row.
BeginRequest(j) ==
    /\ req[j] = "idle" /\ TryShared /\ gate = None
    /\ req' = [req EXCEPT ![j] = "inside"]
    /\ UNCHANGED <<db, objects, cmds, results, first, floor, pass, control>>

\* The handler's first statement; its trigger holds the lock until the commit.
WriteRequest(j) ==
    /\ req[j] = "inside" /\ TriggerAllows
    /\ req' = [req EXCEPT ![j] = "wrote"]
    /\ UNCHANGED <<db, objects, cmds, results, first, floor, pass, control>>

\* withTenantTransaction commits after withRecoveryGate has released its lock.
CommitRequest(j) ==
    /\ req[j] = "wrote"
    /\ req' = [req EXCEPT ![j] = "end"]
    /\ db' = db \cup {<<"job", j>>}
    /\ UNCHANGED <<objects, cmds, results, first, floor, pass, control>>

\* withRecoveryReadLock, and the pass's claim of an outbox row.
BeginPass(j) ==
    /\ pass = None /\ TriggerAllows
    /\ <<"job", j>> \in db /\ <<"sent", j>> \notin db
    /\ pass' = j
    /\ UNCHANGED <<db, objects, cmds, results, first, floor, req, control>>

Publish ==
    /\ pass # None /\ pass \notin cmds
    /\ cmds' = cmds \cup {pass}
    /\ UNCHANGED <<db, objects, results, first, floor, req, pass, control>>

MarkSent ==
    /\ pass # None /\ pass \in cmds /\ TriggerAllows
    /\ db' = db \cup {<<"sent", pass>>} /\ pass' = None
    /\ UNCHANGED <<objects, cmds, results, first, floor, req, control>>

\* The dispatcher's process dies in the pass; its session's lock goes with it.
PassDies ==
    /\ pass # None /\ pass' = None
    /\ UNCHANGED <<db, objects, cmds, results, first, floor, req, control>>

\* An agent publishes a result.  Nothing gates it.
AgentReports(j) ==
    /\ j \in cmds /\ Len(results) < MaxResults
    /\ results' = Append(results, j)
    /\ UNCHANGED <<db, objects, cmds, first, floor, req, pass, control>>

Expire ==
    /\ Expiry /\ first <= Len(results)
    /\ first' = first + 1
    /\ UNCHANGED <<db, objects, cmds, results, floor, req, pass, control>>

\* The message the durable consumer has next.
NextSeq == Max({floor + 1, first})

\* The result callback writes its row, or the trigger refuses and it is not acked.
ApplyResult ==
    /\ NextSeq <= Len(results) /\ TriggerAllows
    /\ db' = db \cup {<<"done", results[NextSeq]>>}
    /\ UNCHANGED <<objects, cmds, results, first, floor, req, pass, control>>

AckResult ==
    /\ NextSeq <= Len(results) /\ <<"done", results[NextSeq]>> \in db
    /\ floor' = NextSeq
    /\ UNCHANGED <<db, objects, cmds, results, first, req, pass, control>>

\* ReportEngine: upload the object, then insert the row that names it.
UploadReport(p) ==
    /\ p \notin objects
    /\ objects' = objects \cup {p}
    /\ UNCHANGED <<db, cmds, results, first, floor, req, pass, control>>

RecordReport(p) ==
    /\ p \in objects /\ TriggerAllows
    /\ db' = db \cup {<<"report", p>>}
    /\ UNCHANGED <<objects, cmds, results, first, floor, req, pass, control>>

-----------------------------------------------------------------------------
\* The backup command (Engine.Backup).

At(o, from_, to) == op[o] = from_ /\ op' = [op EXCEPT ![o] = to]

\* Acquire polls pg_try_advisory_lock until no session holds the lock.
AcquireLock(o) ==
    /\ At(o, "idle", "locked") /\ lock = None /\ ~ SharedHeld
    /\ lock' = o
    /\ UNCHANGED <<source, gate, set, finalized>>

\* Faulty: Quiesce takes the gate over from another operation.
QuiesceOver(o) ==
    /\ At(o, "locked", "quiesced")
    /\ gate' = o
    /\ UNCHANGED <<source, lock, set, finalized>>

\* Quiesce updates the gate row if it is open or this operation's own.
Quiesce(o) ==
    /\ At(o, "locked", "quiesced") /\ gate \in {None, o}
    /\ gate' = o
    /\ UNCHANGED <<source, lock, set, finalized>>

QuiesceFails(o) ==
    /\ At(o, "locked", "release")
    /\ UNCHANGED <<source, lock, gate, set, finalized>>

\* pg_dump, then the streams, then the objects; each is written and finalized.
CaptureDatabase(o) ==
    /\ At(o, "quiesced", "database")
    /\ set' = [set EXCEPT ![o].db = db]
    /\ UNCHANGED <<source, lock, gate, finalized>>

CaptureStreams(o) ==
    /\ At(o, "database", "streams")
    /\ set' = [set EXCEPT ![o].cmds = cmds, ![o].results = results,
                          ![o].first = first, ![o].floor = floor]
    /\ UNCHANGED <<source, lock, gate, finalized>>

CaptureObjects(o) ==
    /\ At(o, "streams", "objects")
    /\ set' = [set EXCEPT ![o].objects = objects]
    /\ UNCHANGED <<source, lock, gate, finalized>>

\* FinalizeBackupSet writes the manifest; without one the set cannot be read.
Finalize(o) ==
    /\ At(o, "objects", "resume")
    /\ finalized' = finalized \cup {o}
    /\ UNCHANGED <<source, lock, gate, set>>

\* A dump, an upload or the operation's timeout fails; the deferred calls follow.
\* Without a manifest no one reads what was written.
CaptureFails(o) ==
    /\ op[o] \in {"quiesced", "database", "streams", "objects"}
    /\ op' = [op EXCEPT ![o] = "resume"]
    /\ set' = [set EXCEPT ![o] = Empty]
    /\ UNCHANGED <<source, lock, gate, finalized>>

\* Resume opens the gate row if this operation closed it, or fails in 5 s.
Resume(o) ==
    /\ At(o, "resume", "release")
    /\ gate' \in {gate, IF gate = o THEN None ELSE gate}
    /\ UNCHANGED <<source, lock, set, finalized>>

ReleaseLock(o) ==
    /\ At(o, "release", "end")
    /\ lock' = IF lock = o THEN None ELSE lock
    /\ UNCHANGED <<source, gate, set, finalized>>

\* The pinned connection is lost once the gate is closed, and the command goes on
\* without its lock.  (Nothing re-checks the lock; a loss between Acquire and
\* Quiesce, while transactions may still start, is left out.)
LoseLock(o) ==
    /\ lock = o /\ op[o] \notin {"idle", "locked", "end", "dead"}
    /\ lock' = None
    /\ UNCHANGED <<source, gate, op, set, finalized>>

\* The command dies: PostgreSQL drops its lock, the gate row stays as it is.
BackupDies(o) ==
    /\ op[o] \notin {"idle", "end", "dead"}
    /\ op' = [op EXCEPT ![o] = "dead"]
    /\ lock' = IF lock = o THEN None ELSE lock
    /\ set' = IF o \in finalized THEN set ELSE [set EXCEPT ![o] = Empty]
    /\ UNCHANGED <<source, gate, finalized>>

-----------------------------------------------------------------------------

Write ==
    \/ \E j \in Jobs : BeginRequest(j) \/ WriteRequest(j) \/ CommitRequest(j) \/ BeginPass(j)
                       \/ AgentReports(j)
    \/ Publish \/ MarkSent \/ PassDies \/ Expire \/ ApplyResult \/ AckResult
    \/ \E p \in Reports : UploadReport(p) \/ RecordReport(p)

Backup(o) ==
    \/ AcquireLock(o) \/ Quiesce(o) \/ QuiesceFails(o)
    \/ CaptureDatabase(o) \/ CaptureStreams(o) \/ CaptureObjects(o) \/ CaptureFails(o)
    \/ Finalize(o) \/ Resume(o) \/ ReleaseLock(o) \/ LoseLock(o) \/ BackupDies(o)

Next == Write \/ \E o \in Ops : Backup(o)

Spec == Init /\ [][Next]_vars

-----------------------------------------------------------------------------

TypeOK ==
    /\ db \subseteq Rows /\ objects \subseteq Reports /\ cmds \subseteq Jobs
    /\ results \in SeqOf(Jobs, MaxResults) /\ first \in 1 .. MaxResults + 1
    /\ floor \in 0 .. MaxResults
    /\ req \in [Jobs -> {"idle", "inside", "wrote", "end"}] /\ pass \in Jobs \cup {None}
    /\ lock \in Ops \cup {None} /\ gate \in Ops \cup {None}
    /\ finalized \subseteq Ops

\* The operation is between Quiesce and its manifest.
Capturing(o) == op[o] \in {"quiesced", "database", "streams", "objects"}

\* The messages a set's stream retains.
Retained(s) == SubSeq(s.results, s.first, Len(s.results))

\* Faulty: the archived consumer is started one message late.
RedeliveredLate(s) == {Retained(s)[i] : i \in s.floor + 2 .. Len(Retained(s))}

\* What a consumer restored from the set s is given: AddConsumer starts it at
\* the archived ack floor + 1, and the target numbers its messages from 1.
Redelivered(s) == {Retained(s)[i] : i \in s.floor + 1 .. Len(Retained(s))}

\* A finalized set restores a system that hangs together, although its parts
\* are captured one after the other: every command in its stream has its job,
\* every job marked as sent has its command, and every report row its object.
SetIsConsistent ==
    \A o \in finalized :
        LET s == set[o] IN
        /\ \A j \in s.cmds : <<"job", j>> \in s.db
        /\ \A j \in Jobs : <<"sent", j>> \in s.db => j \in s.cmds
        /\ \A p \in Reports : <<"report", p>> \in s.db => p \in s.objects

\* No result is lost by a restore: each one the set's stream retains is in its
\* database or is delivered again to the restored consumer.
ConsumerProgress ==
    \A o \in finalized : \A j \in Range(Retained(set[o])) :
        <<"done", j>> \in set[o].db \/ j \in Redelivered(set[o])

\* While an operation captures, no row changes, even when the operation has lost
\* its advisory lock or another backup command is started.
CaptureBroken == (\E o \in Ops : Capturing(o) /\ Capturing(o)') /\ db' # db

=============================================================================
