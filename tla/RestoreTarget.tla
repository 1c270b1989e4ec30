---------------------------- MODULE RestoreTarget ----------------------------
(***************************************************************************)
(* The restore command (runRestore in cmd/orchestrator/recovery.go and     *)
(* Engine.Restore in pkg/backup/engine.go) on one recovery target: a       *)
(* PostgreSQL database, a NATS account and an object store that no lock    *)
(* and no transaction spans.  A command may fail or die at every step and  *)
(* an operator may recreate the database alone and start another one.      *)
(***************************************************************************)
EXTENDS Naturals, Sequences, FiniteSets, SequencesExt

CONSTANTS Restores,  \* restore commands
          Sets,      \* backup sets with a manifest
          Messages,  \* messages of each set's archived stream
          None

VARIABLES
    damaged,   \* sets with an artifact that no longer matches its digest
    tables,    \* rows in the target database: None, "partial" or a set's
    stream,    \* messages in the target stream
    objects,   \* objects in the target store
    lock,      \* command that holds the target's advisory lock
    pc,        \* restore commands
    from,      \* the set each command was given
    restored   \* commands that reported success

vars == <<damaged, tables, stream, objects, lock, pc, from, restored>>

\* What the artifacts of a set hold: ordered messages and one object.
Archived(o) == [i \in 1 .. Messages |-> <<o, i>>]
Stored(o) == {<<o, "object">>}

Init ==
    /\ damaged = {} /\ tables = None /\ stream = <<>> /\ objects = {} /\ lock = None
    /\ pc = [r \in Restores |-> "idle"] /\ from = [r \in Restores |-> None] /\ restored = {}

At(r, here, next) == pc[r] = here /\ pc' = [pc EXCEPT ![r] = next]

\* Storage damages an artifact.
Damage(o) ==
    /\ o \notin damaged /\ damaged' = damaged \cup {o}
    /\ UNCHANGED <<tables, stream, objects, lock, pc, from, restored>>

\* ensureDistinctPostgresTargets: the target is another database without tables.
DistinctPostgresTargets == tables = None

\* runRestore builds its runtime, which refuses a target that is not empty.
CheckTarget(r, o) ==
    /\ At(r, "idle", "checked") /\ DistinctPostgresTargets
    /\ from' = [from EXCEPT ![r] = o]
    /\ UNCHANGED <<damaged, tables, stream, objects, lock, restored>>

\* readComponent: an artifact matches the digests of the manifest and decrypts.
Authentic(o) == o \notin damaged

\* Every component is read and verified before anything is locked.
ReadComponents(r) ==
    /\ At(r, "checked", IF Authentic(from[r]) THEN "verified" ELSE "end")
    /\ UNCHANGED <<damaged, tables, stream, objects, lock, from, restored>>

LockTarget(r) ==
    /\ At(r, "verified", "locked") /\ lock = None
    /\ lock' = r
    /\ UNCHANGED <<damaged, tables, stream, objects, from, restored>>

\* Faulty: pg_restore goes on after an error.
RestoreDatabaseGoesOn(r) ==
    /\ At(r, "locked", "database")
    /\ tables' \in IF tables = None THEN {from[r], "partial"} ELSE {tables}
    /\ UNCHANGED <<damaged, stream, objects, lock, from, restored>>

\* pg_restore --exit-on-error stops where a table exists and at the first error;
\* then the restored gate row is opened.
RestoreDatabase(r) ==
    /\ \/ At(r, "locked", "database") /\ tables = None /\ tables' = from[r]
       \/ At(r, "locked", "release") /\ tables = None /\ tables' \in {None, "partial"}
       \/ At(r, "locked", "release") /\ tables # None /\ UNCHANGED tables
    /\ UNCHANGED <<damaged, stream, objects, lock, from, restored>>

\* Faulty: the archive is published whatever the stream holds.
RestoreStreamsBlindly(r) ==
    /\ At(r, "database", "streams")
    /\ stream' = stream \o Archived(from[r])
    /\ UNCHANGED <<damaged, tables, objects, lock, from, restored>>

\* streamMatches: the stream holds exactly the archived messages, in order.
StreamMatches(o) == stream = Archived(o)

\* JetStreamRecovery.Restore: an empty stream is filled message by message; one
\* with messages must hold exactly the archived ones.
RestoreStreams(r) ==
    LET archive == Archived(from[r]) IN
    /\ \/ /\ At(r, "database", "streams") /\ (stream = <<>> \/ StreamMatches(from[r]))
          /\ stream' = archive
       \/ /\ At(r, "database", "release") /\ stream = <<>>
          /\ \E n \in 0 .. Messages : stream' = SubSeq(archive, 1, n)
       \/ /\ At(r, "database", "release") /\ stream # <<>> /\ ~ StreamMatches(from[r])
          /\ UNCHANGED stream
    /\ UNCHANGED <<damaged, tables, objects, lock, from, restored>>

\* ObjectStorageRecovery.Restore uploads over what is there; Verify follows, and
\* with it the command has succeeded.
RestoreObjects(r) ==
    /\ At(r, "streams", "release")
    /\ \/ objects' = objects \cup Stored(from[r]) /\ restored' = restored \cup {r}
       \/ objects' \in {objects, objects \cup Stored(from[r])} /\ UNCHANGED restored
    /\ UNCHANGED <<damaged, tables, stream, lock, from>>

UnlockTarget(r) ==
    /\ At(r, "release", "end")
    /\ lock' = None
    /\ UNCHANGED <<damaged, tables, stream, objects, from, restored>>

\* The command dies.  PostgreSQL drops its lock; what pg_restore, the publisher
\* or the uploader had done stays.
Dies(r) ==
    /\ pc[r] \notin {"idle", "end"}
    /\ pc' = [pc EXCEPT ![r] = "end"]
    /\ lock' = IF lock = r THEN None ELSE lock
    /\ tables' \in {tables} \cup IF pc[r] = "locked" /\ tables = None THEN {"partial"} ELSE {}
    /\ stream' \in {stream} \cup
           IF pc[r] = "database" /\ stream = <<>>
           THEN {SubSeq(Archived(from[r]), 1, n) : n \in 0 .. Messages} ELSE {}
    /\ UNCHANGED <<damaged, objects, from, restored>>

\* An operator recreates the target database, and gives up what was restored.
RecreateDatabase ==
    /\ lock = None /\ tables # None
    /\ tables' = None /\ restored' = {}
    /\ UNCHANGED <<damaged, stream, objects, lock, pc, from>>

Step(r) ==
    \/ \E o \in Sets : CheckTarget(r, o)
    \/ ReadComponents(r) \/ LockTarget(r) \/ RestoreDatabase(r) \/ RestoreStreams(r)
    \/ RestoreObjects(r) \/ UnlockTarget(r) \/ Dies(r)

Next == (\E r \in Restores : Step(r)) \/ (\E o \in Sets : Damage(o)) \/ RecreateDatabase

Spec == Init /\ [][Next]_vars

TypeOK ==
    /\ damaged \subseteq Sets /\ tables \in Sets \cup {None, "partial"}
    /\ stream \in Seq(Sets \X (1 .. Messages)) /\ objects \subseteq UNION {Stored(o) : o \in Sets}
    /\ lock \in Restores \cup {None} /\ from \in [Restores -> Sets \cup {None}]
    /\ restored \subseteq Restores

-----------------------------------------------------------------------------

\* A restore that reported success has left exactly its set's rows and messages,
\* in order, and its objects in the target, whatever failed restore ran before
\* it or ran beside it.
RestoreIsExact ==
    \A r \in restored : /\ tables = from[r]
                        /\ stream = Archived(from[r])
                        /\ Stored(from[r]) \subseteq objects

=============================================================================
