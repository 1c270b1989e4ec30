--------------------------- MODULE SchemaVersions ---------------------------
(***************************************************************************)
(* The schema commands of the orchestrator binary, "upgrade" and           *)
(* "rollback", beside processes that start and apply the migrations.       *)
(*                                                                         *)
(* Apply, RunUpgrade and RunRollback take three different advisory locks.   *)
(* Apply commits a migration and its ledger row together; a rollback runs   *)
(* the Down statements and deletes the row in two statements of its lock    *)
(* connection, newest of the list first.  The version is the greatest id    *)
(* of the ledger, read and kept before the lock is taken.  The list is not  *)
(* in the order of the ids: migration 73 stands after 24.                   *)
(***************************************************************************)
EXTENDS Naturals, Sequences, FiniteSets, SequencesExt

CONSTANTS List,        \* ids in the order of Migrations()
          Retained,    \* ids whose Down leaves everything in place
          Servers,     \* processes that start and apply
          Commands,    \* upgrade and rollback processes
          Overlap,     \* may a server start while a command runs?
          MaxCommands, \* commands begun
          MaxStops,    \* interruptions considered
          None

VARIABLES objects,    \* ids whose Up is in effect in the catalogue
          ledger,     \* ids in schema_migrations
          marker,     \* value of key 'version' in schema_version_store
          checksums,  \* versions with a checksum row
          lock,       \* holder of each advisory lock
          proc,       \* what each process is doing
          begun,
          stops

vars == <<objects, ledger, marker, checksums, lock, proc, begun, stops>>

Ids == ToSet(List)
Processes == Servers \cup Commands
MaxID == Last(List)
Idle == [pc |-> "off", kind |-> "apply", from |-> 0, to |-> 0, snap |-> None, next |-> 0]

LockID(kind) == IF kind = "dry_run" THEN "rollback" ELSE kind

Init ==
  /\ objects = {} /\ ledger = {} /\ marker = None /\ checksums = {}
  /\ lock = [k \in {"apply", "upgrade", "rollback"} |-> None]
  /\ proc = [p \in Processes |-> Idle]
  /\ begun = 0 /\ stops = 0

Goes(p, pc) == proc' = [proc EXCEPT ![p].pc = pc]

(* The process ends, and with its session every lock the session held.       *)
Ends(p) ==
  /\ proc' = [proc EXCEPT ![p] = Idle]
  /\ lock' = [k \in DOMAIN lock |-> IF lock[k] = p THEN None ELSE lock[k]]
Stored == <<marker, checksums>>

Newest(S) == CHOOSE v \in S \cup {0} : \A w \in S : w <= v

(* Faulty: the marker of the version store is believed.                      *)
VersionOfMarker == IF marker = None THEN Newest(ledger) ELSE marker

(* GetVersion: the ledger is authoritative, the marker is only compared.     *)
Version == Newest(ledger)

(* MigrationChecksum stops at the first migration of the list whose id is    *)
(* greater, so it knows only the versions no greater id stands before.       *)
HasChecksum(v) ==
  v = 0 \/ \E i \in DOMAIN List : List[i] = v /\ \A j \in 1..i : List[j] <= v

-----------------------------------------------------------------------------
(* A server starts: SchemaManager.Apply, one migration at a time.            *)

Quiet(S) == Overlap \/ \A p \in S : proc[p].pc = "off"

StartServer(p) ==
  /\ p \in Servers /\ proc[p].pc = "off" /\ Quiet(Commands)
  /\ proc' = [proc EXCEPT ![p] = [Idle EXCEPT !.pc = "lock"]]
  /\ UNCHANGED <<objects, ledger, Stored, lock, begun, stops>>

Apply(p) ==
  LET id == List[proc[p].next] IN
  /\ proc[p].pc = "apply" /\ proc[p].next <= Len(List)
  /\ IF id \in ledger
     THEN UNCHANGED <<objects, ledger>>
     ELSE objects' = objects \cup {id} /\ ledger' = ledger \cup {id}
  /\ proc' = [proc EXCEPT ![p].next = @ + 1]
  /\ UNCHANGED <<Stored, lock, begun, stops>>

Applied(p) ==
  /\ proc[p].pc = "apply" /\ proc[p].next > Len(List)
  /\ Ends(p)
  /\ UNCHANGED <<objects, ledger, Stored, begun, stops>>

-----------------------------------------------------------------------------
(* The commands up to the lock.  The version is read once and cached.        *)

Begin(p, kind, to) ==
  /\ p \in Commands /\ proc[p].pc = "off" /\ Quiet(Servers)
  /\ begun < MaxCommands
  /\ begun' = begun + 1
  /\ proc' = [proc EXCEPT ![p] =
                [Idle EXCEPT !.pc = "lock", !.kind = kind, !.from = Version, !.to = to]]
  /\ UNCHANGED <<objects, ledger, Stored, lock, stops>>

(* RunUpgrade refuses a target that is not above the version.                *)
BeginUpgrade(p, to) == to > Version /\ Begin(p, "upgrade", to)

RollbackKinds == {"rollback", "dry_run"}

(* RunRollback refuses a target that is not below it.                        *)
BeginRollback(p, to) == to < Version /\ \E kind \in RollbackKinds : Begin(p, kind, to)

(* Faulty: the lock is taken whoever holds it.                               *)
LockIgnored(p) == TRUE

(* acquireLock, acquireUpgradeLock and acquireRollbackLock.                  *)
LockFree(p) == lock[LockID(proc[p].kind)] = None

AcquireLock(p) ==
  /\ proc[p].pc = "lock"
  /\ LockFree(p)
  /\ lock' = [lock EXCEPT ![LockID(proc[p].kind)] = p]
  /\ proc' = [proc EXCEPT ![p].pc = IF proc[p].kind = "apply" THEN "apply" ELSE "validate",
                          ![p].next = IF proc[p].kind = "apply" THEN 1 ELSE Len(List)]
  /\ UNCHANGED <<objects, ledger, Stored, begun, stops>>

(* Five tries, one a second.                                                 *)
GiveUp(p) ==
  /\ proc[p].pc = "lock"
  /\ ~ LockFree(p)
  /\ Ends(p)
  /\ UNCHANGED <<objects, ledger, Stored, begun, stops>>

(* ValidateTarget and ValidateRollbackTarget look at the cached version; an  *)
(* upgrade beyond the last migration ends here.                              *)
Refuse(p) ==
  /\ proc[p].pc = "validate" /\ proc[p].to > MaxID
  /\ Ends(p)
  /\ UNCHANGED <<objects, ledger, Stored, begun, stops>>

(* What getTableStats, getIndexes and getForeignKeys find.                   *)
TableStats == objects

(* CreateSnapshot: a version that cannot be read stays 0.                    *)
Snapshot == [version : {0, Version}, tables : {TableStats}]

(* PreDeploySnapshot and PreRollbackSnapshot: the command goes on without a  *)
(* snapshot that fails.  A dry run takes none.                               *)
Snapshots(kind) == {None} \cup (IF kind = "dry_run" THEN {} ELSE Snapshot)

(* RunPhase and dryRunPhase: what follows the validation.                    *)
AfterPreCheck == [upgrade |-> "post", rollback |-> "undo", dry_run |-> "release"]

(* The hook that the upgrade command registers for the data migration        *)
(* replaces the default one and does nothing.  A dry run only validates.     *)
PreCheck(p) ==
  /\ proc[p].pc = "validate" /\ proc[p].to <= MaxID
  /\ \E snap \in Snapshots(proc[p].kind) :
       proc' = [proc EXCEPT ![p].snap = snap, ![p].pc = AfterPreCheck[proc[p].kind]]
  /\ UNCHANGED <<objects, ledger, Stored, lock, begun, stops>>

-----------------------------------------------------------------------------
(* defaultDataRollback: the Down statements of the migrations between the    *)
(* two versions, then the ledger row, from the end of the list.              *)

Undoes(p) == proc[p].to < List[proc[p].next] /\ List[proc[p].next] <= proc[p].from

Skip(p) ==
  /\ proc[p].pc = "undo" /\ proc[p].next > 0 /\ ~ Undoes(p)
  /\ proc' = [proc EXCEPT ![p].next = @ - 1]
  /\ UNCHANGED <<objects, ledger, Stored, lock, begun, stops>>

(* Faulty: the row is deleted before the Down statements have run.           *)
DownAfterDelete(p) ==
  /\ proc[p].pc = "undo" /\ proc[p].next > 0 /\ Undoes(p)
  /\ ledger' = ledger \ {List[proc[p].next]}
  /\ Goes(p, "delete")
  /\ UNCHANGED <<objects, Stored, lock, begun, stops>>

Down(p) ==
  /\ proc[p].pc = "undo" /\ proc[p].next > 0 /\ Undoes(p)
  /\ objects' = objects \ ({List[proc[p].next]} \ Retained)
  /\ Goes(p, "delete")
  /\ UNCHANGED <<ledger, Stored, lock, begun, stops>>

DeleteRow(p) ==
  /\ proc[p].pc = "delete"
  /\ ledger' = ledger \ {List[proc[p].next]}
  /\ proc' = [proc EXCEPT ![p].pc = "undo", ![p].next = @ - 1]
  /\ UNCHANGED <<objects, Stored, lock, begun, stops>>

(* SetVersion, on a connection of the pool.                                  *)
SetVersion(p) ==
  /\ proc[p].pc = "undo" /\ proc[p].next = 0
  /\ marker' = proc[p].to
  /\ Goes(p, "post")
  /\ UNCHANGED <<objects, ledger, checksums, lock, begun, stops>>

(* defaultPostUpgrade and defaultPostRollback read the ledger again.         *)
AtTarget(p) == Version = proc[p].to

Verify(p) ==
  /\ proc[p].pc = "post"
  /\ IF AtTarget(p)
     THEN Goes(p, "finalize") /\ UNCHANGED lock
     ELSE Ends(p)
  /\ UNCHANGED <<objects, ledger, Stored, begun, stops>>

(* SetVersionAndChecksum: the marker and the checksum row, or neither.       *)
FinalizePhase(p) ==
  /\ proc[p].pc = "finalize"
  /\ IF HasChecksum(proc[p].to)
     THEN /\ marker' = proc[p].to /\ checksums' = checksums \cup {proc[p].to}
          /\ Goes(p, "release") /\ UNCHANGED lock
     ELSE Ends(p) /\ UNCHANGED <<marker, checksums>>
  /\ UNCHANGED <<objects, ledger, begun, stops>>

(* The lock is released and success reported.                                *)
Succeed(p) ==
  /\ proc[p].pc = "release"
  /\ Ends(p)
  /\ UNCHANGED <<objects, ledger, Stored, begun, stops>>

(* The process dies, or a statement fails: the session and its lock end.     *)
Stop(p) ==
  /\ proc[p].pc # "off" /\ stops < MaxStops
  /\ stops' = stops + 1
  /\ Ends(p)
  /\ UNCHANGED <<objects, ledger, Stored, begun>>

Next ==
  \E p \in Processes :
    \/ StartServer(p) \/ Apply(p) \/ Applied(p)
    \/ \E to \in 0..(MaxID + 1) : BeginUpgrade(p, to) \/ BeginRollback(p, to)
    \/ AcquireLock(p) \/ GiveUp(p) \/ Refuse(p) \/ PreCheck(p)
    \/ Skip(p) \/ Down(p) \/ DeleteRow(p) \/ SetVersion(p)
    \/ Verify(p) \/ FinalizePhase(p) \/ Succeed(p) \/ Stop(p)

Spec == Init /\ [][Next]_vars

-----------------------------------------------------------------------------
TypeOK ==
  /\ objects \subseteq Ids /\ ledger \subseteq Ids
  /\ marker \in 0..MaxID \cup {None}
  /\ checksums \subseteq 0..MaxID
  /\ lock \in [{"apply", "upgrade", "rollback"} -> Processes \cup {None}]
  /\ \A p \in Processes : proc[p].next \in 0..(Len(List) + 1)
  /\ begun \in 0..MaxCommands /\ stops \in 0..MaxStops

(* Whatever was interrupted, nothing is in the catalogue that the ledger     *)
(* does not name, so no later Apply runs an Up statement on what is there    *)
(* already; and an interruption leaves at most one migration recorded that   *)
(* is not there.                                                             *)
AppliedIsRecorded ==
  /\ objects \ Retained \subseteq ledger
  /\ Cardinality(ledger \ objects) <=
       stops + Cardinality({p \in Processes : proc[p].pc = "delete"})

(* A rollback or an upgrade that reports success leaves its target as the    *)
(* newest migration recorded and nothing newer in place, however many        *)
(* commands waited for the lock with an older version in their hands; and if *)
(* nothing was interrupted before, exactly the migrations up to the target.  *)
(* Its checksum is stored, and a snapshot taken for it names all that is     *)
(* left.                                                                     *)
SucceedsFalsely ==
  \E p \in Commands :
    LET upTo == {i \in Ids : i <= proc[p].to} IN
    /\ proc[p].pc = "release" /\ proc'[p].pc = "off" /\ stops' = stops
    /\ proc[p].kind # "dry_run"
    /\ \/ ~ (ledger \subseteq upTo /\ proc[p].to \in ledger \cup {0})
       \/ ~ (objects \ Retained \subseteq upTo)
       \/ stops = 0 /\ ledger # upTo
       \/ proc[p].to \notin checksums
       \/ proc[p].snap # None /\ ~ (objects \subseteq proc[p].snap.tables)
==============================================================================
