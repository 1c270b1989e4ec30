---------------------------- MODULE NativeUpgrade ----------------------------
(***************************************************************************)
(* The native upgrade: POST /update/apply stages a release inside the      *)
(* running orchestrator (preflight with a database backup, download), then *)
(* launches finalize-orchestrator-upgrade.sh as a transient systemd unit,  *)
(* which stops the service, swaps the binary, and either accepts the       *)
(* candidate or restores database and binary.                              *)
(*                                                                         *)
(* Two requests may stage at once: the "applying" status is tested and set *)
(* in different critical sections with the release lookup between them,    *)
(* and each request installs a Service, and with it a Stage mutex, of its  *)
(* own.  The host may reboot between any two steps.                        *)
(***************************************************************************)
EXTENDS Naturals

CONSTANTS
    Requests,     \* update requests the running orchestrator receives
    Nobody,
    MaxReboots    \* bound on host restarts

VARIABLES
    svc,          \* what systemd runs: "old", "new" or "down"
    bin, bak,     \* installed binary and its .bak: "old", "new", "partial", "none"
    staged,       \* candidate in the update directory
    schema,       \* database schema: "source" or "target"
    dumps,        \* requests whose backup file is on disk
    handoff,      \* request whose backup database-backup.env names
    status,       \* UpdateManager.status
    service,      \* the request that last installed UpdateManager.service
    using,        \* the Service whose Stage a request calls
    lock,         \* holder of each Service's mutex
    pc,           \* next step of each request
    fin,          \* next step of the finalizer, "off" when no unit exists
    restored,     \* the backup the finalizer loaded
    accepted,     \* binaries that passed the health check as candidates
    reboots

vars == <<svc, bin, bak, staged, schema, dumps, handoff, status, service,
          using, lock, pc, fin, restored, accepted, reboots>>

files == <<bin, bak, staged, schema, dumps, handoff>>
process == <<status, service, using, lock, pc>>
finalizer == <<fin, restored, accepted>>

Files == {"old", "new", "partial", "none"}

TypeOK ==
    /\ svc \in {"old", "new", "down"}
    /\ bin \in Files /\ bak \in Files /\ staged \in Files \ {"old"}
    /\ schema \in {"source", "target"}
    /\ dumps \subseteq Requests
    /\ handoff \in Requests \cup {Nobody}
    /\ status \in {"idle", "applying", "failed", "restart_pending", "handoff_failed"}
    /\ service \in Requests \cup {Nobody}
    /\ using \in [Requests -> Requests \cup {Nobody}]
    /\ lock \in [Requests -> Requests \cup {Nobody}]
    /\ pc \in [Requests -> {"idle", "planned", "stage", "lock", "preflight", "dump",
                            "download", "write", "trigger", "waiting", "deferred", "done"}]
    /\ fin \in {"off", "verify", "refused", "stop", "preserve", "promote", "start",
                "health", "accept", "halt", "restore", "setaside", "putback",
                "restart", "recheck", "cleanup"}
    /\ restored \in Requests \cup {Nobody}
    /\ accepted \subseteq {"old", "new"}
    /\ reboots \in 0..MaxReboots

Init ==
    /\ svc = "old" /\ bin = "old" /\ bak = "none" /\ staged = "none"
    /\ schema = "source" /\ dumps = {} /\ handoff = Nobody
    /\ status = "idle" /\ service = Nobody
    /\ using = [r \in Requests |-> Nobody]
    /\ lock = [r \in Requests |-> Nobody]
    /\ pc = [r \in Requests |-> "idle"]
    /\ fin = "off" /\ restored = Nobody /\ accepted = {"old"}
    /\ reboots = 0

Goto(r, step) == pc' = [pc EXCEPT ![r] = step]

\* The process is gone, and with it every request and the update manager.
ProcessEnds ==
    /\ status' = "idle" /\ service' = Nobody
    /\ using' = [r \in Requests |-> Nobody]
    /\ lock' = [r \in Requests |-> Nobody]
    /\ pc' = [r \in Requests |-> IF pc[r] = "idle" THEN "idle" ELSE "done"]

-----------------------------------------------------------------------------
(* handleUpdateApply and applyUpdate *)

\* First critical section, then the lookup of a verified release.
Check(r) ==
    /\ pc[r] = "idle" /\ svc = "old"
    /\ status # "applying"
    /\ Goto(r, "planned")
    /\ UNCHANGED <<svc, files, status, service, using, lock, finalizer, reboots>>

\* WithPreflight replaces the service; the second critical section.
SetApplying(r) ==
    /\ pc[r] = "planned"
    /\ service' = r
    /\ status' = "applying"
    /\ Goto(r, "stage")
    /\ UNCHANGED <<svc, files, using, lock, finalizer, reboots>>

\* The goroutine reads updateMgr.service and waits for its mutex.
CallStage(r) ==
    /\ pc[r] = "stage"
    /\ using' = [using EXCEPT ![r] = service]
    /\ Goto(r, "lock")
    /\ UNCHANGED <<svc, files, status, service, lock, finalizer, reboots>>

Lock(r) ==
    /\ pc[r] = "lock"
    /\ lock[using[r]] = Nobody
    /\ lock' = [lock EXCEPT ![using[r]] = r]
    /\ Goto(r, "preflight")
    /\ UNCHANGED <<svc, files, status, service, using, finalizer, reboots>>

\* Stage returns an error: the mutex is released, the status is "failed".
StageFails(r) ==
    /\ lock' = [lock EXCEPT ![using[r]] = Nobody]
    /\ status' = "failed"
    /\ Goto(r, "deferred")

\* The backup refuses to start while a handoff exists; any check may fail.
Preflight(r) ==
    /\ pc[r] = "preflight"
    /\ \/ handoff = Nobody /\ Goto(r, "dump") /\ UNCHANGED <<status, lock>>
       \/ StageFails(r)
    /\ UNCHANGED <<svc, files, service, using, finalizer, reboots>>

\* createUpgradeDatabaseBackup; its clean-up removes the handoff file by name,
\* whoever published it.
Dump(r) ==
    /\ pc[r] = "dump"
    /\ \/ /\ dumps' = dumps \cup {r}
          /\ handoff' = r
          /\ Goto(r, "download") /\ UNCHANGED <<status, lock>>
       \/ handoff' = Nobody /\ StageFails(r) /\ UNCHANGED dumps
    /\ UNCHANGED <<svc, bin, bak, staged, schema, service, using, finalizer, reboots>>

\* Download truncates the candidate's file, ...
Download(r) ==
    /\ pc[r] = "download"
    /\ \/ staged' = "partial" /\ Goto(r, "write") /\ UNCHANGED <<status, lock>>
       \/ StageFails(r) /\ UNCHANGED staged
    /\ UNCHANGED <<svc, bin, bak, schema, dumps, handoff, service, using, finalizer,
                   reboots>>

\* ... and fills and verifies it, or removes it.  The handoff stays either way.
Write(r) ==
    /\ pc[r] = "write"
    /\ \/ /\ staged' = "new"
          /\ lock' = [lock EXCEPT ![using[r]] = Nobody]
          /\ status' = "restart_pending"
          /\ Goto(r, "trigger")
       \/ staged' = "none" /\ StageFails(r)
    /\ UNCHANGED <<svc, bin, bak, schema, dumps, handoff, service, using, finalizer,
                   reboots>>

\* TriggerRestartWithSchema.  The unit is named after the process, so systemd
\* refuses a second one while the first exists.
Trigger(r) ==
    /\ pc[r] = "trigger"
    /\ IF staged # "none" /\ fin = "off"
       THEN /\ fin' = "verify" /\ Goto(r, "waiting") /\ UNCHANGED status
       ELSE /\ status' = "handoff_failed" /\ Goto(r, "deferred") /\ UNCHANGED fin
    /\ UNCHANGED <<svc, files, service, using, lock, restored, accepted, reboots>>

\* systemd-run reports that the oneshot unit failed before it stopped us.
FinalizerRefused(r) ==
    /\ pc[r] = "waiting" /\ fin = "refused"
    /\ fin' = "off"
    /\ status' = "handoff_failed"
    /\ Goto(r, "deferred")
    /\ UNCHANGED <<svc, files, service, using, lock, restored, accepted, reboots>>

\* The deferred function resets a status another request may have set.
Deferred(r) ==
    /\ pc[r] = "deferred"
    /\ status' = IF status = "applying" THEN "idle" ELSE status
    /\ Goto(r, "done")
    /\ UNCHANGED <<svc, files, service, using, lock, finalizer, reboots>>

-----------------------------------------------------------------------------
(* finalize-orchestrator-upgrade.sh *)

\* verify_staged_binary and load_and_verify_database_backup
FVerify ==
    /\ fin = "verify"
    /\ IF staged # "none" /\ bin # "none" /\ bak = "none" /\ handoff \in dumps
       THEN fin' = "stop" /\ restored' = handoff
       ELSE fin' = "refused" /\ UNCHANGED restored
    /\ UNCHANGED <<svc, files, process, accepted, reboots>>

FStop ==
    /\ fin = "stop"
    /\ \/ svc' = "down" /\ fin' = "preserve" /\ ProcessEnds
       \/ fin' = "refused" /\ UNCHANGED <<svc, process>>
    /\ UNCHANGED <<files, restored, accepted, reboots>>

FPreserve ==
    /\ fin = "preserve"
    /\ bak' = bin /\ bin' = "none"
    /\ fin' = "promote"
    /\ UNCHANGED <<svc, staged, schema, dumps, handoff, process, restored, accepted, reboots>>

\* A candidate that cannot be moved: the preserved binary comes back.
FPromote ==
    /\ fin = "promote"
    /\ \/ /\ staged # "none"
          /\ bin' = staged /\ staged' = "none" /\ fin' = "start"
          /\ UNCHANGED <<svc, bak>>
       \/ /\ bin' = bak /\ bak' = "none" /\ svc' = bak /\ fin' = "off"
          /\ UNCHANGED staged
    /\ UNCHANGED <<schema, dumps, handoff, process, restored, accepted, reboots>>

\* The candidate migrates the schema as it starts; it may die after that.
FStart ==
    /\ fin = "start"
    /\ fin' = "health"
    /\ \/ bin = "new" /\ svc' \in {"new", "down"} /\ schema' = "target"
       \/ svc' = "down" /\ UNCHANGED schema
    /\ UNCHANGED <<bin, bak, staged, dumps, handoff, process, restored, accepted, reboots>>

FHealth ==
    /\ fin = "health"
    /\ \/ svc = "new" /\ accepted' = accepted \cup {"new"} /\ fin' = "accept"
       \/ fin' = "halt" /\ UNCHANGED accepted
    /\ UNCHANGED <<svc, files, process, restored, reboots>>

FAccept ==
    /\ fin = "accept"
    /\ bak' = "none" /\ staged' = "none"
    /\ dumps' = dumps \ {restored} /\ handoff' = Nobody
    /\ fin' = "off"
    /\ UNCHANGED <<svc, bin, schema, process, restored, accepted, reboots>>

\* Faulty variant: the binary is put back without the database.
FHaltOnly ==
    /\ fin = "halt"
    /\ svc' \in {svc, "down"}
    /\ fin' = "setaside"
    /\ UNCHANGED <<files, process, restored, accepted, reboots>>

\* systemctl stop || true
FHalt ==
    /\ fin = "halt"
    /\ svc' \in {svc, "down"}
    /\ fin' = "restore"
    /\ UNCHANGED <<files, process, restored, accepted, reboots>>

\* pg_restore and the check of the restored schema; a failure leaves the
\* service stopped and everything else in place.
FRestore ==
    /\ fin = "restore"
    /\ \/ schema' = "source" /\ fin' = "setaside"
       \/ fin' = "off" /\ UNCHANGED schema
    /\ UNCHANGED <<svc, bin, bak, staged, dumps, handoff, process, restored, accepted, reboots>>

FSetAside ==
    /\ fin = "setaside"
    /\ bin' = "none" /\ fin' = "putback"
    /\ UNCHANGED <<svc, bak, staged, schema, dumps, handoff, process, restored, accepted, reboots>>

FPutBack ==
    /\ fin = "putback"
    /\ bin' = bak /\ bak' = "none" /\ fin' = "restart"
    /\ UNCHANGED <<svc, staged, schema, dumps, handoff, process, restored, accepted, reboots>>

\* systemctl start does nothing to a service that was never stopped.
FRestart ==
    /\ fin = "restart"
    /\ \/ svc' = (IF svc = "down" THEN bin ELSE svc) /\ fin' = "recheck"
       \/ fin' = "off" /\ UNCHANGED svc
    /\ UNCHANGED <<files, process, restored, accepted, reboots>>

FRecheck ==
    /\ fin = "recheck"
    /\ fin' \in {"cleanup", "off"}
    /\ UNCHANGED <<svc, files, process, restored, accepted, reboots>>

FCleanup ==
    /\ fin = "cleanup"
    /\ dumps' = dumps \ {restored} /\ handoff' = Nobody /\ staged' = "none"
    /\ fin' = "off"
    /\ UNCHANGED <<svc, bin, bak, schema, process, restored, accepted, reboots>>

-----------------------------------------------------------------------------
(* The host restarts: the finalizer's unit is gone, and the enabled service *)
(* runs whatever binary is installed.                                       *)

Reboot ==
    /\ reboots < MaxReboots
    /\ reboots' = reboots + 1
    /\ fin' = "off"
    /\ ProcessEnds
    /\ svc' = IF bin \in {"old", "new"} THEN bin ELSE "down"
    /\ schema' = IF bin = "new" THEN "target" ELSE schema
    /\ UNCHANGED <<bin, bak, staged, dumps, handoff, restored, accepted>>

Request(r) ==
    \/ Check(r) \/ SetApplying(r) \/ CallStage(r) \/ Lock(r) \/ Preflight(r)
    \/ Dump(r) \/ Download(r) \/ Write(r) \/ Trigger(r) \/ FinalizerRefused(r)
    \/ Deferred(r)

Finalizer ==
    \/ FVerify \/ FStop \/ FPreserve \/ FPromote \/ FStart \/ FHealth \/ FAccept
    \/ FHalt \/ FRestore \/ FSetAside \/ FPutBack \/ FRestart \/ FRecheck \/ FCleanup

Next == (\E r \in Requests : Request(r)) \/ Finalizer \/ Reboot

Spec == Init /\ [][Next]_vars

-----------------------------------------------------------------------------
(* Properties *)

\* Until the candidate has been accepted the previous release can be had
\* back: its binary is installed or kept as .bak, and once the schema has
\* been migrated the backup the finalizer loaded is on disk.  The previous
\* binary never runs on the migrated schema.  (finalizer: "Restore the exact
\* pre-upgrade row-level database state before making the old binary active")
UpgradeIsReversible ==
    /\ svc = "old" => schema = "source"
    /\ "new" \notin accepted =>
         /\ "old" \in {bin, bak}
         /\ schema = "target" => restored \in dumps
=============================================================================
