----------------------------- MODULE MCRecovery -----------------------------
(***************************************************************************)
(* What survives crashes, restarts and interrupted work: small instances   *)
(* of the agent's command ledger, its offline queue, enrolment and         *)
(* updater, of the upgrades of the orchestrator, the module runtime,       *)
(* backup, its artifacts and keys, restore, the versions of the schema and *)
(* the start of a process. A behaviour is one of the instance that setting *)
(* names. The command ledger is AgentJobs itself; it rests in the other    *)
(* settings, whose variables are v1, v2, ... in the order the module of    *)
(* the instance declares them.                                             *)
(***************************************************************************)
EXTENDS AgentJobs, TLC

CONSTANTS
    Settings, r1, r2, x1, x2, x3, Dead

VARIABLES
    setting, v1, v2, v3, v4, v5, v6, v7, v8, v9, v10, v11, v12, v13, v14,
    v15, v16, v17, v18

allVars ==
    <<setting, vars, v1, v2, v3, v4, v5, v6, v7, v8, v9, v10, v11, v12, v13,
    v14, v15, v16, v17, v18>>

OneTarget == {x1}
TwoThreads == {r1, r2}
Interchangeable == Permutations({r1, r2})

Spool == INSTANCE AgentTelemetry WITH
    NMetrics <- 1, NEvents <- 1, NBeats <- 1, MaxItems <- 1, PopLimit <- 1,
    MaxDeliver <- 2, MaxDrops <- 1, MaxFailures <- 1, made <- v1,
    connected <- v2, unqueued <- v3, queue <- v4, replay <- v5, wire <- v6,
    stream <- v7, settled <- v8, handling <- v9, rows <- v10, device <- v11,
    accepted <- v12, sent <- v13, drops <- v14, failures <- v15

Enrolment == INSTANCE AgentEnrollment WITH
    Tenants <- {x1, x2}, MaxUses <- 2, MaxStops <- 3, MaxReconfigs <- 2,
    None <- None, config <- v1, temp <- v2, file <- v3, pc <- v4, cfg <- v5,
    ident <- v6, writing <- v7, uses <- v8, devices <- v9, stops <- v10,
    reconfigs <- v11

Update == INSTANCE AgentUpdate WITH
    MaxVersion <- 3, Works <- {1, 3}, MaxStops <- 1, MaxCommands <- 1,
    MaxChecks <- 3, None <- None, exe <- v1, bak <- v2, fetched <- v3,
    stored <- v4, manifest <- v5, running <- v6, due <- v7, updater <- v8,
    rolling <- v9, rollout <- v10, stops <- v11, commands <- v12,
    checks <- v13, skipped <- v14, raced <- v15

Docker == INSTANCE DockerUpgrade WITH
    Hosts <- {x1}, MaxImage <- 3, MaxAttempt <- 3, journal <- v1, env <- v2,
    live <- v3, handoff <- v4, pc <- v5, tx <- v6, verified <- v7

Native == INSTANCE NativeUpgrade WITH
    Requests <- {r1, r2}, Nobody <- None, MaxReboots <- 1, svc <- v1,
    bin <- v2, bak <- v3, staged <- v4, schema <- v5, dumps <- v6,
    handoff <- v7, status <- v8, service <- v9, using <- v10, lock <- v11,
    pc <- v12, fin <- v13, restored <- v14, accepted <- v15, reboots <- v16

Releases == INSTANCE ModuleLifecycle WITH
    Actors <- {r1, r2}, Versions <- {1, 2}, TxAttempts <- 2, Threshold <- 0,
    Kinds <- {"install", "enable", "upgrade", "rollback", "invoke"},
    Nobody <- None, Dead <- Dead, row <- v1, made <- v2, signed <- v3,
    files <- v4, installLock <- v5, activationLock <- v6, view <- v7,
    fresh <- v8, mu <- v9, op <- v10, arg <- v11, pc <- v12, tries <- v13,
    snap <- v14, dirty <- v15, expected <- v16, failures <- v17,
    mustDeny <- v18

Access == INSTANCE ModuleLifecycle WITH
    Actors <- {r1, r2}, Versions <- {1}, TxAttempts <- 1, Threshold <- 0,
    Kinds <- {"install", "enable", "disable", "quarantine", "uninstall", "authorize"},
    Nobody <- None, Dead <- Dead, row <- v1, made <- v2, signed <- v3,
    files <- v4, installLock <- v5, activationLock <- v6, view <- v7,
    fresh <- v8, mu <- v9, op <- v10, arg <- v11, pc <- v12, tries <- v13,
    snap <- v14, dirty <- v15, expected <- v16, failures <- v17,
    mustDeny <- v18

Failing == INSTANCE ModuleLifecycle WITH
    Actors <- {x1}, Versions <- {1}, TxAttempts <- 1, Threshold <- 3,
    Kinds <- {"install", "enable", "quarantine", "invoke"}, Nobody <- None,
    Dead <- Dead, row <- v1, made <- v2, signed <- v3, files <- v4,
    installLock <- v5, activationLock <- v6, view <- v7, fresh <- v8,
    mu <- v9, op <- v10, arg <- v11, pc <- v12, tries <- v13, snap <- v14,
    dirty <- v15, expected <- v16, failures <- v17, mustDeny <- v18

Install == INSTANCE ModuleInstall WITH
    Installs <- {r1, r2}, Packages <- {x1, x2}, Files <- {x1, x2},
    None <- None, pkg <- v1, pc <- v2, stage <- v3, target <- v4, lock <- v5,
    seen <- v6, metadata <- v7

Backup == INSTANCE BackupSet WITH
    Jobs <- {x1}, Reports <- {x2}, Ops <- {r1, r2}, Expiry <- FALSE,
    MaxResults <- 1, None <- None, db <- v1, objects <- v2, cmds <- v3,
    results <- v4, first <- v5, floor <- v6, req <- v7, pass <- v8,
    lock <- v9, gate <- v10, op <- v11, set <- v12, finalized <- v13

Restored == INSTANCE RestoreTarget WITH
    Restores <- {r1, r2, x1}, Sets <- {x2, x3}, Messages <- 2, None <- None,
    damaged <- v1, tables <- v2, stream <- v3, objects <- v4, lock <- v5,
    pc <- v6, from <- v7, restored <- v8

Bootstrap == INSTANCE SchemaStartup WITH
    Servers <- {}, Bootstraps <- {r1, r2}, MaxAttempts <- 2,
    MaxFailures <- 1, None <- None, catalogue <- v1, ledger <- v2,
    lock <- v3, admins <- v4, failures <- v5, proc <- v6

Startup == INSTANCE SchemaStartup WITH
    Servers <- {x1}, Bootstraps <- {x2}, MaxAttempts <- 1, MaxFailures <- 1,
    None <- None, catalogue <- v1, ledger <- v2, lock <- v3, admins <- v4,
    failures <- v5, proc <- v6

\* Migration 3 stands before 2, as 73 before 25; it keeps what it made.
Versions == INSTANCE SchemaVersions WITH
    List <- <<1, 3, 2, 4>>, Retained <- {3}, Servers <- {x1},
    Commands <- {r1, r2}, Overlap <- FALSE, MaxCommands <- 2, MaxStops <- 1,
    None <- None, objects <- v1, ledger <- v2, marker <- v3,
    checksums <- v4, lock <- v5, proc <- v6, begun <- v7, stops <- v8

Archive == INSTANCE BackupArchive WITH
    Keys <- {x1, x2}, Inits <- {r1, r2}, Backups <- {x3},
    Verifiers <- {Dead}, Parts <- 2, MaxDamage <- 1, None <- None,
    material <- v1, meta <- v2, drawn <- v3, artifacts <- v4,
    statuses <- v5, manifests <- v6, damaged <- v7, proc <- v8

\* The variables an instance of n variables does not need.
Unused(n) ==
    /\ n > 0 => unsupported = {}
    /\ IF n < 1 THEN v1 = 0 ELSE TRUE
    /\ IF n < 2 THEN v2 = 0 ELSE TRUE
    /\ IF n < 3 THEN v3 = 0 ELSE TRUE
    /\ IF n < 4 THEN v4 = 0 ELSE TRUE
    /\ IF n < 5 THEN v5 = 0 ELSE TRUE
    /\ IF n < 6 THEN v6 = 0 ELSE TRUE
    /\ IF n < 7 THEN v7 = 0 ELSE TRUE
    /\ IF n < 8 THEN v8 = 0 ELSE TRUE
    /\ IF n < 9 THEN v9 = 0 ELSE TRUE
    /\ IF n < 10 THEN v10 = 0 ELSE TRUE
    /\ IF n < 11 THEN v11 = 0 ELSE TRUE
    /\ IF n < 12 THEN v12 = 0 ELSE TRUE
    /\ IF n < 13 THEN v13 = 0 ELSE TRUE
    /\ IF n < 14 THEN v14 = 0 ELSE TRUE
    /\ IF n < 15 THEN v15 = 0 ELSE TRUE
    /\ IF n < 16 THEN v16 = 0 ELSE TRUE
    /\ IF n < 17 THEN v17 = 0 ELSE TRUE
    /\ IF n < 18 THEN v18 = 0 ELSE TRUE

StaysUnused(n) ==
    /\ IF n < 1 THEN UNCHANGED v1 ELSE TRUE
    /\ IF n < 2 THEN UNCHANGED v2 ELSE TRUE
    /\ IF n < 3 THEN UNCHANGED v3 ELSE TRUE
    /\ IF n < 4 THEN UNCHANGED v4 ELSE TRUE
    /\ IF n < 5 THEN UNCHANGED v5 ELSE TRUE
    /\ IF n < 6 THEN UNCHANGED v6 ELSE TRUE
    /\ IF n < 7 THEN UNCHANGED v7 ELSE TRUE
    /\ IF n < 8 THEN UNCHANGED v8 ELSE TRUE
    /\ IF n < 9 THEN UNCHANGED v9 ELSE TRUE
    /\ IF n < 10 THEN UNCHANGED v10 ELSE TRUE
    /\ IF n < 11 THEN UNCHANGED v11 ELSE TRUE
    /\ IF n < 12 THEN UNCHANGED v12 ELSE TRUE
    /\ IF n < 13 THEN UNCHANGED v13 ELSE TRUE
    /\ IF n < 14 THEN UNCHANGED v14 ELSE TRUE
    /\ IF n < 15 THEN UNCHANGED v15 ELSE TRUE
    /\ IF n < 16 THEN UNCHANGED v16 ELSE TRUE
    /\ IF n < 17 THEN UNCHANGED v17 ELSE TRUE
    /\ IF n < 18 THEN UNCHANGED v18 ELSE TRUE

AllInit ==
    /\ setting \in Settings
    /\ Init
    /\ \/ setting = "agent" /\ Unused(0)
       \/ setting = "spool" /\ Spool!Init /\ Unused(15)
       \/ setting = "enrolment" /\ Enrolment!Init /\ Unused(11)
       \/ setting = "update" /\ Update!Init /\ Unused(15)
       \/ setting = "docker" /\ Docker!Init /\ Unused(7)
       \/ setting = "native" /\ Native!Init /\ Unused(16)
       \/ setting = "releases" /\ Releases!Init /\ Unused(18)
       \/ setting = "access" /\ Access!Init /\ Unused(18)
       \/ setting = "failing" /\ Failing!Init /\ Unused(18)
       \/ setting = "install" /\ Install!Init /\ Unused(7)
       \/ setting = "backup" /\ Backup!Init /\ Unused(13)
       \/ setting = "restore" /\ Restored!Init /\ Unused(8)
       \/ setting = "bootstrap" /\ Bootstrap!Init /\ Unused(6)
       \/ setting = "startup" /\ Startup!Init /\ Unused(6)
       \/ setting = "versions" /\ Versions!Init /\ Unused(8)
       \/ setting = "archive" /\ Archive!Init /\ Unused(8)

AllNext ==
    /\ UNCHANGED setting
    /\ \/ setting = "agent" /\ Next /\ StaysUnused(0)
       \/ setting = "spool" /\ Spool!Next /\ StaysUnused(15) /\ UNCHANGED vars
       \/ setting = "enrolment" /\ Enrolment!Next /\ StaysUnused(11) /\ UNCHANGED vars
       \/ setting = "update" /\ Update!Next /\ StaysUnused(15) /\ UNCHANGED vars
       \/ setting = "docker" /\ Docker!Next /\ StaysUnused(7) /\ UNCHANGED vars
       \/ setting = "native" /\ Native!Next /\ StaysUnused(16) /\ UNCHANGED vars
       \/ setting = "releases" /\ Releases!Next /\ StaysUnused(18) /\ UNCHANGED vars
       \/ setting = "access" /\ Access!Next /\ StaysUnused(18) /\ UNCHANGED vars
       \/ setting = "failing" /\ Failing!Next /\ StaysUnused(18) /\ UNCHANGED vars
       \/ setting = "install" /\ Install!Next /\ StaysUnused(7) /\ UNCHANGED vars
       \/ setting = "backup" /\ Backup!Next /\ StaysUnused(13) /\ UNCHANGED vars
       \/ setting = "restore" /\ Restored!Next /\ StaysUnused(8) /\ UNCHANGED vars
       \/ setting = "bootstrap" /\ Bootstrap!Next /\ StaysUnused(6) /\ UNCHANGED vars
       \/ setting = "startup" /\ Startup!Next /\ StaysUnused(6) /\ UNCHANGED vars
       \/ setting = "versions" /\ Versions!Next /\ StaysUnused(8) /\ UNCHANGED vars
       \/ setting = "archive" /\ Archive!Next /\ StaysUnused(8) /\ UNCHANGED vars

AllSpec == AllInit /\ [][AllNext]_allVars

-----------------------------------------------------------------------------
\* The state of each instance keeps its type; the counters of a journal and of a
\* restart loop stay within their bounds.
TypesOK ==
    CASE setting = "agent" -> TypeOK
      [] setting = "spool" -> Spool!TypeOK
      [] setting = "enrolment" -> Enrolment!TypeOK
      [] setting = "update" -> Update!TypeOK
      [] setting = "docker" -> Docker!TypeOK
      [] setting = "native" -> Native!TypeOK
      [] setting = "releases" -> Releases!TypeOK
      [] setting = "access" -> Access!TypeOK
      [] setting = "failing" -> Failing!TypeOK
      [] setting = "install" -> Install!TypeOK
      [] setting = "backup" -> Backup!TypeOK
      [] setting = "restore" -> Restored!TypeOK
      [] setting = "bootstrap" -> Bootstrap!TypeOK
      [] setting = "startup" -> Startup!TypeOK
      [] setting = "versions" -> Versions!TypeOK
      [] setting = "archive" -> Archive!TypeOK

\* An acknowledgement is given only for what is kept.  The agent acknowledges a
\* command when its terminal receipt is in the ledger, a running receipt
\* belongs to an execution of this process unless one was interrupted, and a
\* receipt of success was written by an execution (handleDurableCommand); the orchestrator acknowledges telemetry when its rows
\* are in the database, and the offline queue of the agent holds an item once
\* and no more items than its limit (QueueMetric, PopMetrics).
AckedIsKept ==
    /\ AckedIsTerminal /\ RunningHasOwner /\ SuccessWasExecuted
    /\ setting = "spool" => Spool!AckedIsStored /\ Spool!QueueIsBounded

\* Whatever step an upgrade dies in, a release that works can be returned to.
\* DockerUpgradeExecutor: a release that was ready is known and Reconcile knows
\* the case; applyUpdate and finalize-orchestrator-upgrade.sh: the previous
\* binary and the dump are kept until the candidate is accepted, and the previous
\* binary never runs on the migrated schema; the updater of the agent: an
\* executable that runs is in place or in the backup.
KnownGoodRetained ==
    /\ setting = "docker" => Docker!KnownGoodRetained
    /\ setting = "native" => Native!UpgradeIsReversible
    /\ setting = "update" => Update!GoodBinaryKept

\* What is active, what a rollback returns to and what an invocation runs is a
\* complete version with signed metadata (MaterializePayloadRetrySafe,
\* ActivateMaterializedVersion, resolveRuntime), and an authorization that begins
\* after the module was taken away and the operator told so is refused
\* (invalidateModuleRuntimeRegistry).
RunsCompleteVersion ==
    /\ setting = "releases" => Releases!RunsCompleteVersion
    /\ setting = "access" => Access!RunsCompleteVersion /\ Access!RevocationIsSeen

\* The directory of a version, once it stands, is whole and of one package, and
\* its signed metadata names that package, however installs of the same version
\* number overlap, reclaim an old lock and die (MaterializePayloadRetrySafe).
InstallIsTrue == setting = "install" => Install!InstallIsTrue

\* An interrupted start leaves nothing half done.  Every migration runs on
\* the catalogue it finds and no table is left with forced row security that
\* shows nothing (Apply), there is one first administrator (BootstrapInitialAdmin),
\* and whatever rollback was cut short, nothing is in place that the ledger does
\* not name (defaultDataRollback).
StartIsWhole ==
    /\ setting = "bootstrap" =>
          /\ Bootstrap!MigrationsApply /\ Bootstrap!ForcedIsEffective
          /\ Bootstrap!OneFirstAdmin
    /\ setting = "startup" => Startup!ForcedIsEffective /\ Startup!OneFirstAdmin
    /\ setting = "versions" => Versions!AppliedIsRecorded

\* Wherever the agent stopped during enrolment, a runtime configuration names the
\* device whose whole identity is on disk and which the server registered, the
\* running agent is that device, and no second device is asked for while any
\* identity file exists (save, SaveRuntime, LoadExisting).
EnrolmentIsWhole == setting = "enrolment" => Enrolment!EnrolmentIsWhole

\* A finalized backup set hangs together although its parts are captured one
\* after the other, no result is lost by restoring it, and a restore that
\* reported success left exactly its set in the target (Engine.Backup, Engine.Restore).
\* Its artifacts stay readable: however key-init commands overlap, fail and die, no
\* command loses the key or the file of a finalized component, and a verification
\* that passes has opened what was sealed (RotateKey, readComponent).
BackupIsConsistent ==
    /\ setting = "backup" => Backup!SetIsConsistent /\ Backup!ConsumerProgress
    /\ setting = "restore" => Restored!RestoreIsExact
    /\ setting = "archive" =>
          /\ Archive!FinalizedIsReadable /\ Archive!RefusedIsDamaged
          /\ Archive!VerifiedIsGenuine

\* A gate that is closed holds for whoever was already on the way: a command
\* cancelled before it began never begins (BeginExecution), a quarantined module
\* leaves quarantine only by being uninstalled (mutateModuleLifecycle), no row
\* changes while a backup captures (the triggers of recovery_mutation_gate),
\* under the migration lock the catalogue and its ledger move together, by the
\* next migration of the list (SchemaManager.Apply), and a schema command that
\* waited for its lock with an old version in hand reports success only if its
\* target is what the ledger says (RunUpgrade, RunRollback).
GatesHold ==
    [][/\ ~ BeginsCancelled
       /\ setting = "access" => ~ Access!LeavesQuarantine
       /\ setting = "backup" => ~ Backup!CaptureBroken
       /\ setting = "bootstrap" => ~ Bootstrap!LedgerBroken
       /\ setting = "versions" => ~ Versions!SucceedsFalsely]_allVars

\* docs/ADDON_MODULES.md: "Repeated execution failures cause quarantine".
FailuresQuarantine == setting = "failing" => Failing!FailuresQuarantine

\* docs/INTERNAL_ALPHA_AGENT.md: the offline queue "survives restart, retains
\* entries until publish acknowledgement".
RetainedUntilPublished == setting = "spool" => Spool!RetainedUntilPublished

\* docs/COMPATIBILITY_MATRIX.md: the schema is "Self-managed (migrations run on
\* startup)", so a start, and a later one, runs them without an error.
MigrationsApply == setting = "startup" => Startup!MigrationsApply
=============================================================================
