--------------------------- MODULE ModuleLifecycle ---------------------------
(***************************************************************************)
(* Add-on modules: the operator's lifecycle requests, the files they       *)
(* materialize and activate, invocation of the active version, and the     *)
(* cached registry that authorizes a module's own credentials.             *)
(*                                                                         *)
(* A lifecycle request runs in one SERIALIZABLE transaction over the       *)
(* module's row and is retried a bounded number of times; what it does to  *)
(* the disk inside the transaction is not undone when the transaction is.  *)
(* One module, one orchestrator process; the process may die at any step.  *)
(***************************************************************************)
EXTENDS Naturals

CONSTANTS
    Actors,        \* requests in flight
    Kinds,         \* the requests considered: LifecycleOps, "invoke", "authorize"
    Versions,      \* signed releases of the module, a set of positive numbers
    TxAttempts,    \* moduleLifecycleTxAttempts (3 in the code)
    Threshold,     \* Supervisor's FailureThreshold (3 in the code; 0: not counted)
    Nobody, Dead   \* no holder of a lock file; a holder that died

NoVersion == 0
NoRow == [state |-> "absent", version |-> NoVersion]
NoFiles == [active |-> NoVersion, previous |-> NoVersion]
LifecycleOps == {"install", "enable", "disable", "quarantine", "upgrade",
                 "rollback", "uninstall"}

InTransaction == {"decide", "lock", "promote", "sign", "activate", "switch", "commit"}

VARIABLES
    row,           \* addon_modules: state and manifest version
    made, signed,  \* versions materialized / with release metadata
    files,         \* .active.json
    installLock,   \* .<version>.install.lock
    activationLock,\* .activation.lock
    view, fresh,   \* the authorizer's registry; its refresh is not due
    mu,            \* holder of moduleRuntimeState.mu
    op, arg, pc,   \* each request: operation, version, next step
    tries,         \* transactions it has begun
    snap, dirty,   \* its snapshot; the row has changed since
    expected,      \* activation state an upgrade or rollback read first
    failures,      \* consecutive failed invocations
    mustDeny       \* an authorization began after the module was taken away

vars == <<row, made, signed, files, installLock, activationLock, view, fresh, mu,
          op, arg, pc, tries, snap, dirty, expected, failures, mustDeny>>

disk == <<made, signed, files, installLock, activationLock>>
cache == <<view, fresh, mu>>
request == <<op, arg, tries, snap, dirty, expected>>

Rows == [state: {"installed", "enabled", "disabled", "quarantined"}, version: Versions]
            \cup {NoRow}

TypeOK ==
    /\ row \in Rows /\ view \in Rows
    /\ made \subseteq Versions /\ signed \subseteq made
    /\ files \in [active: Versions \cup {NoVersion}, previous: Versions \cup {NoVersion}]
    /\ installLock \in [Versions -> Actors \cup {Nobody, Dead}]
    /\ activationLock \in Actors \cup {Nobody, Dead}
    /\ fresh \in BOOLEAN /\ mu \in Actors \cup {Nobody}
    /\ op \in [Actors -> LifecycleOps \cup {"invoke", "authorize"}]
    /\ arg \in [Actors -> Versions \cup {NoVersion}]
    /\ pc \in [Actors -> {"idle", "begin", "decide", "lock", "promote", "sign", "activate",
                          "switch", "commit", "respond", "resolve", "run", "cache",
                          "store", "check", "authorized"}]
    /\ tries \in [Actors -> 0..TxAttempts]
    /\ snap \in [Actors -> Rows] /\ dirty \in [Actors -> BOOLEAN]
    /\ expected \in [Actors -> [active: Versions \cup {NoVersion}, previous: Versions \cup {NoVersion}]]
    /\ failures \in 0..Threshold
    /\ mustDeny \in [Actors -> BOOLEAN]

Init ==
    /\ row = NoRow /\ made = {} /\ signed = {} /\ files = NoFiles
    /\ installLock = [v \in Versions |-> Nobody] /\ activationLock = Nobody
    /\ view = NoRow /\ fresh = FALSE /\ mu = Nobody
    /\ op = [r \in Actors |-> "invoke"] /\ arg = [r \in Actors |-> NoVersion]
    /\ pc = [r \in Actors |-> "idle"] /\ tries = [r \in Actors |-> 0]
    /\ snap = [r \in Actors |-> NoRow] /\ dirty = [r \in Actors |-> FALSE]
    /\ expected = [r \in Actors |-> NoFiles]
    /\ failures = 0 /\ mustDeny = [r \in Actors |-> FALSE]

Goto(r, step) == pc' = [pc EXCEPT ![r] = step]

\* The request is over; nothing of it is kept.
Forget(r) ==
    /\ Goto(r, "idle")
    /\ op' = [op EXCEPT ![r] = "invoke"] /\ arg' = [arg EXCEPT ![r] = NoVersion]
    /\ tries' = [tries EXCEPT ![r] = 0]
    /\ snap' = [snap EXCEPT ![r] = NoRow] /\ dirty' = [dirty EXCEPT ![r] = FALSE]
    /\ expected' = [expected EXCEPT ![r] = NoFiles]

-----------------------------------------------------------------------------
(* Lifecycle requests *)

\* ReadActiveVersion and, for a rollback, ReadReleaseMetadata run before the
\* transaction; the package's own version is the argument of the others.
Start(r, o, v) ==
    /\ pc[r] = "idle" /\ o \in Kinds
    /\ op' = [op EXCEPT ![r] = o]
    /\ \/ o \in {"install", "upgrade"} /\ v # NoVersion /\ arg' = [arg EXCEPT ![r] = v]
       \/ o = "rollback" /\ v = NoVersion /\ files.previous \in signed
            /\ arg' = [arg EXCEPT ![r] = files.previous]
       \/ o \in LifecycleOps \ {"install", "upgrade", "rollback"} /\ v = NoVersion
            /\ UNCHANGED arg
    /\ IF o \in {"upgrade", "rollback"}
       THEN files.active # NoVersion /\ expected' = [expected EXCEPT ![r] = files]
       ELSE UNCHANGED expected
    /\ Goto(r, "begin")
    /\ UNCHANGED <<row, disk, cache, tries, snap, dirty, failures, mustDeny>>

\* RestoreRegistry in a new transaction.
Begin(r) ==
    /\ pc[r] = "begin"
    /\ tries' = [tries EXCEPT ![r] = @ + 1]
    /\ snap' = [snap EXCEPT ![r] = row]
    /\ dirty' = [dirty EXCEPT ![r] = FALSE]
    /\ Goto(r, "decide")
    /\ UNCHANGED <<row, disk, cache, op, arg, expected, failures, mustDeny>>

\* The registry's transition, and the version check of upgrade and rollback.
Allowed(r) ==
    LET s == snap[r].state
    IN CASE op[r] = "install" -> s = "absent"
         [] op[r] \in {"enable", "disable"} -> s \notin {"absent", "quarantined"}
         [] op[r] = "quarantine" -> s # "absent"
         [] op[r] = "uninstall" -> s \notin {"absent", "enabled"}
         [] op[r] \in {"upgrade", "rollback"} ->
              /\ s \in {"installed", "disabled"}
              /\ snap[r].version = expected[r].active
              /\ arg[r] # snap[r].version

\* The row the transaction writes.
Wanted(r) ==
    CASE op[r] = "install" -> [state |-> "installed", version |-> arg[r]]
      [] op[r] = "enable" -> [snap[r] EXCEPT !.state = "enabled"]
      [] op[r] = "disable" -> [snap[r] EXCEPT !.state = "disabled"]
      [] op[r] = "quarantine" -> [snap[r] EXCEPT !.state = "quarantined"]
      [] op[r] = "uninstall" -> NoRow
      [] op[r] \in {"upgrade", "rollback"} -> [snap[r] EXCEPT !.version = arg[r]]

Decide(r) ==
    /\ pc[r] = "decide"
    /\ IF Allowed(r)
       THEN /\ Goto(r, CASE op[r] \in {"install", "upgrade"} -> "lock"
                         [] op[r] = "rollback" -> "activate"
                         [] OTHER -> "commit")
            /\ UNCHANGED request
       ELSE Forget(r)
    /\ UNCHANGED <<row, disk, cache, failures, mustDeny>>

\* Faulty variant: a version that exists is taken for complete.
LockTrusting(r) ==
    /\ pc[r] = "lock"
    /\ IF arg[r] \in made
       THEN Goto(r, "activate") /\ UNCHANGED <<installLock, request>>
       ELSE IF installLock[arg[r]] \in {Nobody, Dead}
            THEN /\ installLock' = [installLock EXCEPT ![arg[r]] = r]
                 /\ Goto(r, "promote") /\ UNCHANGED request
            ELSE Forget(r) /\ UNCHANGED installLock
    /\ UNCHANGED <<row, made, signed, files, activationLock, cache, failures, mustDeny>>

\* MaterializePayloadRetrySafe: an identical version is accepted, a lock file
\* is respected until its holder has been dead for long enough.
Lock(r) ==
    /\ pc[r] = "lock"
    /\ IF arg[r] \in made
       THEN Goto(r, "sign") /\ UNCHANGED <<installLock, request>>
       ELSE IF installLock[arg[r]] \in {Nobody, Dead}
            THEN /\ installLock' = [installLock EXCEPT ![arg[r]] = r]
                 /\ Goto(r, "promote") /\ UNCHANGED request
            ELSE Forget(r) /\ UNCHANGED installLock
    /\ UNCHANGED <<row, made, signed, files, activationLock, cache, failures, mustDeny>>

\* The staging directory is complete and is renamed; the lock is removed.
Promote(r) ==
    /\ pc[r] = "promote"
    /\ made' = made \cup {arg[r]}
    /\ installLock' = [installLock EXCEPT ![arg[r]] = Nobody]
    /\ Goto(r, "sign")
    /\ UNCHANGED <<row, signed, files, activationLock, cache, request, failures, mustDeny>>

\* PersistReleaseMetadata
Sign(r) ==
    /\ pc[r] = "sign"
    /\ signed' = signed \cup {arg[r]}
    /\ Goto(r, "activate")
    /\ UNCHANGED <<row, made, files, installLock, activationLock, cache, request,
                   failures, mustDeny>>

\* acquireActivationLock; a lock file left by a dead process is never reclaimed.
Activate(r) ==
    /\ pc[r] = "activate"
    /\ IF activationLock = Nobody
       THEN activationLock' = r /\ Goto(r, "switch") /\ UNCHANGED request
       ELSE Forget(r) /\ UNCHANGED activationLock
    /\ UNCHANGED <<row, made, signed, files, installLock, cache, failures, mustDeny>>

\* ActivateMaterializedVersion, or ActivateExpectedPreviousVersion which
\* refuses an activation state that is neither the expected one nor its swap.
Switch(r) ==
    LET swapped == [active |-> expected[r].previous, previous |-> expected[r].active]
    IN /\ pc[r] = "switch"
       /\ activationLock' = Nobody
       /\ IF op[r] = "rollback"
          THEN IF files \in {expected[r], swapped}
               THEN files' = swapped /\ Goto(r, "commit") /\ UNCHANGED request
               ELSE Forget(r) /\ UNCHANGED files
          ELSE /\ files' = IF files.active = arg[r] THEN files
                           ELSE [active |-> arg[r], previous |-> files.active]
               /\ Goto(r, "commit") /\ UNCHANGED request
       /\ UNCHANGED <<row, made, signed, installLock, cache, failures, mustDeny>>

\* A serialization failure: the same closure runs again, or the request fails.
Abort(r) ==
    /\ pc[r] = "commit"
    /\ IF tries[r] < TxAttempts
       THEN Goto(r, "begin") /\ UNCHANGED request
       ELSE Forget(r)
    /\ UNCHANGED <<row, disk, cache, failures, mustDeny>>

\* A step fails with any other error: its lock file is removed and the request
\* ends; versions and activation already on disk stay.
Fail(r) ==
    /\ pc[r] \in InTransaction \ {"decide"}
    /\ installLock' = [v \in Versions |-> IF installLock[v] = r THEN Nobody ELSE installLock[v]]
    /\ activationLock' = IF activationLock = r THEN Nobody ELSE activationLock
    /\ Forget(r)
    /\ UNCHANGED <<row, made, signed, files, cache, failures, mustDeny>>

\* Faulty variant: READ COMMITTED, the last writer wins.
CommitBlindly(r) ==
    /\ pc[r] = "commit"
    /\ row' = Wanted(r)
    /\ dirty' = [dirty EXCEPT ![r] = FALSE]
    /\ mustDeny' = [q \in Actors |-> mustDeny[q] /\ row'.state # "enabled"]
    /\ failures' = IF row'.state = "enabled" THEN failures ELSE 0
    /\ Goto(r, "respond")
    /\ UNCHANGED <<disk, cache, op, arg, tries, snap, expected>>

\* Save or Delete and the commit.  PostgreSQL aborts a SERIALIZABLE writer
\* whose row another transaction has changed.
Commit(r) ==
    /\ pc[r] = "commit"
    /\ ~ dirty[r]
    /\ row' = Wanted(r)
    /\ dirty' = [q \in Actors |-> q # r /\ (dirty[q] \/ pc[q] \in InTransaction)]
    /\ mustDeny' = [q \in Actors |-> mustDeny[q] /\ row'.state # "enabled"]
    /\ failures' = IF row'.state = "enabled" THEN failures ELSE 0
    /\ Goto(r, "respond")
    /\ UNCHANGED <<disk, cache, op, arg, tries, snap, expected>>

\* Faulty variant: the cached registry is left to expire.
RespondOnly(r) ==
    /\ pc[r] = "respond"
    /\ Forget(r)
    /\ UNCHANGED <<row, disk, cache, failures, mustDeny>>

\* invalidateModuleRuntimeRegistry, then the response.
Respond(r) ==
    /\ pc[r] = "respond"
    /\ mu = Nobody
    /\ fresh' = FALSE
    /\ Forget(r)
    /\ UNCHANGED <<row, disk, view, mu, failures, mustDeny>>

-----------------------------------------------------------------------------
(* handleModuleDeviceInvocation *)

\* The snapshot comes from the database, the version to run from the disk.
Invoke(r) ==
    /\ pc[r] = "idle" /\ "invoke" \in Kinds
    /\ row.state = "enabled"
    /\ snap' = [snap EXCEPT ![r] = row]
    /\ Goto(r, "resolve")
    /\ UNCHANGED <<row, disk, cache, op, arg, tries, dirty, expected, failures, mustDeny>>

\* One more failure in a row.
OneMore == IF failures < Threshold THEN failures + 1 ELSE failures

\* resolveRuntime; a mismatch is a failed invocation.
Resolve(r) ==
    /\ pc[r] = "resolve"
    /\ IF files.active = snap[r].version
       THEN /\ arg' = [arg EXCEPT ![r] = files.active]
            /\ Goto(r, "run") /\ UNCHANGED <<op, tries, snap, dirty, expected, failures>>
       ELSE Forget(r) /\ failures' = OneMore
    /\ UNCHANGED <<row, disk, cache, mustDeny>>

\* The guest ends.  The supervisor counts failures in a map of its own, and
\* every request builds a supervisor: one failure never reaches the threshold.
Run(r) ==
    /\ pc[r] = "run"
    /\ failures' \in {0, OneMore}
    /\ Forget(r)
    /\ UNCHANGED <<row, disk, cache, mustDeny>>

-----------------------------------------------------------------------------
(* Authorization of a module's credentials: configuredModuleAuthorizer *)

Authorize(r) ==
    /\ pc[r] = "idle" /\ "authorize" \in Kinds
    /\ mu = Nobody
    /\ op' = [op EXCEPT ![r] = "authorize"]
    /\ mustDeny' = [mustDeny EXCEPT ![r] =
                      row.state # "enabled" /\ \A q \in Actors : pc[q] # "respond"]
    /\ IF fresh
       THEN Goto(r, "check") /\ UNCHANGED mu
       ELSE Goto(r, "cache") /\ mu' = r
    /\ UNCHANGED <<row, disk, view, fresh, arg, tries, snap, dirty, expected, failures>>

\* refreshModuleRegistry under the mutex; when it fails nobody is authorized.
Load(r) ==
    /\ pc[r] = "cache"
    /\ \/ snap' = [snap EXCEPT ![r] = row] /\ Goto(r, "store")
            /\ UNCHANGED <<mu, op, arg, tries, dirty, expected, mustDeny>>
       \/ Forget(r) /\ mu' = Nobody /\ mustDeny' = [mustDeny EXCEPT ![r] = FALSE]
    /\ UNCHANGED <<row, disk, view, fresh, failures>>

Store(r) ==
    /\ pc[r] = "store"
    /\ view' = snap[r] /\ fresh' = TRUE /\ mu' = Nobody
    /\ Goto(r, "check")
    /\ UNCHANGED <<row, disk, request, failures, mustDeny>>

\* IdentityManager.Validate against the shared registry.
Check(r) ==
    /\ pc[r] = "check"
    /\ IF view.state = "enabled"
       THEN Goto(r, "authorized") /\ UNCHANGED <<request, mustDeny>>
       ELSE Forget(r) /\ mustDeny' = [mustDeny EXCEPT ![r] = FALSE]
    /\ UNCHANGED <<row, disk, cache, failures>>

Serve(r) ==
    /\ pc[r] = "authorized"
    /\ Forget(r)
    /\ mustDeny' = [mustDeny EXCEPT ![r] = FALSE]
    /\ UNCHANGED <<row, disk, cache, failures>>

\* The refresh interval passes.
RefreshDue ==
    /\ fresh /\ mu = Nobody
    /\ fresh' = FALSE
    /\ UNCHANGED <<row, disk, view, mu, op, arg, pc, tries, snap, dirty, expected,
                   failures, mustDeny>>

-----------------------------------------------------------------------------
\* The process dies: transactions roll back, lock files stay.
Crash ==
    /\ \E r \in Actors : pc[r] # "idle"
    /\ pc' = [r \in Actors |-> "idle"]
    /\ op' = [r \in Actors |-> "invoke"] /\ arg' = [r \in Actors |-> NoVersion]
    /\ tries' = [r \in Actors |-> 0]
    /\ snap' = [r \in Actors |-> NoRow] /\ dirty' = [r \in Actors |-> FALSE]
    /\ expected' = [r \in Actors |-> NoFiles]
    /\ installLock' = [v \in Versions |-> IF installLock[v] = Nobody THEN Nobody ELSE Dead]
    /\ activationLock' = IF activationLock = Nobody THEN Nobody ELSE Dead
    /\ view' = NoRow /\ fresh' = FALSE /\ mu' = Nobody
    /\ mustDeny' = [r \in Actors |-> FALSE]
    /\ UNCHANGED <<row, made, signed, files, failures>>

Lifecycle(r) ==
    \/ \E o \in LifecycleOps, v \in Versions \cup {NoVersion} : Start(r, o, v)
    \/ Begin(r) \/ Decide(r) \/ Lock(r) \/ Promote(r) \/ Sign(r) \/ Activate(r)
    \/ Switch(r) \/ Abort(r) \/ Fail(r) \/ Commit(r) \/ Respond(r)

Use(r) ==
    \/ Invoke(r) \/ Resolve(r) \/ Run(r)
    \/ Authorize(r) \/ Load(r) \/ Store(r) \/ Check(r) \/ Serve(r)

Next == (\E r \in Actors : Lifecycle(r) \/ Use(r)) \/ RefreshDue \/ Crash

Spec == Init /\ [][Next]_vars

-----------------------------------------------------------------------------
(* Properties *)

\* What an invocation runs is a version whose files and signed metadata are
\* complete, and it is the version of the enabled row the request read; the
\* same holds of the version a rollback would return to.  Materialization,
\* metadata and activation are three steps of requests that may race and die.
RunsCompleteVersion ==
    /\ \A r \in Actors : pc[r] = "run" => arg[r] \in signed /\ arg[r] = snap[r].version
    /\ {files.active, files.previous} \subseteq signed \cup {NoVersion}

\* A quarantined module leaves quarantine only by being uninstalled, whatever
\* requests were under way when it was quarantined.
LeavesQuarantine ==
    row.state = "quarantined" /\ row'.state \notin {"quarantined", "absent"}
\* docs/MODULE_LIFECYCLE_API.md: after a lifecycle change "the next module
\* authorization request reloads committed lifecycle state immediately".  An
\* authorization that began after the module had been taken away, and the
\* operator told so, is not granted.
RevocationIsSeen ==
    \A r \in Actors : mustDeny[r] => pc[r] # "authorized"

\* docs/ADDON_MODULES.md: "Repeated execution failures cause quarantine".
FailuresQuarantine ==
    Threshold > 0 /\ failures = Threshold => row.state # "enabled"
=============================================================================
