--------------------------- MODULE ScriptExecution ---------------------------
(***************************************************************************)
(* Running a script on chosen devices now (script_handlers.go) and what    *)
(* the agent does with the durable job (agent/scripts/executor.go).  The   *)
(* scheduled runs are module ScriptSchedule.                               *)
(*                                                                         *)
(* handleRunScript reads the script, then each device, then inserts four   *)
(* rows per device: the execution the operator sees, the job, its target   *)
(* and the dispatch event.  All of it is one READ COMMITTED transaction,   *)
(* so between its statements devices are disabled and scripts deleted by   *)
(* others.  Nothing copies the outcome of the job to script_executions:    *)
(* RunJob does not publish on the script-result subject, so an execution   *)
(* stays "pending" and its outcome is read from the job.                   *)
(***************************************************************************)
EXTENDS Naturals, Sequences

CONSTANTS
  Tenants,
  Devices,
  TenantOf,     \* the tenant of a device
  Owner,        \* the tenant that owns the script
  Public,       \* whether the script is shared with every tenant
  Calls,        \* the requests, run and delete alike
  MaxIds,       \* bound on the length of device_ids
  MaxChanges,   \* bound on changes of a device's status by others
  None

VARIABLES
  script,       \* "none", "stored" or "deleted"
  usable,       \* devices that are active, not disabled and enrolled
  call,         \* the transactions in flight
  executions,   \* committed script_executions: [of, device, tenant]
  jobs,         \* committed jobs with their targets and events
  changes

vars == <<script, usable, call, executions, jobs, changes>>

Ids == Devices \cup {""}
Lists == UNION {[1 .. n -> Ids] : n \in 0 .. MaxIds}

NoCall == [at |-> "idle", tenant |-> None, ids |-> <<>>, targets |-> <<>>,
           wrote |-> <<>>]

Statements == <<"execution", "job", "target", "event">>

(* "of" stands for the random identifiers of one round of the loop. *)
ExecutionRow == [of : Calls \X (1 .. MaxIds), device : Devices,
                 tenant : Tenants]

JobRow == [of : Calls \X (1 .. MaxIds), device : Devices, tenant : Tenants,
           rows : SUBSET {"job", "target", "event"},
           status : {"queued", "succeeded", "failed"}]

WrittenRow == [round : Nat, kind : {"execution", "job", "target", "event"}]

CallState == [at : {"idle", "devices", "insert", "done", "refused"},
              tenant : Tenants \cup {None}, ids : Seq(Ids), targets : Seq(Devices),
              wrote : Seq(WrittenRow)]

(* Committed rows belong to known calls, devices and tenants. *)
TypeOK ==
  /\ script \in {"none", "stored", "deleted"}
  /\ usable \subseteq Devices
  /\ call \in [Calls -> CallState]
  /\ executions \subseteq ExecutionRow
  /\ jobs \subseteq JobRow
  /\ changes \in 0 .. MaxChanges

Init ==
  /\ script = "none"
  /\ usable = Devices
  /\ call = [c \in Calls |-> NoCall]
  /\ executions = {}
  /\ jobs = {}
  /\ changes = 0

-----------------------------------------------------------------------------
handleCreateScript ==
  /\ script = "none"
  /\ script' = "stored"
  /\ UNCHANGED <<usable, call, executions, jobs, changes>>

(* An execution row that refers to the script holds a key-share lock on it *)
(* until its transaction ends.                                             *)
Referenced == \E c \in Calls : call[c].at = "insert" /\ call[c].wrote # <<>>

(* The foreign key of committed executions is set to NULL. *)
handleDeleteScript ==
  /\ script = "stored"
  /\ ~ Referenced
  /\ script' = "deleted"
  /\ UNCHANGED <<usable, call, executions, jobs, changes>>

ChangeDevice(d) ==
  /\ changes < MaxChanges
  /\ changes' = changes + 1
  /\ usable' = IF d \in usable THEN usable \ {d} ELSE usable \cup {d}
  /\ UNCHANGED <<script, call, executions, jobs>>

-----------------------------------------------------------------------------
Visible(t) == script = "stored" /\ (t = Owner \/ Public)

(* The script is found for the tenant of the URL. *)
RunLoads(c, t, ids) ==
  /\ call[c].at = "idle"
  /\ ids # <<>>
  /\ call' = [call EXCEPT ![c] =
       IF Visible(t) THEN [NoCall EXCEPT !.at = "devices", !.tenant = t,
                                         !.ids = ids]
       ELSE [NoCall EXCEPT !.at = "refused"]]
  /\ UNCHANGED <<script, usable, executions, jobs, changes>>

Among(list, x) == \E i \in 1 .. Len(list) : list[i] = x

(* Empty and repeated identifiers are skipped... *)
Skips(c, d) == d = "" \/ Among(call[c].targets, d)

Available(c, d) == d \in usable /\ TenantOf[d] = call[c].tenant

(* ...and one device that is not available refuses the whole request. *)
ValidateTarget(c) ==
  /\ call[c].at = "devices"
  /\ call[c].ids # <<>>
  /\ LET q == call[c]
         d == Head(q.ids) IN
       call' = [call EXCEPT ![c] =
         IF Skips(c, d) THEN [q EXCEPT !.ids = Tail(q.ids)]
         ELSE IF Available(c, d)
              THEN [q EXCEPT !.ids = Tail(q.ids), !.targets = Append(q.targets, d)]
              ELSE [NoCall EXCEPT !.at = "refused"]]
  /\ UNCHANGED <<script, usable, executions, jobs, changes>>

Validated(c) ==
  /\ call[c].at = "devices"
  /\ call[c].ids = <<>>
  /\ call' = [call EXCEPT ![c] =
       IF call[c].targets = <<>> THEN [NoCall EXCEPT !.at = "refused"]
       ELSE [call[c] EXCEPT !.at = "insert"]]
  /\ UNCHANGED <<script, usable, executions, jobs, changes>>

(* The next row this transaction inserts: four for each target in turn. *)
RowAfter(n) == [round |-> (n \div 4) + 1, kind |-> Statements[(n % 4) + 1]]
Position(c) == Len(call[c].wrote)
NextRow(c) == RowAfter(Position(c))

InsertRow(c) ==
  /\ call[c].at = "insert"
  /\ Position(c) < 4 * Len(call[c].targets)
  /\ NextRow(c).kind = "execution" => script = "stored"
  /\ call' = [call EXCEPT ![c].wrote = Append(@, NextRow(c))]
  /\ UNCHANGED <<script, usable, executions, jobs, changes>>

Wrote(c, n, kind) == Among(call[c].wrote, [round |-> n, kind |-> kind])

Stored(c) ==
  LET rounds(kind) == {n \in DOMAIN call[c].targets : Wrote(c, n, kind)} IN
  /\ executions' = executions \cup
       {[of |-> <<c, n>>, device |-> call[c].targets[n],
         tenant |-> call[c].tenant] : n \in rounds("execution")}
  /\ jobs' = jobs \cup
       {[of |-> <<c, n>>, device |-> call[c].targets[n],
         tenant |-> TenantOf[call[c].targets[n]], status |-> "queued",
         rows |-> {k \in {"job", "target", "event"} : Wrote(c, n, k)}] :
          n \in rounds("job")}

(* An answer below 400 commits what was written. *)
Commits(c) ==
  /\ call[c].at = "insert"
  /\ Position(c) = 4 * Len(call[c].targets)
  /\ call' = [call EXCEPT ![c] = [NoCall EXCEPT !.at = "done"]]
  /\ Stored(c)
  /\ UNCHANGED <<script, usable, changes>>

KeptOnFailure(c) == Stored(c)

(* Any other answer rolls it back. *)
UndoneOnFailure(c) == UNCHANGED <<executions, jobs>>

(* A statement fails: a lost connection, or the foreign key of a script    *)
(* deleted since it was read.                                              *)
InsertFails(c) ==
  /\ call[c].at = "insert"
  /\ Position(c) < 4 * Len(call[c].targets)
  /\ call' = [call EXCEPT ![c] = [NoCall EXCEPT !.at = "refused"]]
  /\ UndoneOnFailure(c)
  /\ UNCHANGED <<script, usable, changes>>

-----------------------------------------------------------------------------
(* The interpreter's exit code, or the deadline of the command. *)
Outcomes == {"zero", "nonzero", "deadline"}

RunJob(j, outcome) ==
  /\ j.status = "queued"
  /\ jobs' = (jobs \ {j}) \cup
       {[j EXCEPT !.status = IF outcome = "zero" THEN "succeeded"
                             ELSE "failed"]}
  /\ UNCHANGED <<script, usable, call, executions, changes>>

Next ==
  \/ handleCreateScript
  \/ handleDeleteScript
  \/ \E d \in Devices : ChangeDevice(d)
  \/ \E c \in Calls, t \in Tenants, ids \in Lists :
       RunLoads(c, t, ids)
  \/ \E c \in Calls :
       \/ ValidateTarget(c)
       \/ Validated(c)
       \/ InsertRow(c)
       \/ Commits(c)
       \/ InsertFails(c)
  \/ \E j \in jobs, o \in Outcomes : RunJob(j, o)

Spec == Init /\ [][Next]_vars

-----------------------------------------------------------------------------
(* What an operator is shown and what is dispatched agree, whatever fails  *)
(* half way: for each device named, once or several times, there is one    *)
(* execution of the tenant of the URL and one job with its target and its  *)
(* event for the same device (script_handlers.go:204-361, "their owner     *)
(* tenant must never become the execution/dispatch tenant"); and a refused *)
(* request leaves nothing behind.                                          *)
RunIsWhole ==
  \A c \in Calls :
    LET mine == {e \in executions : e.of[1] = c}
        work == {j \in jobs : j.of[1] = c}
    IN /\ call[c].at # "done" => mine = {} /\ work = {}
       /\ {<<e.of, e.device, e.tenant>> : e \in mine}
            = {<<j.of, j.device, j.tenant>> : j \in work}
       /\ \A j, k \in work : j.device = k.device => j = k
       /\ \A j \in work : j.rows = {"job", "target", "event"}

(* Why: a request names each device once, all of its own tenant, and has    *)
(* written the rows of one target after the other.                          *)
CallInv(q) ==
  /\ Len(q.ids) + Len(q.targets) <= MaxIds
  /\ q.at \in {"devices", "insert"} => q.tenant \in Tenants
  /\ \A m, n \in 1 .. Len(q.targets) :
       /\ TenantOf[q.targets[n]] = q.tenant
       /\ q.targets[m] = q.targets[n] => m = n
  /\ \A n \in 1 .. Len(q.wrote) : q.wrote[n] = RowAfter(n - 1)

RunInv == TypeOK /\ RunIsWhole /\ \A c \in Calls : CallInv(call[c])
=============================================================================
