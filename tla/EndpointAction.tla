--------------------------- MODULE EndpointAction ---------------------------
(***************************************************************************)
(* handleDeviceAction and handleBulkDeviceAction (device_handlers.go) and   *)
(* the capabilities an agent reports (agent_capabilities.go).  A request is *)
(* one transaction: it validates every device with a query of its own,      *)
(* looks its idempotency key up, inserts the job and then the target,       *)
(* outbox and audit rows, and commits; every refusal rolls it back.  The    *)
(* client repeats a request whose answer it lost, concurrently or later,    *)
(* and may reuse a key for something else.                                  *)
(***************************************************************************)
EXTENDS Integers

CONSTANTS Devices,
          Placed,   \* the devices that have a client and a site
          Calls,    \* requests: [action, devices, bulk, admin, reason, scheduled, key]
          MaxFlips, \* changes of the environment considered
          None

VARIABLES device,   \* status and reported job types of each device
          active,   \* the MSP is not suspended
          window,   \* maintenance windows of the MSP: none, one that covers now, one that does not
          approval, \* actions whose policy requires an approval
          flips,
          jobs,     \* committed jobs
          pending,  \* the job each open transaction has inserted
          call      \* where each request is and how it was answered

vars == <<device, active, window, approval, flips, jobs, pending, call>>

(* operationRegistry.                                                       *)
Op(destructive, admin, reason, schedule, offline) ==
  [destructive |-> destructive, admin |-> admin, reason |-> reason,
   schedule |-> schedule, offline |-> offline]

ServiceOps == {"service_start", "service_stop", "service_restart"}
Actions == {"refresh", "reboot", "shutdown", "process_kill"} \cup ServiceOps

OperationRegistry == [a \in Actions |->
  CASE a = "refresh" -> Op(FALSE, FALSE, FALSE, TRUE, FALSE)
    [] a \in {"reboot", "shutdown"} -> Op(TRUE, TRUE, TRUE, FALSE, TRUE)
    [] a \in ServiceOps -> Op(FALSE, TRUE, FALSE, TRUE, FALSE)
    [] a = "process_kill" -> Op(FALSE, TRUE, TRUE, FALSE, FALSE)]

BulkActions == {"refresh", "reboot", "shutdown"}

(* What needs an approval unless a stored policy says otherwise.            *)
DefaultApprovalPolicy == {"reboot", "shutdown", "process_kill"}

Init ==
  /\ device = [d \in Devices |-> [status |-> "online", types |-> None]]
  /\ active = TRUE /\ window = "none" /\ approval \in {DefaultApprovalPolicy, {}} /\ flips = 0
  /\ jobs = {}
  /\ pending = [c \in Calls |-> None]
  /\ call = [c \in Calls |-> [pc |-> "new", checked |-> {}, job |-> None]]

-----------------------------------------------------------------------------
(* The request up to the first query: the operation's own requirements.     *)
Accepted(c) ==
  LET op == OperationRegistry[c.action] IN
  /\ c.bulk => c.action \in BulkActions
  /\ c.scheduled => op.schedule
  /\ op.reason => c.reason
  /\ op.admin => c.admin

Goto(c, pc) == call' = [call EXCEPT ![c].pc = pc]

(* An answer that names a job, or none: a refusal, a conflict, an error.    *)
Answer(c, job) == call' = [call EXCEPT ![c].pc = "done", ![c].job = job]
Refuse(c) == Answer(c, None)

Receive(c) ==
  /\ call[c].pc = "new"
  /\ IF Accepted(c) /\ active THEN Goto(c, "validate") ELSE Refuse(c)
  /\ UNCHANGED <<device, active, window, approval, flips, jobs, pending>>

(* maintenanceWindowAllows: a configured window must cover the time; a      *)
(* scheduled action is not destructive.                                     *)
WindowAllows == window # "outside"

(* isActionSupportedByCapabilities; a device that reported nothing is not   *)
(* held to it.                                                              *)
Supported(d, action) == device[d].types = None \/ action \in device[d].types

Eligible(d, c) ==
  LET op == OperationRegistry[c.action] IN
  /\ device[d].status # "disabled"
  /\ op.offline \/ device[d].status = "online"
  /\ op.destructive => WindowAllows
  /\ Supported(d, c.action)

(* One device at a time; mixed sets fail as a whole.                        *)
ValidateDevice(c, d) ==
  /\ call[c].pc = "validate" /\ d \in c.devices \ call[c].checked
  /\ IF Eligible(d, c)
     THEN call' = [call EXCEPT ![c].checked = @ \cup {d}]
     ELSE Refuse(c)
  /\ UNCHANGED <<device, active, window, approval, flips, jobs, pending>>

CheckApproval(c) ==
  /\ call[c].pc = "validate" /\ call[c].checked = c.devices
  /\ IF c.action \in approval THEN Refuse(c) ELSE Goto(c, "lookup")
  /\ UNCHANGED <<device, active, window, approval, flips, jobs, pending>>

(* endpointRequestHash: what the request asks, without its key.             *)
RequestHash(c) == [devices |-> c.devices, action |-> c.action, bulk |-> c.bulk,
                   scheduled |-> c.scheduled, reason |-> c.reason]

WithKey(key) == {j \in jobs : j.key = key}

(* writeIdempotentEndpointResult: a key used before answers with its job,   *)
(* or with a conflict when the request was another one.                     *)
AnsweredByKey(c, j) == IF j.hash = RequestHash(c) THEN j.by ELSE None

Lookup(c) ==
  /\ call[c].pc = "lookup"
  /\ IF c.key # None /\ WithKey(c.key) # {}
     THEN \E j \in WithKey(c.key) : Answer(c, AnsweredByKey(c, j))
     ELSE Goto(c, "insert")
  /\ UNCHANGED <<device, active, window, approval, flips, jobs, pending>>

(* The unique index on (msp_id, idempotency_key): an insert waits for an    *)
(* open transaction that holds the key and fails on a committed job.        *)
KeyHeld(c) ==
  c.key # None /\ \E o \in Calls \ {c} : pending[o] # None /\ pending[o].key = c.key

NeverTaken(c) == FALSE
KeyTaken(c) == c.key # None /\ WithKey(c.key) # {}

(* jobs.client_id is NOT NULL, and the bulk handler gives none; the single  *)
(* one writes the device's client and site, and '' is no UUID.              *)
RowIsValid(c) == ~ c.bulk /\ c.devices \subseteq Placed

(* A job with the rows it has so far.                                       *)
JobOf(c, rows, audit) ==
  [by |-> c, key |-> c.key, hash |-> RequestHash(c), targets |-> rows, outbox |-> rows,
   audit |-> audit]

InsertJob(c) ==
  /\ call[c].pc = "insert" /\ ~ KeyHeld(c)
  /\ IF KeyTaken(c) \/ ~ RowIsValid(c)
     THEN Refuse(c) /\ UNCHANGED pending
     ELSE /\ Goto(c, "rows")
          /\ pending' = [pending EXCEPT ![c] = JobOf(c, {}, {})]
  /\ UNCHANGED <<device, active, window, approval, flips, jobs>>

InsertTarget(c, d) ==
  /\ call[c].pc = "rows" /\ d \in c.devices \ pending[c].targets
  /\ pending' = [pending EXCEPT ![c].targets = @ \cup {d}, ![c].outbox = @ \cup {d}]
  /\ UNCHANGED <<device, active, window, approval, flips, jobs, call>>

(* The audit rows and the commit; the answer may be lost on the way back.   *)
CommitJob(c) ==
  /\ call[c].pc = "rows" /\ pending[c].targets = c.devices
  /\ jobs' = jobs \cup {[pending[c] EXCEPT !.audit = c.devices]}
  /\ pending' = [pending EXCEPT ![c] = None]
  /\ Answer(c, c)
  /\ UNCHANGED <<device, active, window, approval, flips>>

(* Any statement may fail, and an error rolls everything back.              *)
Fail(c) ==
  /\ call[c].pc \in {"lookup", "insert", "rows"}
  /\ pending' = [pending EXCEPT ![c] = None]
  /\ Refuse(c)
  /\ UNCHANGED <<device, active, window, approval, flips, jobs>>

-----------------------------------------------------------------------------
(* Meanwhile: devices go offline, are disabled and report capabilities,     *)
(* windows, policies and the MSP change.                                    *)
Flip == flips < MaxFlips /\ flips' = flips + 1 /\ UNCHANGED <<jobs, pending, call>>

SetStatus(d, status) ==
  /\ Flip /\ device[d].status # status
  /\ device' = [device EXCEPT ![d].status = status]
  /\ UNCHANGED <<active, window, approval>>

(* The upsert of agent_capabilities, with its timestamp and audit row.      *)
StoreCapabilities(d, types) == device' = [device EXCEPT ![d].types = types]

(* handleReportCapabilities: refused for a disabled device or a suspended   *)
(* MSP; the job types must be of the registry.                              *)
ReportCapabilities(d, types) ==
  /\ Flip /\ device[d].status # "disabled" /\ active /\ types # device[d].types
  /\ StoreCapabilities(d, types)
  /\ UNCHANGED <<active, window, approval>>

ChangeWindow(w) ==
  /\ Flip /\ w # window /\ window' = w /\ UNCHANGED <<device, active, approval>>

ChangePolicy(a) ==
  /\ Flip /\ approval' = IF a \in approval THEN approval \ {a} ELSE approval \cup {a}
  /\ UNCHANGED <<device, active, window>>

SuspendMSP ==
  /\ Flip /\ active' = ~ active /\ UNCHANGED <<device, window, approval>>

Next ==
  \/ \E c \in Calls :
       \/ Receive(c) \/ CheckApproval(c) \/ Lookup(c) \/ InsertJob(c)
       \/ CommitJob(c) \/ Fail(c)
       \/ \E d \in c.devices : ValidateDevice(c, d) \/ InsertTarget(c, d)
  \/ \E d \in Devices :
       \/ \E s \in {"online", "offline", "disabled"} : SetStatus(d, s)
       \/ \E t \in {{}, {"reboot"}} : ReportCapabilities(d, t)
  \/ \E w \in {"none", "covers", "outside"} : ChangeWindow(w)
  \/ \E a \in {c.action : c \in Calls} : ChangePolicy(a)
  \/ SuspendMSP

Spec == Init /\ [][Next]_vars

-----------------------------------------------------------------------------
DeviceState == [status : {"online", "offline", "disabled"}, types : {None} \cup SUBSET Actions]
CallState == [pc : {"new", "validate", "lookup", "insert", "rows", "done"}, checked : SUBSET Devices,
              job : Calls \cup {None}]

TypeOK ==
  /\ device \in [Devices -> DeviceState]
  /\ call \in [Calls -> CallState]
  /\ pending = [c \in Calls |-> pending[c]]
  /\ \A c \in Calls :
       /\ call[c].checked \subseteq c.devices
       /\ pending[c] # None <=> call[c].pc = "rows"

(* The idempotency key of a request: however often a client repeats it, and *)
(* however the copies interleave, at most one job carries the key, every    *)
(* accepted copy is answered with that job, and none with a job asked for   *)
(* by a different request.                                                  *)
OneJobPerKey ==
  \A c1, c2 \in {c \in Calls : call[c].job # None} :
    /\ RequestHash(call[c1].job) = RequestHash(c1)
    /\ c1.key # None /\ c1.key = c2.key => call[c1].job = call[c2].job

(* A committed job is whole: every device of the request has its target and *)
(* its dispatch and its audit row.                                           *)
JobIsWhole ==
  \A j \in jobs : j.targets = j.hash.devices /\ j.outbox = j.targets /\ j.audit = j.targets

(* Why: an open transaction holds the job it inserted, a committed job has  *)
(* all its rows, every answer names a committed job, and no key is held or  *)
(* used twice.                                                              *)
JobsInv ==
  /\ \A j \in jobs : \E c \in Calls : j = JobOf(c, c.devices, c.devices)
  /\ \A i, j \in jobs : i.key # None /\ i.key = j.key => i.by = j.by

CallInv(c) ==
  /\ call[c].job # None =>
       \E j \in jobs : j.by = call[c].job /\ j.hash = RequestHash(c) /\ (c.key # None => j.key = c.key)
  /\ call[c].pc = "rows" =>
       /\ \E rows \in SUBSET c.devices : pending[c] = JobOf(c, rows, {})
       /\ c.key # None => /\ \A j \in jobs : j.key # c.key
                          /\ \A o \in Calls : call[o].pc = "rows" /\ o.key = c.key => o = c

ActionInv == TypeOK /\ JobsInv /\ \A c \in Calls : CallInv(c)
==============================================================================
