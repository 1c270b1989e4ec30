----------------------------- MODULE AlertEngine -----------------------------
(***************************************************************************)
(* The alert of one rule on one device: the engines of the orchestrator    *)
(* replicas (internal/alerting/engine.go), their in-memory states and      *)
(* groups, and the rows of alerts and alert_rules they share.              *)
(*                                                                         *)
(* The callbacks of a subscription run one after the other; the evaluation *)
(* loop, the API and the vulnerability scan run beside them.  The mutex    *)
(* covers the change of a state, not the save and the notification that    *)
(* follow.  The orchestrator installs no MaintenanceEngine, so nothing is  *)
(* ever silenced.                                                          *)
(***************************************************************************)
EXTENDS Naturals, FiniteSets

CONSTANTS Replicas,
          Kind,          \* type of the rule, "threshold" or "heartbeat"
          Cooldown, Timeout,
          RetainFor,     \* the 24 hours of cleanupLoop
          Cves,          \* whether the vulnerability engine reports a finding
          MaxTime, MaxAlerts, MaxCrashes, MaxFailures, MaxRequests  \* bounds

VARIABLES now, alive,  \* the clock, and whether the device sends heartbeats
          ruleRow,     \* the row of alert_rules: "none", "on" or "off"
          alerts,      \* the rows of alerts by id
          used,        \* ids handed out
          mem,         \* what a replica holds in memory
          thread,      \* where the threads of a replica are
          told,        \* how often the notifier was called for an id and status
          crashes, failures, requests

vars == <<now, alive, ruleRow, alerts, used, mem, thread, told, crashes, failures, requests>>
world == <<now, alive>>
bounds == <<crashes, failures, requests>>

Ids == 1 .. MaxAlerts
Threads == {"sub", "loop", "api", "scan"}
Open == {"firing", "acknowledged"}

NoState == [s |-> "none", fired |-> 0, heard |-> 0, id |-> 0]
Idle == [pc |-> "idle", id |-> 0, at |-> 0, breach |-> FALSE]
Down == [up |-> FALSE, rule |-> "none", st |-> NoState, group |-> "none"]

Init ==
    /\ now = 1 /\ alive = TRUE /\ ruleRow = "on" /\ used = 0
    /\ alerts = [i \in Ids |-> [status |-> "none", key |-> "none", linked |-> FALSE, fired |-> 0]]
    /\ mem = [e \in Replicas |-> Down]
    /\ thread = [e \in Replicas |-> [t \in Threads |-> Idle]]
    /\ told = [i \in Ids |-> [s \in {"firing", "resolved"} |-> 0]]
    /\ crashes = 0 /\ failures = 0 /\ requests = 0

OpenOf(key) == {i \in Ids : alerts[i].key = key /\ alerts[i].status \in Open}

\* Start loads the rules and the open alerts that still belong to one.
Start(e) ==
    LET known == {i \in OpenOf("rule") : alerts[i].linked} IN
    /\ ~ mem[e].up
    /\ mem' = [mem EXCEPT ![e] =
         [up |-> TRUE, rule |-> ruleRow, group |-> "none",
          st |-> IF known = {} THEN NoState
                 ELSE LET i == CHOOSE i \in known : TRUE IN
                      [s |-> "firing", fired |-> alerts[i].fired, heard |-> 0, id |-> i]]]
    /\ UNCHANGED <<ruleRow, alerts, used, thread, told>> /\ UNCHANGED world /\ UNCHANGED bounds

At(e, t, pc) == mem[e].up /\ thread[e][t].pc = pc /\ UNCHANGED world
To(e, t, pc) == thread' = [thread EXCEPT ![e][t].pc = pc]
ToAlert(e, t, pc, i, at) == thread' = [thread EXCEPT ![e][t].pc = pc, ![e][t].id = i, ![e][t].at = at]

-----------------------------------------------------------------------------
(* Evaluation.                                                             *)

\* handleMetrics copies the matching rules, then evaluates the sample.
HandleMetrics(e, breach) ==
    /\ Kind = "threshold" /\ At(e, "sub", "idle") /\ mem[e].rule = "on"
    /\ breach => used < MaxAlerts
    /\ thread' = [thread EXCEPT ![e]["sub"] = [Idle EXCEPT !.pc = "sample", !.breach = breach]]
    /\ UNCHANGED <<ruleRow, alerts, used, mem, told>> /\ UNCHANGED bounds

CooledDown(st) == st.fired = 0 \/ now - st.fired >= Cooldown

NewId == used + 1

\* The transition to firing takes a new id; the save comes after the unlock.
Fire(e, t, mm) ==
    /\ used < MaxAlerts /\ used' = used + 1
    /\ mem' = [mm EXCEPT ![e].st = [@ EXCEPT !.s = "firing", !.fired = now, !.id = NewId]]
    /\ ToAlert(e, t, "fire", NewId, now)

Resolve(e, t, mm) ==
    /\ mem' = [mm EXCEPT ![e].st = [@ EXCEPT !.s = "ok", !.id = 0]]
    /\ ToAlert(e, t, "resolve", mm[e].st.id, mm[e].st.fired)
    /\ UNCHANGED used

\* evaluateThreshold: the state and the group are created when missing; a group
\* that exists keeps its status.
EvaluateThreshold(e) ==
    LET st == IF mem[e].st.s = "none" THEN [NoState EXCEPT !.s = "ok"] ELSE mem[e].st
        mm == [mem EXCEPT ![e].st = st, ![e].group = IF @ = "none" THEN "active" ELSE @]
        breach == thread[e]["sub"].breach
    IN /\ At(e, "sub", "sample")
       /\ \/ breach /\ st.s = "ok" /\ CooledDown(st) /\ Fire(e, "sub", mm)
          \/ ~ breach /\ st.s = "firing" /\ Resolve(e, "sub", mm)
          \/ /\ IF breach THEN st.s = "firing" \/ ~ CooledDown(st) ELSE st.s = "ok"
             /\ mem' = mm /\ To(e, "sub", "idle") /\ UNCHANGED used
       /\ UNCHANGED <<ruleRow, alerts, told>> /\ UNCHANGED bounds

\* handleHeartbeat with evaluateHeartbeat.
HandleHeartbeat(e) ==
    LET st == [mem[e].st EXCEPT !.s = IF @ = "none" THEN "ok" ELSE @, !.heard = now]
        mm == [mem EXCEPT ![e].st = st]
    IN /\ Kind = "heartbeat" /\ At(e, "sub", "idle") /\ mem[e].rule = "on" /\ alive
       /\ IF st.s = "firing" THEN Resolve(e, "sub", mm)
          ELSE mem' = mm /\ UNCHANGED <<used, thread>>
       /\ UNCHANGED <<ruleRow, alerts, told>> /\ UNCHANGED bounds

CheckStaleHeartbeats(e) ==
    LET st == mem[e].st IN
    /\ Kind = "heartbeat" /\ At(e, "loop", "idle")
    /\ st.s = "ok" /\ mem[e].rule = "on"
    /\ st.heard # 0 /\ now - st.heard > Timeout /\ CooledDown(st)
    /\ Fire(e, "loop", mem)
    /\ UNCHANGED <<ruleRow, alerts, told>> /\ UNCHANGED bounds

\* cleanupLoop forgets states that are ok and have not fired for a day; one that
\* never fired counts as such.
Cleanup(e) ==
    LET st == mem[e].st IN
    /\ mem[e].up /\ st.s = "ok" /\ (st.fired = 0 \/ now - st.fired > RetainFor)
    /\ mem' = [mem EXCEPT ![e].st = NoState]
    /\ UNCHANGED <<ruleRow, alerts, used, thread, told>> /\ UNCHANGED world /\ UNCHANGED bounds

-----------------------------------------------------------------------------
(* Saving and notifying.                                                   *)

\* Faulty variant: alerts has no unique index over the correlation key.
AcceptsAny(i, status) == alerts[i].status # "none" \/ ruleRow # "none"

\* The rule must exist for a new row, and one row per correlation key is open.
Accepts(i, status) ==
    /\ alerts[i].status # "none" \/ ruleRow # "none"
    /\ status \in Open => OpenOf("rule") \ {i} = {}

SaveAlert(i, status, at) ==
    alerts' = [alerts EXCEPT ![i] =
                 IF @.status = "none"
                 THEN [status |-> status, key |-> "rule", linked |-> TRUE, fired |-> at]
                 ELSE [@ EXCEPT !.status = status]]

\* Faulty variant: a save that fails leaves the state as it is.
NoRollback(e, i) == UNCHANGED mem

\* rollbackFiringTransition
RollbackFiring(e, i) ==
    mem' = IF mem[e].st.id = i
           THEN [mem EXCEPT ![e].st = [@ EXCEPT !.s = "ok", !.id = 0]] ELSE mem

\* Faulty variant: a resolution that fails is not taken back.
NoRestore(e, i) == UNCHANGED mem

\* restoreFiringTransition
RestoreFiring(e, i) ==
    mem' = IF mem[e].st.s = "ok" /\ mem[e].st.id = 0
           THEN [mem EXCEPT ![e].st = [@ EXCEPT !.s = "firing", !.id = i]] ELSE mem

SaveFiring(e, t) ==
    LET i == thread[e][t].id IN
    /\ At(e, t, "fire")
    /\ \/ Accepts(i, "firing") /\ SaveAlert(i, "firing", thread[e][t].at) /\ To(e, t, "tell firing") /\ UNCHANGED <<mem, failures>>
       \/ /\ \/ ~ Accepts(i, "firing") /\ UNCHANGED failures
             \/ failures < MaxFailures /\ failures' = failures + 1
          /\ RollbackFiring(e, i) /\ To(e, t, "idle") /\ UNCHANGED alerts
    /\ UNCHANGED <<ruleRow, used, told, crashes, requests>>

SaveResolved(e, t) ==
    LET i == thread[e][t].id IN
    /\ At(e, t, "resolve")
    /\ \/ Accepts(i, "resolved") /\ SaveAlert(i, "resolved", thread[e][t].at) /\ To(e, t, "tell resolved") /\ UNCHANGED <<mem, failures>>
       \/ /\ \/ ~ Accepts(i, "resolved") /\ UNCHANGED failures
             \/ failures < MaxFailures /\ failures' = failures + 1
          /\ RestoreFiring(e, i) /\ To(e, t, "idle") /\ UNCHANGED alerts
    /\ UNCHANGED <<ruleRow, used, told, crashes, requests>>

\* The notifier is called and the group of a resolved alert is resolved.
Notify(e, t, status) ==
    LET i == thread[e][t].id IN
    /\ At(e, t, IF status = "firing" THEN "tell firing" ELSE "tell resolved")
    /\ told' = [told EXCEPT ![i][status] = @ + 1]
    /\ mem' = IF status = "resolved" /\ mem[e].group # "none" /\ t = "sub"
              THEN [mem EXCEPT ![e].group = "resolved"] ELSE mem
    /\ To(e, t, "idle")
    /\ UNCHANGED <<ruleRow, alerts, used>> /\ UNCHANGED bounds

-----------------------------------------------------------------------------
(* The alert of a vulnerability: no state in memory, the index decides.    *)

\* Faulty variant: the notifier is called whether the row was created or not.
CreatedAlways(open) == TRUE

Created(open) == open = {}

FireCVEAlert(e) ==
    LET open == OpenOf("cve")
        i == IF open = {} THEN used + 1 ELSE CHOOSE i \in open : TRUE
    IN /\ Cves /\ At(e, "scan", "idle") /\ (open = {} => used < MaxAlerts)
       /\ alerts' = IF open = {}
                    THEN [alerts EXCEPT ![i] = [status |-> "firing", key |-> "cve", linked |-> FALSE, fired |-> now]]
                    ELSE alerts
       /\ used' = IF open = {} THEN used + 1 ELSE used
       /\ IF Created(open) THEN ToAlert(e, "scan", "tell firing", i, now) ELSE UNCHANGED thread
       /\ UNCHANGED <<ruleRow, mem, told>> /\ UNCHANGED bounds

ResolveCVEAlert(e) ==
    /\ Cves /\ At(e, "scan", "idle")
    /\ \E i \in OpenOf("cve") :
         /\ alerts' = [alerts EXCEPT ![i].status = "resolved"]
         /\ ToAlert(e, "scan", "tell resolved", i, now)
    /\ UNCHANGED <<ruleRow, used, mem, told>> /\ UNCHANGED bounds

-----------------------------------------------------------------------------
(* The API.                                                                *)

Requested == requests < MaxRequests /\ requests' = requests + 1 /\ UNCHANGED <<crashes, failures>>

\* AddRule and RemoveRule write the row first, then the memory of the replica
\* that answers.  Deleting a rule unlinks its alerts.
AddRule(e, enabled) ==
    /\ At(e, "api", "idle") /\ Requested
    /\ ruleRow' = enabled /\ To(e, "api", enabled)
    /\ UNCHANGED <<alerts, used, mem, told>>

RemoveRule(e) ==
    /\ At(e, "api", "idle") /\ Requested /\ ruleRow # "none"
    /\ ruleRow' = "none" /\ To(e, "api", "remove")
    /\ alerts' = [i \in Ids |-> [alerts[i] EXCEPT !.linked = FALSE]]
    /\ UNCHANGED <<used, mem, told>>

InstallRule(e, enabled) ==
    /\ At(e, "api", enabled)
    /\ mem' = [mem EXCEPT ![e].rule = enabled] /\ To(e, "api", "idle")
    /\ UNCHANGED <<ruleRow, alerts, used, told>> /\ UNCHANGED bounds

ForgetRule(e) ==
    /\ At(e, "api", "remove")
    /\ mem' = [mem EXCEPT ![e].rule = "none", ![e].st = NoState] /\ To(e, "api", "idle")
    /\ UNCHANGED <<ruleRow, alerts, used, told>> /\ UNCHANGED bounds

\* The UPDATE looks at the id only; the index refuses a second open row.
AcknowledgeAlert(i) ==
    /\ Requested /\ alerts[i].status # "none"
    /\ OpenOf(alerts[i].key) \ {i} = {}
    /\ alerts' = [alerts EXCEPT ![i].status = "acknowledged"]
    /\ UNCHANGED <<ruleRow, used, mem, thread, told>> /\ UNCHANGED world

\* ResolveAll and ResolveGroupsByDevice: only the group, which the latter drops.
ResolveGroups(e, group) ==
    /\ mem[e].up /\ Requested /\ mem[e].group # "none"
    /\ mem' = [mem EXCEPT ![e].group = group]
    /\ UNCHANGED <<ruleRow, alerts, used, thread, told>> /\ UNCHANGED world

-----------------------------------------------------------------------------
Crash(e) ==
    /\ mem[e].up /\ crashes < MaxCrashes /\ crashes' = crashes + 1
    /\ mem' = [mem EXCEPT ![e] = Down]
    /\ thread' = [thread EXCEPT ![e] = [t \in Threads |-> Idle]]
    /\ UNCHANGED <<ruleRow, alerts, used, told, failures, requests>> /\ UNCHANGED world

Tick ==
    /\ now < MaxTime /\ now' = now + 1
    /\ UNCHANGED <<alive, ruleRow, alerts, used, mem, thread, told>> /\ UNCHANGED bounds

DeviceStops ==
    /\ Kind = "heartbeat" /\ alive /\ alive' = FALSE
    /\ UNCHANGED <<now, ruleRow, alerts, used, mem, thread, told>> /\ UNCHANGED bounds

DeviceReturns ==
    /\ Kind = "heartbeat" /\ ~ alive /\ alive' = TRUE
    /\ UNCHANGED <<now, ruleRow, alerts, used, mem, thread, told>> /\ UNCHANGED bounds

Continue(e, t) ==
    \/ t = "sub" /\ EvaluateThreshold(e)
    \/ SaveFiring(e, t) \/ SaveResolved(e, t)
    \/ \E s \in {"firing", "resolved"} : Notify(e, t, s)
    \/ t = "api" /\ (ForgetRule(e) \/ \E v \in {"on", "off"} : InstallRule(e, v))

Engine(e) ==
    \/ Start(e) \/ Crash(e) \/ Cleanup(e)
    \/ \E b \in BOOLEAN : HandleMetrics(e, b)
    \/ HandleHeartbeat(e) \/ CheckStaleHeartbeats(e)
    \/ FireCVEAlert(e) \/ ResolveCVEAlert(e)
    \/ \E v \in {"on", "off"} : AddRule(e, v)
    \/ RemoveRule(e)
    \/ \E g \in {"resolved", "none"} : ResolveGroups(e, g)
    \/ \E t \in Threads : Continue(e, t)

Next ==
    \/ \E e \in Replicas : Engine(e)
    \/ \E i \in Ids : AcknowledgeAlert(i)
    \/ Tick \/ DeviceStops \/ DeviceReturns

Spec == Init /\ [][Next]_vars

\* Replicas are restarted, time passes, started work is finished, the loop ticks
\* and an agent that lives keeps sending.
FairSpec ==
    /\ Spec /\ WF_vars(Tick)
    /\ \A e \in Replicas :
         /\ WF_vars(Start(e)) /\ WF_vars(CheckStaleHeartbeats(e))
         /\ SF_vars(HandleMetrics(e, FALSE)) /\ SF_vars(HandleHeartbeat(e))
         /\ \A t \in Threads : WF_vars(Continue(e, t))

-----------------------------------------------------------------------------
TypeOK ==
    /\ now \in 1 .. MaxTime /\ alive \in BOOLEAN /\ used \in 0 .. MaxAlerts
    /\ ruleRow \in {"none", "on", "off"}
    /\ alerts \in [Ids -> [status : Open \cup {"none", "resolved"}, key : {"none", "rule", "cve"},
                           linked : BOOLEAN, fired : 0 .. MaxTime]]
    /\ mem \in [Replicas -> [up : BOOLEAN, rule : {"none", "on", "off"},
                             st : [s : {"none", "ok", "firing"}, fired : 0 .. MaxTime,
                                   heard : 0 .. MaxTime, id : 0 .. MaxAlerts],
                             group : {"none", "active", "resolved"}]]
    /\ \A e \in Replicas, t \in Threads : thread[e][t].id \in 0 .. MaxAlerts
    /\ told \in [Ids -> [{"firing", "resolved"} -> Nat]]

\* SaveAlert, SaveCVEAlert and UpdateAlertStatus: whichever replicas evaluate,
\* restart and acknowledge, a rule and a vulnerability have one open alert each.
OneOpenAlert == \A k \in {"rule", "cve"} : Cardinality(OpenOf(k)) <= 1

\* evaluateThreshold with rollbackFiringTransition and restoreFiringTransition: a
\* state that fires between two samples has its open row, after failed saves,
\* restarts and requests too.
FiringIsOpen ==
    \A e \in Replicas :
        mem[e].st.s = "firing" /\ thread[e]["sub"].pc \in {"idle", "sample"} =>
            alerts[mem[e].st.id].status \in Open

\* FireCVEAlert, ResolveCVEAlert: all scans together announce a finding once and
\* its resolution once.
CveToldOnce ==
    \A i \in Ids : alerts[i].key = "cve" => told[i]["firing"] <= 1
===============================================================================
