------------------------------- MODULE MCSettles -------------------------------
(***************************************************************************)
(* What background work brings to an end: small instances of PatchRollout, *)
(* EndpointApproval, AlertEngine and AgentJobs with the fairness of their  *)
(* specifications.  A behaviour is one of the component that setting       *)
(* names; the variables of the others stay unused.                         *)
(***************************************************************************)
EXTENDS Integers, TLC

CONSTANTS r1, asker, u1, u2, None

VARIABLES setting, crashes, used, requests,
          dep, pdd, jobs, sent, inv, disabled, open, rep, hand,
          req, decisions, job, audit, tx, roles, device, window, changes,
          now, alive, ruleRow, alerts, mem, thread, told, failures,
          led, th, cancelKeys, cx, msg, up, published, late, execs, interrupted,
          unsupported, faults

rollout == <<dep, pdd, jobs, sent, inv, disabled, open, rep, hand>>
approval == <<req, decisions, job, audit, tx, roles, device, window, changes>>
alerting == <<now, alive, ruleRow, alerts, mem, thread, told, failures>>
agent == <<led, th, cancelKeys, cx, msg, up, published, late, execs, interrupted,
           unsupported, faults>>
vars == <<setting, crashes, used, requests, rollout, approval, alerting, agent>>

Rollout == INSTANCE PatchRollout WITH
    DeviceCount <- 2, MaxRetries <- 1, CanaryPercent <- 50, SuccessThreshold <- 90,
    Windowed <- FALSE, Replicas <- {r1}, MaxInterventions <- 1,
    MayDisable <- FALSE, MayDelete <- FALSE, MaxCrashes <- 1

Approval == INSTANCE EndpointApproval WITH
    Users <- {asker, u1, u2}, Requester <- asker, DeviceCount <- 1,
    MinApprovers <- {1, 2}, Separations <- BOOLEAN, Actions <- {"reboot", "process_kill"},
    MaxChanges <- 1

Alerting == INSTANCE AlertEngine WITH
    Replicas <- {r1}, Kind <- "threshold", Cves <- FALSE,
    Cooldown <- 1, Timeout <- 1, RetainFor <- 1,
    MaxTime <- 2, MaxAlerts <- 2, MaxCrashes <- 1, MaxFailures <- 1, MaxRequests <- 0

Agent == INSTANCE AgentJobs WITH
    Targets <- {r1}, MaxAttempt <- 1, Copies <- {1, 2}, Threads <- {u1}, Timed <- {r1},
    MaxFaults <- 1

NoRollout == dep = 0 /\ pdd = 0 /\ jobs = 0 /\ sent = 0 /\ inv = 0 /\ disabled = 0
             /\ open = 0 /\ rep = 0 /\ hand = 0
NoApproval == req = 0 /\ decisions = 0 /\ job = 0 /\ audit = 0 /\ tx = 0 /\ roles = 0
              /\ device = 0 /\ window = 0 /\ changes = 0
NoAlerting == now = 0 /\ alive = 0 /\ ruleRow = 0 /\ alerts = 0 /\ mem = 0
              /\ thread = 0 /\ told = 0 /\ failures = 0
NoAgent == led = 0 /\ th = 0 /\ cancelKeys = 0 /\ cx = 0 /\ msg = 0 /\ up = 0 /\ published = 0
           /\ late = 0 /\ execs = 0 /\ interrupted = 0 /\ unsupported = 0 /\ faults = 0
Uncounted == used = 0 /\ requests = 0

Init ==
    \/ setting = "rollout" /\ Rollout!Init /\ NoApproval /\ NoAlerting /\ NoAgent /\ Uncounted
    \/ setting = "approval" /\ Approval!Init /\ NoRollout /\ NoAlerting /\ NoAgent /\ Uncounted
                             /\ crashes = 0
    \/ setting = "alerting" /\ Alerting!Init /\ NoRollout /\ NoApproval /\ NoAgent
    \/ setting = "agent" /\ Agent!Init /\ NoRollout /\ NoApproval /\ NoAlerting /\ Uncounted
                          /\ crashes = 0

InRollout(A) ==
    setting = "rollout" /\ A /\ UNCHANGED <<setting, used, requests, approval, alerting, agent>>
InApproval(A) ==
    setting = "approval" /\ A /\ UNCHANGED <<setting, crashes, used, requests, rollout, alerting, agent>>
InAlerting(A) == setting = "alerting" /\ A /\ UNCHANGED <<setting, rollout, approval, agent>>
InAgent(A) ==
    setting = "agent" /\ A /\ UNCHANGED <<setting, crashes, used, requests, rollout, approval, alerting>>

Next ==
    \/ InRollout(Rollout!Next)
    \/ InApproval(Approval!Next)
    \/ InAlerting(Alerting!Next)
    \/ InAgent(Agent!Next)

Messages == Agent!Messages

\* The fairness that the specifications of the components state.  A behaviour is
\* one of a single component, so fairness of a disjunction of steps of different
\* components is fairness of each.
Fairness ==
    /\ WF_vars(\/ InRollout(Rollout!Scheduler(r1))
               \/ InApproval(Approval!ExpirePendingApprovals)
               \/ InAlerting(Alerting!Tick)
               \/ InAgent(Agent!Goroutine(u1)))
    /\ WF_vars(\/ InRollout(\E d \in {1, 2}, c \in {1, 2} : Rollout!ExpireJob(d, c))
               \/ InApproval(Approval!Expires)
               \/ InAlerting(Alerting!Start(r1))
               \/ InAgent(Agent!Start))
    /\ WF_vars(\/ InRollout(\E d \in {1, 2}, c \in {1, 2} : Rollout!ExpiryPasses(d, c))
               \/ InApproval(Approval!Rollback)
               \/ InAlerting(Alerting!Continue(r1, "sub"))
               \/ InAgent(Agent!Stopped))
    /\ WF_vars(\/ InAlerting(Alerting!Continue(r1, "loop"))
               \/ InAgent(Agent!MarkCancelled))
    /\ SF_vars(\/ InAlerting(Alerting!HandleMetrics(r1, FALSE))
               \/ InAgent(Agent!Lookup(u1) /\ msg'[th[u1].msg] # "pending"))
    /\ SF_vars(InAgent(Agent!Accept(u1) /\ th'[u1].pc = "register"))
    /\ SF_vars(InAgent((Agent!Lookup(u1) \/ Agent!Final(u1)) /\ msg'[th[u1].msg] = "acked"))
    /\ \A m \in Messages : SF_vars(InAgent(Agent!Deliver(u1, m)))
    /\ WF_vars(InAgent(\E m \in Messages : Agent!Redeliver(m)))

FairSpec == Init /\ [][Next]_vars /\ Fairness

--------------------------------------------------------------------------------

\* What waits and what has come to an end; the second alert and the second copy
\* of a command have the number 2.
Waits(n) ==
    \/ setting = "rollout" /\ n = 1 /\ dep.status = "pending"
    \/ setting = "approval" /\ n = 1 /\ req.status = "pending"
    \/ setting = "alerting" /\ alerts[n].status \in Alerting!Open
    \/ setting = "agent" /\ msg[<<<<r1, 1>>, n>>] = "pending"

Settled(n) ==
    \/ setting = "rollout" /\ dep.status \in {"completed", "failed", "deleted"}
    \/ setting = "approval" /\ req.status \in Approval!Decided
    \/ setting = "alerting" /\ alerts[n].status \notin Alerting!Open
    \/ setting = "agent" /\ msg[<<<<r1, 1>>, n>>] \in {"acked", "terminated"}

\* Background work brings what it began to an end.  A deployment ends also if no
\* agent ever reports: expired work is queued again or, with the budget spent,
\* counts as failed (GetRolloutJobGate, GetDeploymentJobGate).  Every approval
\* request is decided (expirePendingApprovals).  An alert that fired is resolved,
\* as samples below the threshold keep coming, after crashes and failed saves too
\* (evaluateThreshold, restoreActiveAlerts).  A command in the stream is
\* acknowledged, or terminated because it expired: no redelivery loop lasts,
\* whatever crashed (handleDurableCommand).
WorkSettles == \A n \in {1, 2} : Waits(n) ~> Settled(n)
================================================================================
