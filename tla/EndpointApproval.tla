--------------------------- MODULE EndpointApproval ---------------------------
(***************************************************************************)
(* Approval of a privileged endpoint operation (endpoint_approvals.go): a  *)
(* requester asks, other users approve or reject, the last approval that   *)
(* the policy asks for creates the job in the same transaction.            *)
(*                                                                         *)
(* Every request of the API is one database transaction, rolled back when  *)
(* the response is an error (db_context.go, withTenantTransaction), and    *)
(* every handler locks the row of the request first.  The approval that    *)
(* completes the quorum also reads the devices, which it does not lock:    *)
(* it is split into one step per device, and the devices change between.   *)
(***************************************************************************)
EXTENDS Naturals, FiniteSets, FiniteSetTheorems, TLAPS

CONSTANTS Users, Requester,
          DeviceCount,     \* devices 1..DeviceCount, checked in this order
          MinApprovers,    \* min_approvers of the policies in use
          Separations,     \* require_separation of the policies in use
          Actions,         \* names of operations that may need an approval
          MaxChanges       \* bound on the changes of devices, roles and window

\* A request has a device at least (handleCreateApprovalRequest), and a policy asks
\* for one approver at least (the CHECK of endpoint_approval_policies).
Sensible ==
    /\ Requester \in Users /\ Actions # {} /\ MaxChanges \in Nat
    /\ DeviceCount \in Nat \ {0}
    /\ MinApprovers # {} /\ MinApprovers \subseteq Nat \ {0}
    /\ Separations # {} /\ Separations \subseteq BOOLEAN

VARIABLES req,        \* the row of endpoint_approval_requests
          decisions,  \* endpoint_approval_decisions: users who approved
          job,        \* the targets of the job with this approval_request_id
          audit,      \* endpoint_audit_evidence: transitions and their actor
          tx,         \* the approval transaction that holds the row's lock
          roles,      \* users that hold one of the policy's allowed roles
          device,     \* what the devices table says of each device
          window,     \* maintenanceWindowAllows
          changes     \* number of changes of roles, devices and window so far

vars == <<req, decisions, job, audit, tx, roles, device, window, changes>>
env == <<roles, device, window, changes>>

Devices == 1 .. DeviceCount
Decided == {"rejected", "cancelled", "expired", "dispatched"}
Conditions == {"online", "offline", "moved", "disabled", "incapable"}

\* operationRegistry: a reboot is destructive and may wait for its device.
Destructive(a) == a = "reboot"
AllowOffline(a) == a = "reboot"

NoJob == [d \in {} |-> "queued"]
NoTx == [user |-> Requester, next |-> 0, targets |-> NoJob]

\* The stored policy: as json.Marshal writes the ApprovalPolicy, with its id,
\* msp_id and action_name, or with the fields of policySnapshot only.
Snapshot ==
    [min : MinApprovers, separation : Separations, form : {"policy", "snapshot"}]

Init ==
    /\ req = [status |-> "none", expired |-> FALSE, by |-> Requester,
              action |-> CHOOSE a \in Actions : TRUE,
              policy |-> CHOOSE s \in Snapshot : TRUE]
    /\ decisions = {} /\ job = NoJob /\ audit = {} /\ tx = NoTx
    /\ roles = Users \ {Requester}
    /\ device = [d \in Devices |-> "online"] /\ window = TRUE /\ changes = 0

Unlocked == tx = NoTx
Pending == req.status = "pending"

-----------------------------------------------------------------------------
\* A row is inserted as pending with the policy of that moment.  Repeating the
\* request with its idempotency key finds the row and changes nothing.
Insert(policy) ==
    /\ req.status = "none"
    /\ \E a \in Actions :
         req' = [req EXCEPT !.status = "pending", !.action = a, !.policy = policy]
    /\ audit' = audit \cup {[to |-> "created", by |-> Requester]}
    /\ UNCHANGED <<decisions, job, tx>> /\ UNCHANGED env

\* The devices must exist, be enabled, share one scope and support the action.
Requestable(d) == device[d] \in {"online", "offline"}

HandleCreateApprovalRequest ==
    /\ \A d \in Devices : Requestable(d)
    /\ \E s \in Snapshot : s.form = "policy" /\ Insert(s)

\* A row whose snapshot has the fields of policySnapshot only, the form in
\* which dbintegration_test.go stores it.
SeedRequest == \E s \in Snapshot : s.form = "snapshot" /\ Insert(s)

\* parsePolicySnapshot decodes with DisallowUnknownFields.
Parses(policy) == policy.form = "snapshot"

\* Faulty variant: the requester is compared only after the first decision.
PermittedLate(u) ==
    /\ Parses(req.policy)
    /\ ~ (u = Requester /\ req.policy.separation /\ decisions # {})
    /\ u \in roles

Permitted(u) ==
    /\ Parses(req.policy)
    /\ ~ (u = Requester /\ req.policy.separation)
    /\ u \in roles

\* The transaction reaches the count: the row is locked, pending and unexpired,
\* the decision is inserted (one per request and approver).
MayApprove(u) ==
    /\ Unlocked /\ Pending /\ ~ req.expired
    /\ Permitted(u) /\ u \notin decisions

ApprovedCount(u) == Cardinality(decisions \cup {u})

\* Below the quorum the decision is committed and the request stays pending.
RecordApproval(u) ==
    /\ MayApprove(u) /\ ApprovedCount(u) < req.policy.min
    /\ decisions' = decisions \cup {u}
    /\ audit' = audit \cup {[to |-> "pending", by |-> u]}
    /\ UNCHANGED <<req, job, tx>> /\ UNCHANGED env

\* With it the transaction goes on to create the job and its targets.
BeginDispatch(u) ==
    /\ MayApprove(u) /\ ApprovedCount(u) >= req.policy.min
    /\ tx' = [user |-> u, next |-> 1, targets |-> NoJob]
    /\ UNCHANGED <<req, decisions, job, audit>> /\ UNCHANGED env

\* What the loop over the devices accepts: unchanged scope, enabled, with an
\* agent, capable, in a maintenance window, online or allowed to be offline.
Dispatchable(d) ==
    /\ device[d] \in {"online", "offline"}
    /\ Destructive(req.action) => window
    /\ device[d] = "online" \/ AllowOffline(req.action)

CheckTarget ==
    /\ tx.next \in Devices /\ Dispatchable(tx.next)
    /\ tx' = [tx EXCEPT !.next = @ + 1,
                        !.targets = [d \in 1 .. tx.next |->
                            IF d < tx.next THEN tx.targets[d]
                            ELSE IF device[d] = "online" THEN "queued" ELSE "waiting"]]
    /\ UNCHANGED <<req, decisions, job, audit>> /\ UNCHANGED env

\* Faulty variant: the error response of the device loop is sent but the transaction
\* that holds the decision is committed.
RollbackKeepsDecision ==
    /\ tx.next # 0
    /\ tx' = NoTx /\ decisions' = decisions \cup {tx.user}
    /\ UNCHANGED <<req, job, audit>> /\ UNCHANGED env

\* A device that is not accepted answers 409, a failed statement 500 or a lost
\* connection nothing: the decision goes with the transaction.
Rollback ==
    /\ tx.next # 0
    /\ tx' = NoTx
    /\ UNCHANGED <<req, decisions, job, audit>> /\ UNCHANGED env

CommitDispatch ==
    /\ tx.next = DeviceCount + 1 /\ Pending
    /\ req' = [req EXCEPT !.status = "dispatched", !.by = tx.user]
    /\ decisions' = decisions \cup {tx.user}
    /\ job' = tx.targets
    /\ audit' = audit \cup {[to |-> "dispatched", by |-> tx.user]}
    /\ tx' = NoTx
    /\ UNCHANGED env

\* Faulty variant: the request is updated before its evidence, in two transactions.
DecideUnaudited(u, status) ==
    /\ req' = [req EXCEPT !.status = status, !.by = u]
    /\ UNCHANGED <<decisions, job, audit, tx>> /\ UNCHANGED env

Decide(u, status) ==
    /\ req' = [req EXCEPT !.status = status, !.by = u]
    /\ audit' = audit \cup {[to |-> status, by |-> u]}
    /\ UNCHANGED <<decisions, job, tx>> /\ UNCHANGED env

\* Any manager of the MSP but the requester rejects, in any role.
HandleRejectRequest(u) ==
    /\ Unlocked /\ Pending /\ u # Requester
    /\ Decide(u, "rejected")

\* A failure to write the evidence is only logged, but it has aborted the
\* transaction, whose commit then fails.
HandleCancelApprovalRequest ==
    /\ Unlocked /\ Pending
    /\ Decide(Requester, "cancelled")

\* Faulty variant: a request somebody approved already is left alone.
ExpireUndecided ==
    /\ Unlocked /\ Pending /\ req.expired /\ decisions = {}
    /\ req' = [req EXCEPT !.status = "expired"]
    /\ UNCHANGED <<decisions, job, audit, tx>> /\ UNCHANGED env

ExpirePendingApprovals ==
    /\ Unlocked /\ Pending /\ req.expired
    /\ req' = [req EXCEPT !.status = "expired"]
    /\ UNCHANGED <<decisions, job, audit, tx>> /\ UNCHANGED env

-----------------------------------------------------------------------------
\* expires_at of the request passes.
Expires ==
    /\ req.status # "none" /\ ~ req.expired
    /\ req' = [req EXCEPT !.expired = TRUE]
    /\ UNCHANGED <<decisions, job, audit, tx>> /\ UNCHANGED env

Changed == changes < MaxChanges /\ changes' = changes + 1
                /\ UNCHANGED <<req, decisions, job, audit, tx>>

RolesChange(u) ==
    /\ Changed
    /\ roles' = IF u \in roles THEN roles \ {u} ELSE roles \cup {u}
    /\ UNCHANGED <<device, window>>

DeviceChanges(d) ==
    /\ Changed
    /\ \E c \in Conditions \ {device[d]} : device' = [device EXCEPT ![d] = c]
    /\ UNCHANGED <<roles, window>>

WindowChanges ==
    /\ Changed
    /\ window' = ~ window
    /\ UNCHANGED <<roles, device>>

HandleApproveRequest ==
    \/ \E u \in Users : RecordApproval(u) \/ BeginDispatch(u)
    \/ CheckTarget \/ Rollback \/ CommitDispatch

Environment ==
    \/ Expires \/ WindowChanges
    \/ \E u \in Users : RolesChange(u)
    \/ \E d \in Devices : DeviceChanges(d)

Next ==
    \/ HandleCreateApprovalRequest \/ SeedRequest
    \/ HandleApproveRequest
    \/ \E u \in Users : HandleRejectRequest(u)
    \/ HandleCancelApprovalRequest
    \/ ExpirePendingApprovals
    \/ Environment

Spec == Init /\ [][Next]_vars

\* The reconciliation worker expires requests every round, time passes, and a
\* transaction ends.  Nobody has to approve, reject or cancel.
FairSpec ==
    /\ Spec
    /\ WF_vars(ExpirePendingApprovals) /\ WF_vars(Expires) /\ WF_vars(Rollback)

-----------------------------------------------------------------------------
Requests == [status : Decided \cup {"none", "pending"}, expired : BOOLEAN,
             by : Users, action : Actions, policy : Snapshot]
Evidence == [to : Decided \cup {"created", "pending"}, by : Users]
TargetLists == UNION {[1 .. n -> {"queued", "waiting"}] : n \in 0 .. DeviceCount}

TypeOK ==
    /\ Sensible
    /\ req \in Requests /\ decisions \subseteq Users
    /\ job \in TargetLists /\ audit \subseteq Evidence
    /\ tx \in [user : Users, next : 0 .. DeviceCount + 1, targets : TargetLists]
    /\ roles \subseteq Users /\ device \in [Devices -> Conditions]
    /\ window \in BOOLEAN /\ changes \in 0 .. MaxChanges

\* handleApproveRequest: a job exists exactly for a dispatched request, it has
\* every device of the request, and the policy stored with the request was met
\* by distinct approvers, none of them the requester where it asks for separation.
DispatchIsApproved ==
    /\ job # NoJob <=> req.status = "dispatched"
    /\ job # NoJob =>
         /\ DOMAIN job = Devices
         /\ Cardinality(decisions) >= req.policy.min
         /\ req.policy.separation => Requester \notin decisions
         /\ req.by \in decisions

\* handleApproveRequest: a request that is still pending lacks an approval.  The
\* approval that completes the quorum is kept only with the job it creates, so
\* that its approver can decide again once the devices are usable.
NoStrandedQuorum ==
    Pending => Cardinality(decisions) < req.policy.min

Approvals == {a \in audit : a.to \in {"pending", "dispatched"}}

\* endpoint_audit_evidence: every decision of a user is recorded with its actor,
\* and nothing is recorded that was rolled back.
DecisionsAreAudited ==
    /\ decisions = {a.by : a \in Approvals}
    /\ \A s \in Decided \ {"expired"} :
         req.status = s <=> [to |-> s, by |-> req.by] \in audit

-----------------------------------------------------------------------------
(***************************************************************************)
(* Why: the transaction that completes the quorum holds the lock of a      *)
(* pending request, so what it counted is still true when it commits.      *)
(***************************************************************************)

\* The transaction in progress: its approver is new and permitted, and with its
\* decision the quorum is complete.
LockedIsCounted ==
    /\ tx.next = 0 => tx = NoTx
    /\ tx.next # 0 =>
         /\ Pending /\ DOMAIN tx.targets = 1 .. (tx.next - 1)
         /\ Cardinality(decisions \cup {tx.user}) >= req.policy.min
         /\ req.policy.separation => tx.user # Requester

\* Before a request is pending nobody has decided; whoever did was permitted; and
\* the evidence of an end is there with the end, and names who ended it.
DecidedIsPermitted ==
    /\ req.status = "none" => decisions = {} /\ audit = {}
    /\ req.policy.separation => Requester \notin decisions
    /\ \A a \in audit : a.to \in Decided => req.status = a.to /\ req.by = a.by
    /\ req.status \in Decided \ {"expired"} => [to |-> req.status, by |-> req.by] \in audit

ApprovalInv ==
    /\ TypeOK /\ LockedIsCounted /\ DecidedIsPermitted
    /\ DispatchIsApproved /\ NoStrandedQuorum /\ DecisionsAreAudited

LEMMA NoJobIsEmpty ==
    ASSUME Sensible
    PROVE  /\ NoJob \in TargetLists /\ DOMAIN NoJob = {}
           /\ \A f : DOMAIN f = Devices => f # NoJob
<1>1. 0 \in 0 .. DeviceCount /\ 1 .. 0 = {}
  BY DEF Sensible
<1>2. NoJob \in [1 .. 0 -> {"queued", "waiting"}] /\ DOMAIN NoJob = {}
  BY Zenon, <1>1 DEF NoJob
<1>3. 1 \in Devices
  BY DEF Sensible, Devices
<1> QED BY Zenon, <1>1, <1>2, <1>3 DEF TargetLists

\* A transaction below its commit changes only what it alone sees.
LEMMA TxStep ==
    ASSUME ApprovalInv, UNCHANGED <<req, decisions, job, audit>>, UNCHANGED env,
           tx' \in [user : Users, next : 0 .. DeviceCount + 1, targets : TargetLists],
           LockedIsCounted'
    PROVE  ApprovalInv'
<1>1. TypeOK'
  BY Zenon DEF ApprovalInv, TypeOK, env
<1>2. DecidedIsPermitted' /\ DispatchIsApproved' /\ NoStrandedQuorum' /\ DecisionsAreAudited'
  BY Zenon DEF ApprovalInv, DecidedIsPermitted, DispatchIsApproved, NoStrandedQuorum, Pending,
         DecisionsAreAudited, Approvals
<1> QED BY Zenon, <1>1, <1>2 DEF ApprovalInv

LEMMA TransactionSteps ==
    ASSUME ApprovalInv, (\E u \in Users : BeginDispatch(u)) \/ CheckTarget \/ Rollback
    PROVE  ApprovalInv'
<1>0. TypeOK /\ Sensible /\ DeviceCount \in Nat \ {0} /\ Requester \in Users /\ NoJob \in TargetLists
  BY Zenon, NoJobIsEmpty DEF ApprovalInv, TypeOK, Sensible
<1>1. ASSUME NEW u \in Users, BeginDispatch(u) PROVE ApprovalInv'
  <2>1. Pending /\ Permitted(u) /\ Cardinality(decisions \cup {u}) >= req.policy.min
    BY Zenon, <1>1 DEF BeginDispatch, MayApprove, ApprovedCount
  <2>2. tx' = [user |-> u, next |-> 1, targets |-> NoJob] /\ UNCHANGED <<req, decisions, job, audit>>
        /\ UNCHANGED env
    BY Zenon, <1>1 DEF BeginDispatch
  <2>3. tx' \in [user : Users, next : 0 .. DeviceCount + 1, targets : TargetLists]
    BY <1>0, <2>2
  <2>4. DOMAIN NoJob = 1 .. (1 - 1)
    BY <1>0, NoJobIsEmpty
  <2>5. LockedIsCounted'
    BY <2>1, <2>2, <2>4 DEF LockedIsCounted, Pending, Permitted
  <2> QED BY Zenon, <2>2, <2>3, <2>5, TxStep
<1>2. CASE CheckTarget
  <2> DEFINE n == tx.next
             f == [d \in 1 .. n |-> IF d < n THEN tx.targets[d]
                                    ELSE IF device[d] = "online" THEN "queued" ELSE "waiting"]
  <2>1. n \in 1 .. DeviceCount /\ UNCHANGED <<req, decisions, job, audit>> /\ UNCHANGED env
        /\ tx' = [tx EXCEPT !.next = n + 1, !.targets = f]
    BY Zenon, <1>0, <1>2 DEF CheckTarget, Devices, TypeOK
  <2>2. DOMAIN tx.targets = 1 .. (n - 1) /\ tx.targets \in TargetLists
    BY <1>0, <2>1 DEF ApprovalInv, LockedIsCounted, TypeOK
  <2>3. \A d \in 1 .. (n - 1) : tx.targets[d] \in {"queued", "waiting"}
    BY Zenon, <2>2 DEF TargetLists
  <2>4. f \in [1 .. n -> {"queued", "waiting"}]
    <3> SUFFICES ASSUME NEW d \in 1 .. n PROVE f[d] \in {"queued", "waiting"}
      BY Zenon
    <3>1. CASE d < n
      BY <2>1, <2>3, <3>1
    <3>2. CASE ~(d < n)
      BY Zenon, <3>2
    <3> QED BY Zenon, <3>1, <3>2
  <2> HIDE DEF n, f
  <2>5. f \in TargetLists
    BY <2>1, <2>4 DEF TargetLists
  <2>6. n + 1 \in 0 .. DeviceCount + 1 /\ n # 0 /\ n + 1 # 0 /\ (n + 1) - 1 = n
    BY <1>0, <2>1
  <2>7. tx'.user = tx.user /\ tx'.next = n + 1 /\ tx'.targets = f
        /\ tx' \in [user : Users, next : 0 .. DeviceCount + 1, targets : TargetLists]
    BY Zenon, <1>0, <2>1, <2>5, <2>6 DEF TypeOK
  <2>8. LockedIsCounted'
    <3>1. Pending /\ Cardinality(decisions \cup {tx.user}) >= req.policy.min
          /\ (req.policy.separation => tx.user # Requester)
      BY Zenon, <2>6 DEF ApprovalInv, LockedIsCounted, n
    <3>2. DOMAIN f = 1 .. n
      BY Zenon, <2>4
    <3> QED BY Zenon, <2>1, <2>6, <2>7, <3>1, <3>2 DEF LockedIsCounted, Pending
  <2> QED BY Zenon, <2>1, <2>7, <2>8, TxStep
<1>3. CASE Rollback
  <2>1. tx' = NoTx /\ UNCHANGED <<req, decisions, job, audit>> /\ UNCHANGED env
    BY Zenon, <1>3 DEF Rollback
  <2>2. NoTx.next = 0 /\ NoTx \in [user : Users, next : 0 .. DeviceCount + 1, targets : TargetLists]
    BY <1>0 DEF NoTx
  <2>3. LockedIsCounted'
    BY Zenon, <2>1, <2>2 DEF LockedIsCounted, NoTx, NoJob
  <2> QED BY Zenon, <2>1, <2>2, <2>3, TxStep
<1> QED BY Zenon, <1>1, <1>2, <1>3

\* Evidence of a new approval is a new approver; any other evidence is none.
LEMMA AuditStep ==
    ASSUME NEW to, NEW by, audit' = audit \cup {[to |-> to, by |-> by]},
           decisions = {a.by : a \in Approvals}
    PROVE  {a.by : a \in Approvals'} =
              IF to \in {"pending", "dispatched"} THEN decisions \cup {by} ELSE decisions
<1> DEFINE e == [to |-> to, by |-> by]
<1>1. e.to = to /\ e.by = by
  BY Zenon
<1>2. CASE to \in {"pending", "dispatched"}
  <2>1. Approvals' = Approvals \cup {e}
    BY Zenon, <1>1, <1>2 DEF Approvals
  <2> QED BY Zenon, <1>1, <1>2, <2>1
<1>3. CASE to \notin {"pending", "dispatched"}
  <2>1. Approvals' = Approvals
    BY Zenon, <1>1, <1>3 DEF Approvals
  <2> QED BY Zenon, <1>3, <2>1
<1> QED BY Zenon, <1>2, <1>3

LEMMA InsertStep ==
    ASSUME ApprovalInv, NEW s \in Snapshot, Insert(s)
    PROVE  ApprovalInv'
<1>1. PICK a \in Actions : req' = [req EXCEPT !.status = "pending", !.action = a, !.policy = s]
  BY Zenon DEF Insert
<1>2. req.status = "none" /\ audit' = audit \cup {[to |-> "created", by |-> Requester]}
      /\ UNCHANGED <<decisions, job, tx>> /\ UNCHANGED env
  BY Zenon DEF Insert
<1>3. TypeOK /\ LockedIsCounted /\ decisions = {} /\ audit = {} /\ tx.next = 0 /\ job = NoJob
  BY Zenon, <1>2 DEF ApprovalInv, DecidedIsPermitted, LockedIsCounted, Pending, DispatchIsApproved
<1>4. req' \in Requests /\ req'.status = "pending" /\ req'.policy = s
  BY Zenon, <1>1, <1>3 DEF TypeOK, Requests
<1>5. [to |-> "created", by |-> Requester] \in Evidence
  BY Zenon, <1>3 DEF TypeOK, Sensible, Evidence
<1>6. TypeOK'
  BY Zenon, <1>2, <1>3, <1>4, <1>5 DEF TypeOK, env
<1>7. LockedIsCounted'
  BY Zenon, <1>2, <1>3 DEF LockedIsCounted
<1>8. \A x \in audit' : x.to = "created"
  BY <1>2, <1>3
<1>9. DecidedIsPermitted'
  BY Zenon, <1>2, <1>3, <1>4, <1>8 DEF DecidedIsPermitted, Decided
<1>10. DispatchIsApproved'
  BY Zenon, <1>2, <1>3, <1>4 DEF DispatchIsApproved, NoJob
<1>11. NoStrandedQuorum'
  <2>1. Cardinality({}) = 0 /\ s.min \in Nat \ {0}
    BY Zenon, <1>3, FS_EmptySet DEF TypeOK, Sensible, Snapshot
  <2> QED BY <1>2, <1>3, <1>4, <2>1 DEF NoStrandedQuorum
<1>12. DecisionsAreAudited'
  <2>1. Approvals' = {}
    BY Zenon, <1>8 DEF Approvals
  <2> QED BY Zenon, <1>2, <1>3, <1>4, <1>8, <2>1 DEF DecisionsAreAudited, Decided
<1> QED BY Zenon, <1>6, <1>7, <1>9, <1>10, <1>11, <1>12 DEF ApprovalInv

LEMMA RecordStep ==
    ASSUME ApprovalInv, NEW u \in Users, RecordApproval(u)
    PROVE  ApprovalInv'
<1>1. Pending /\ Unlocked /\ Permitted(u) /\ Cardinality(decisions \cup {u}) < req.policy.min
  BY Zenon DEF RecordApproval, MayApprove, ApprovedCount
<1>2. decisions' = decisions \cup {u} /\ audit' = audit \cup {[to |-> "pending", by |-> u]}
      /\ UNCHANGED <<req, job, tx>> /\ UNCHANGED env
  BY Zenon DEF RecordApproval
<1>3. TypeOK /\ LockedIsCounted /\ DecidedIsPermitted /\ DispatchIsApproved /\ DecisionsAreAudited
  BY Zenon DEF ApprovalInv
<1>4. tx.next = 0 /\ req.status = "pending"
  BY Zenon, <1>1 DEF Unlocked, NoTx, Pending
<1>5. [to |-> "pending", by |-> u] \in Evidence
  BY Zenon DEF Evidence
<1>6. TypeOK'
  BY Zenon, <1>2, <1>3, <1>5 DEF TypeOK, env
<1>7. LockedIsCounted'
  BY Zenon, <1>2, <1>3, <1>4 DEF LockedIsCounted
<1>8. DecidedIsPermitted'
  BY <1>1, <1>2, <1>3, <1>4 DEF DecidedIsPermitted, Decided, Permitted
<1>9. DispatchIsApproved'
  BY Zenon, <1>2, <1>3, <1>4 DEF DispatchIsApproved, NoJob
<1>10. NoStrandedQuorum'
  BY Zenon, <1>1, <1>2 DEF NoStrandedQuorum
<1>11. DecisionsAreAudited'
  <2>1. {a.by : a \in Approvals'} = decisions'
    BY Zenon, <1>2, <1>3, AuditStep DEF DecisionsAreAudited
  <2> QED BY Zenon, <1>2, <1>3, <1>4, <2>1 DEF DecisionsAreAudited, Decided
<1> QED BY Zenon, <1>6, <1>7, <1>8, <1>9, <1>10, <1>11 DEF ApprovalInv

LEMMA CommitStep ==
    ASSUME ApprovalInv, CommitDispatch
    PROVE  ApprovalInv'
<1>1. tx.next = DeviceCount + 1 /\ req.status = "pending"
      /\ req' = [req EXCEPT !.status = "dispatched", !.by = tx.user]
      /\ decisions' = decisions \cup {tx.user} /\ job' = tx.targets
      /\ audit' = audit \cup {[to |-> "dispatched", by |-> tx.user]}
      /\ tx' = NoTx /\ UNCHANGED env
  BY Zenon DEF CommitDispatch, Pending
<1>2. TypeOK /\ Sensible /\ LockedIsCounted /\ DecidedIsPermitted /\ DispatchIsApproved /\ DecisionsAreAudited
  BY Zenon DEF ApprovalInv, TypeOK
<1>3. tx.user \in Users /\ tx.targets \in TargetLists /\ DeviceCount \in Nat \ {0} /\ req \in Requests
  BY Zenon, <1>2 DEF TypeOK, Sensible
<1>4. DOMAIN tx.targets = Devices /\ Cardinality(decisions \cup {tx.user}) >= req.policy.min
      /\ (req.policy.separation => tx.user # Requester)
  BY <1>1, <1>2, <1>3 DEF LockedIsCounted, Devices
<1>5. req' \in Requests /\ req'.status = "dispatched" /\ req'.by = tx.user /\ req'.policy = req.policy
  BY Zenon, <1>1, <1>3 DEF Requests, Decided
<1>6. [to |-> "dispatched", by |-> tx.user] \in Evidence
  BY Zenon, <1>3 DEF Evidence, Decided
<1>7. NoTx.next = 0 /\ NoTx \in [user : Users, next : 0 .. DeviceCount + 1, targets : TargetLists]
  BY <1>2, <1>3, NoJobIsEmpty DEF NoTx, Sensible
<1>8. TypeOK'
  BY Zenon, <1>1, <1>2, <1>3, <1>5, <1>6, <1>7 DEF TypeOK, env
<1>9. LockedIsCounted'
  BY Zenon, <1>1, <1>7 DEF LockedIsCounted, NoTx, NoJob
<1>10. \A a \in audit : a.to \notin Decided
  BY Zenon, <1>1, <1>2 DEF DecidedIsPermitted, Decided
<1>11. DecidedIsPermitted'
  BY <1>1, <1>2, <1>4, <1>5, <1>10 DEF DecidedIsPermitted, Decided
<1>12. DispatchIsApproved'
  <2>1. tx.targets # NoJob
    BY Zenon, <1>2, <1>4, NoJobIsEmpty
  <2> QED BY <1>1, <1>2, <1>4, <1>5, <2>1, <1>11 DEF DispatchIsApproved, DecidedIsPermitted, NoJob, Devices
<1>13. NoStrandedQuorum'
  BY Zenon, <1>5 DEF NoStrandedQuorum, Pending
<1>14. DecisionsAreAudited'
  <2>1. {a.by : a \in Approvals'} = decisions'
    BY Zenon, <1>1, <1>2, AuditStep DEF DecisionsAreAudited
  <2>2. \A s \in Decided \ {"expired"} : req'.status = s <=> [to |-> s, by |-> req'.by] \in audit'
    BY <1>1, <1>5, <1>10 DEF Decided
  <2> QED BY Zenon, <2>1, <2>2 DEF DecisionsAreAudited, Decided
<1> QED BY Zenon, <1>8, <1>9, <1>11, <1>12, <1>13, <1>14 DEF ApprovalInv

LEMMA DecideStep ==
    ASSUME ApprovalInv, NEW u \in Users, NEW s \in {"rejected", "cancelled"},
           Unlocked, Pending, Decide(u, s)
    PROVE  ApprovalInv'
<1>1. req' = [req EXCEPT !.status = s, !.by = u] /\ audit' = audit \cup {[to |-> s, by |-> u]}
      /\ UNCHANGED <<decisions, job, tx>> /\ UNCHANGED env /\ tx.next = 0 /\ req.status = "pending"
  BY Zenon DEF Decide, Unlocked, NoTx, Pending
<1>2. TypeOK /\ LockedIsCounted /\ DecidedIsPermitted /\ DispatchIsApproved /\ DecisionsAreAudited
  BY Zenon DEF ApprovalInv
<1>3. req' \in Requests /\ req'.status = s /\ req'.by = u /\ req'.policy = req.policy
  BY Zenon, <1>1, <1>2 DEF TypeOK, Requests, Decided
<1>4. [to |-> s, by |-> u] \in Evidence
  BY Zenon DEF Evidence, Decided
<1>5. TypeOK'
  BY Zenon, <1>1, <1>2, <1>3, <1>4 DEF TypeOK, env
<1>6. LockedIsCounted'
  BY Zenon, <1>1, <1>2 DEF LockedIsCounted
<1>7. \A a \in audit : a.to \notin Decided
  BY Zenon, <1>1, <1>2 DEF DecidedIsPermitted, Decided
<1>8. DecidedIsPermitted'
  BY <1>1, <1>2, <1>3, <1>7 DEF DecidedIsPermitted, Decided
<1>9. DispatchIsApproved' /\ NoStrandedQuorum'
  BY Zenon, <1>1, <1>2, <1>3 DEF DispatchIsApproved, NoStrandedQuorum, Pending, NoJob
<1>10. DecisionsAreAudited'
  <2>1. {a.by : a \in Approvals'} = decisions'
    BY Zenon, <1>1, <1>2, AuditStep DEF DecisionsAreAudited
  <2>2. \A x \in Decided \ {"expired"} : req'.status = x <=> [to |-> x, by |-> req'.by] \in audit'
    BY <1>1, <1>3, <1>7 DEF Decided
  <2> QED BY Zenon, <2>1, <2>2 DEF DecisionsAreAudited, Decided
<1> QED BY Zenon, <1>5, <1>6, <1>8, <1>9, <1>10 DEF ApprovalInv

\* expires_at passes, and the reconciliation worker marks what has expired.
LEMMA ExpirySteps ==
    ASSUME ApprovalInv, ExpirePendingApprovals \/ Expires
    PROVE  ApprovalInv'
<1>1. UNCHANGED <<decisions, job, audit, tx>> /\ UNCHANGED env
  BY Zenon DEF ExpirePendingApprovals, Expires
<1>2. TypeOK /\ LockedIsCounted /\ DecidedIsPermitted /\ DispatchIsApproved /\ NoStrandedQuorum
      /\ DecisionsAreAudited
  BY Zenon DEF ApprovalInv
<1>3. CASE Expires
  <2>1. req' \in Requests /\ req'.status = req.status /\ req'.by = req.by /\ req'.policy = req.policy
    BY Zenon, <1>2, <1>3 DEF Expires, TypeOK, Requests
  <2>2. TypeOK'
    BY Zenon, <1>1, <1>2, <2>1 DEF TypeOK, env
  <2>3. LockedIsCounted' /\ DecidedIsPermitted' /\ NoStrandedQuorum'
    BY Zenon, <1>1, <1>2, <2>1 DEF LockedIsCounted, DecidedIsPermitted, NoStrandedQuorum, Pending
  <2>4. DispatchIsApproved' /\ DecisionsAreAudited'
    BY Zenon, <1>1, <1>2, <2>1 DEF DispatchIsApproved, DecisionsAreAudited, Approvals
  <2> QED BY Zenon, <2>2, <2>3, <2>4 DEF ApprovalInv
<1>4. CASE ExpirePendingApprovals
  <2>1. req.status = "pending" /\ tx.next = 0 /\ req' = [req EXCEPT !.status = "expired"]
    BY Zenon, <1>4 DEF ExpirePendingApprovals, Pending, Unlocked, NoTx
  <2>2. req' \in Requests /\ req'.status = "expired" /\ req'.by = req.by /\ req'.policy = req.policy
    BY Zenon, <1>2, <2>1 DEF TypeOK, Requests, Decided
  <2>3. TypeOK'
    BY Zenon, <1>1, <1>2, <2>2 DEF TypeOK, env
  <2>4. LockedIsCounted' /\ NoStrandedQuorum'
    BY Zenon, <1>1, <1>2, <2>1, <2>2 DEF LockedIsCounted, NoStrandedQuorum, Pending
  <2>5. \A a \in audit : a.to \notin Decided
    BY Zenon, <1>2, <2>1 DEF DecidedIsPermitted, Decided
  <2>6. DecidedIsPermitted'
    BY Zenon, <1>1, <1>2, <2>2, <2>5 DEF DecidedIsPermitted
  <2>7. DispatchIsApproved'
    BY Zenon, <1>1, <1>2, <2>1, <2>2 DEF DispatchIsApproved, NoJob
  <2>8. \A x \in Decided : [to |-> x, by |-> req.by] \notin audit
    BY Zenon, <2>5
  <2>9. DecisionsAreAudited'
    BY Zenon, <1>1, <1>2, <2>2, <2>8 DEF DecisionsAreAudited, Approvals, Decided
  <2> QED BY Zenon, <2>3, <2>4, <2>6, <2>7, <2>9 DEF ApprovalInv
<1> QED BY Zenon, <1>3, <1>4

\* Roles, devices and the maintenance window are only read by the transaction.
LEMMA SurroundingSteps ==
    ASSUME ApprovalInv,
           WindowChanges \/ (\E u \in Users : RolesChange(u)) \/ \E d \in Devices : DeviceChanges(d)
    PROVE  ApprovalInv'
<1>1. UNCHANGED <<req, decisions, job, audit, tx>> /\ changes < MaxChanges /\ changes' = changes + 1
  BY Zenon DEF WindowChanges, RolesChange, DeviceChanges, Changed
<1>2. TypeOK
  BY Zenon DEF ApprovalInv
<1>3. changes' \in 0 .. MaxChanges
  BY <1>1, <1>2 DEF TypeOK, Sensible
<1>4. roles' \subseteq Users /\ device' \in [Devices -> Conditions] /\ window' \in BOOLEAN
  <2>1. CASE WindowChanges
    BY Zenon, <1>2, <2>1 DEF WindowChanges, TypeOK
  <2>2. CASE \E u \in Users : RolesChange(u)
    BY Zenon, <1>2, <2>2 DEF RolesChange, TypeOK
  <2>3. CASE \E d \in Devices : DeviceChanges(d)
    BY <1>2, <2>3 DEF DeviceChanges, TypeOK
  <2> QED BY Zenon, <2>1, <2>2, <2>3
<1>5. TypeOK'
  BY Zenon, <1>1, <1>2, <1>3, <1>4 DEF TypeOK
<1>6. LockedIsCounted' /\ DecidedIsPermitted' /\ DispatchIsApproved' /\ NoStrandedQuorum'
      /\ DecisionsAreAudited'
  BY <1>1 DEF ApprovalInv, LockedIsCounted, DecidedIsPermitted, DispatchIsApproved,
              NoStrandedQuorum, Pending, DecisionsAreAudited, Approvals
<1> QED BY Zenon, <1>5, <1>6 DEF ApprovalInv

LEMMA ApprovalInitially ==
    ASSUME Sensible, Init
    PROVE  ApprovalInv
<1>1. (CHOOSE a \in Actions : TRUE) \in Actions /\ (CHOOSE s \in Snapshot : TRUE) \in Snapshot
  <2>1. \E a \in Actions : TRUE
    BY Zenon DEF Sensible
  <2>2. PICK m \in MinApprovers : TRUE
    BY Zenon DEF Sensible
  <2>3. PICK b \in Separations : TRUE
    BY Zenon DEF Sensible
  <2>4. [min |-> m, separation |-> b, form |-> "policy"] \in Snapshot
    BY Zenon DEF Snapshot
  <2> QED BY Zenon, <2>1, <2>4
<1>2. req \in Requests /\ req.status = "none" /\ decisions = {} /\ audit = {} /\ job = NoJob /\ tx = NoTx
  BY Zenon, <1>1 DEF Init, Requests, Sensible
<1>3. NoTx.next = 0 /\ NoTx \in [user : Users, next : 0 .. DeviceCount + 1, targets : TargetLists]
  BY NoJobIsEmpty DEF NoTx, Sensible
<1>4. TypeOK
  BY <1>2, <1>3, NoJobIsEmpty DEF Init, TypeOK, Sensible, Conditions
<1>5. LockedIsCounted
  BY Zenon, <1>2, <1>3 DEF LockedIsCounted
<1>6. Approvals = {}
  BY Zenon, <1>2 DEF Approvals
<1>7. DecidedIsPermitted /\ DispatchIsApproved /\ NoStrandedQuorum /\ DecisionsAreAudited
  BY Zenon, <1>2, <1>6 DEF DecidedIsPermitted, DispatchIsApproved, NoStrandedQuorum, Pending,
                    DecisionsAreAudited, Decided
<1> QED BY Zenon, <1>4, <1>5, <1>7 DEF ApprovalInv

LEMMA ApprovalPreserved ==
    ASSUME ApprovalInv, [Next]_vars
    PROVE  ApprovalInv'
<1>0. Requester \in Users
  BY Zenon DEF ApprovalInv, TypeOK, Sensible
<1>1. CASE UNCHANGED vars
  BY <1>1 DEF vars, ApprovalInv, TypeOK, LockedIsCounted, DecidedIsPermitted, DispatchIsApproved,
              NoStrandedQuorum, Pending, DecisionsAreAudited, Approvals
<1>2. CASE HandleCreateApprovalRequest \/ SeedRequest
  BY Zenon, <1>2, InsertStep DEF HandleCreateApprovalRequest, SeedRequest
<1>3. CASE HandleApproveRequest
  BY Zenon, <1>3, TransactionSteps, RecordStep, CommitStep DEF HandleApproveRequest
<1>4. CASE (\E u \in Users : HandleRejectRequest(u)) \/ HandleCancelApprovalRequest
  BY Zenon, <1>0, <1>4, DecideStep DEF HandleRejectRequest, HandleCancelApprovalRequest
<1>5. CASE ExpirePendingApprovals \/ Environment
  BY Zenon, <1>5, ExpirySteps, SurroundingSteps DEF Environment
<1> QED BY Zenon, <1>1, <1>2, <1>3, <1>4, <1>5 DEF Next

\* For any users, devices, policies and number of changes: what the approving
\* transaction counted under the lock of the request is still true when it commits,
\* and decisions, job and evidence agree (handleApproveRequest).
THEOREM ApprovalInvariance == Sensible => (Spec => []ApprovalInv)
<1> SUFFICES ASSUME Sensible PROVE Spec => []ApprovalInv
  BY Zenon
<1> QED BY ApprovalInitially, ApprovalPreserved, PTL DEF Spec

\* handleApproveRequest creates a job exactly with a met policy, whatever devices,
\* roles and other requests do while its transaction runs.
THEOREM JobsAreApproved == Sensible => (Spec => []DispatchIsApproved)
BY ApprovalInvariance, PTL DEF ApprovalInv

\* No sequence of approvals, failed dispatches and rollbacks leaves a pending request
\* with its quorum, which nobody could complete any more.
THEOREM QuorumIsNotStranded == Sensible => (Spec => []NoStrandedQuorum)
BY ApprovalInvariance, PTL DEF ApprovalInv

\* endpoint_audit_evidence and the tables it speaks of never disagree.
THEOREM EvidenceIsTrue == Sensible => (Spec => []DecisionsAreAudited)
BY ApprovalInvariance, PTL DEF ApprovalInv

===============================================================================
