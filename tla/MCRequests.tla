----------------------------- MODULE MCRequests -----------------------------
(***************************************************************************)
(* What the API does when requests overlap: small instances of the modules *)
(* whose actions are the statements of concurrent transactions. A          *)
(* behaviour is one of the instance that setting names. Commands: an       *)
(* approval by three users over two devices, a recurring schedule on two   *)
(* replicas, a one-time schedule bound to a smart group, endpoint actions  *)
(* with one idempotency key, an ad-hoc script, a software deployment.      *)
(* Accounts: the first owner of a provider, memberships, offboarding,      *)
(* access control, the provider's profile, the services of a provider and  *)
(* its keys. The variables v1, v2, ... are those of the instance, in the   *)
(* order its module declares them.                                         *)
(***************************************************************************)
EXTENDS Integers, TLC

CONSTANTS
    Settings,        \* the instances that are run
    None,
    Overlapping,     \* the transactions that overlap
    KeyRequests,     \* those of the instances with small requests
    \* approvals
    Users, Requester, DeviceCount, MinApprovers, Separations, ApprovalActions,
    MaxChanges,
    \* endpoint actions and scripts
    Endpoints, Placed, Calls, MaxFlips,
    Tenants, TenantOf, Owner, Public, MaxIds, MaxScriptChanges,
    \* software
    Targets, MaxRetries,
    \* owners, and members of a hierarchy of scopes
    Msps, Emails, MaxInvitations,
    Accounts, Root, Assignees, Scopes, Platform, Parent, TypeOf, Roles,
    \* offboarding
    Agents, Tokens, MaxUses, MaxDevices, Periods, MaxTime,
    \* services and keys
    Hostnames, Methods, Tickets, Replies, MaxDomains, MaxOps, MaxKeys

VARIABLES
    setting, v1, v2, v3, v4, v5, v6, v7, v8, v9, v10

vars ==
    <<setting, v1, v2, v3, v4, v5, v6, v7, v8, v9, v10>>

Interchangeable == Permutations(Users \ {Requester}) \cup Permutations(Overlapping)

\* The values that Requests.cfg gives: a provider M of the platform P and its client C.
Hierarchy3 == {"P", "M", "C"}
Parent3 == [s \in Hierarchy3 |-> IF s = "C" THEN "M" ELSE "P"]
TypeOf3 == [s \in Hierarchy3 |->
              CASE s = "P" -> "platform" [] s = "M" -> "msp" [] s = "C" -> "client"]
Grants == {[user |-> "asker", scope |-> "P", role |-> "platform_admin"],
           [user |-> "asker", scope |-> "P", role |-> "platform_support"],
           [user |-> "asker", scope |-> "C", role |-> "client_admin"]}

\* Three calls that reuse an idempotency key, one for several devices.
ActionCall(n, action, devices) ==
    [id |-> n, action |-> action, devices |-> devices, key |-> "k",
     bulk |-> devices # {"d1"}, admin |-> TRUE, reason |-> TRUE, scheduled |-> FALSE]
Calls4 == {ActionCall(1, "reboot", {"d1"}), ActionCall(2, "reboot", {"d1"}),
           ActionCall(3, "refresh", {"d1"}), ActionCall(4, "reboot", {"d1", "d2"})}

Tenant1 == [d \in {"d1", "d2"} |-> "t1"]

ProfileBodies == {[required |-> "X", optional |-> ""], [required |-> "y", optional |-> "x"],
                  [required |-> "bad", optional |-> ""]}
ProfilePatches == {("required" :> "y"), ("optional" :> "X")}

Approval == INSTANCE EndpointApproval WITH
    Actions <- ApprovalActions, req <- v1, decisions <- v2, job <- v3, audit <- v4, tx <- v5, roles <- v6,
    device <- v7, window <- v8, changes <- v9

Repeated == INSTANCE ScriptSchedule WITH
    Replicas <- Overlapping, DeviceCount <- 1,
    Recurring <- TRUE, Bound <- FALSE, Answers <- {"success", "failed"},
    MaxRuns <- 2, MaxRequests <- 1, MaxCrashes <- 1, sched <- v1, exec <- v2,
    runner <- v3, handler <- v4, cmds <- v5, results <- v6, seen <- v7,
    used <- v8, requests <- v9, crashes <- v10

Group == INSTANCE ScriptSchedule WITH
    Replicas <- {"r"}, DeviceCount <- 2, Recurring <- FALSE,
    Bound <- TRUE, Answers <- {"success", "timeout"}, MaxRuns <- 2,
    MaxRequests <- 1, MaxCrashes <- 0, sched <- v1, exec <- v2, runner <- v3,
    handler <- v4, cmds <- v5, results <- v6, seen <- v7, used <- v8,
    requests <- v9, crashes <- v10

Action == INSTANCE EndpointAction WITH
    Devices <- Endpoints, device <- v1, active <- v2, window <- v3, approval <- v4,
    flips <- v5, jobs <- v6, pending <- v7, call <- v8

Script == INSTANCE ScriptExecution WITH
    Devices <- Endpoints, Calls <- Overlapping, MaxChanges <- MaxScriptChanges,
    script <- v1, usable <- v2, call <- v3, executions <- v4, jobs <- v5, changes <- v6

Software == INSTANCE SoftwareDeployment WITH
    Txs <- Overlapping, package <- v1, deployment <- v2, row <- v3, target <- v4,
    reported <- v5, installed <- v6, lock <- v7, tx <- v8, retries <- v9

Owners == INSTANCE OwnerOnboarding WITH
    Requests <- Overlapping, msp <- v1, inv <- v2, users <- v3, owners <- v4,
    sending <- v5, req <- v6

Members == INSTANCE Memberships WITH
    Users <- Accounts, Targets <- Assignees, Requests <- Overlapping,
    member <- v1, enabled <- v2, token <- v3, req <- v4

Offboarding == INSTANCE TenantOffboarding WITH
    active <- v1, entitlement <- v2, tokens <- v3, device <- v4, reg <- v5,
    beat <- v6, off <- v7, record <- v8, promised <- v9, now <- v10

Access == INSTANCE AccessControl WITH
    Users <- {"asker"}, Agents <- {"a"}, Requests <- {"r"},
    Rows <- Grants, SiteOf <- [a \in {"a"} |-> "C"], Lifetime <- 1,
    MaxTime <- 2, MaxEvents <- 3, member <- v1, enabled <- v2, live <- v3,
    support <- v4, complete <- v5, key <- v6, now <- v7, token <- v8,
    req <- v9, events <- v10

Profile == INSTANCE ProviderProfile WITH
    Requests <- KeyRequests, Bodies <- ProfileBodies, Patches <- ProfilePatches,
    row <- v1, setup <- v2, audit <- v3, req <- v4

Services == INSTANCE TenantServices WITH
    Requests <- Overlapping, domain <- v1, audit <- v2, account <- v3, subscription <- v4,
    usage <- v5, method <- v6, ticket <- v7, req <- v8, ops <- v9,
    overtaken <- v10

Keys == INSTANCE TenantKeys WITH
    Requests <- KeyRequests, key <- v1, req <- v2

\* The variables an instance of n variables does not need.
Unused(n) ==
    /\ IF n < 3 THEN v3 = 0 ELSE TRUE
    /\ IF n < 4 THEN v4 = 0 ELSE TRUE
    /\ IF n < 5 THEN v5 = 0 ELSE TRUE
    /\ IF n < 6 THEN v6 = 0 ELSE TRUE
    /\ IF n < 7 THEN v7 = 0 ELSE TRUE
    /\ IF n < 8 THEN v8 = 0 ELSE TRUE
    /\ IF n < 9 THEN v9 = 0 ELSE TRUE
    /\ IF n < 10 THEN v10 = 0 ELSE TRUE

StaysUnused(n) ==
    /\ IF n < 3 THEN UNCHANGED v3 ELSE TRUE
    /\ IF n < 4 THEN UNCHANGED v4 ELSE TRUE
    /\ IF n < 5 THEN UNCHANGED v5 ELSE TRUE
    /\ IF n < 6 THEN UNCHANGED v6 ELSE TRUE
    /\ IF n < 7 THEN UNCHANGED v7 ELSE TRUE
    /\ IF n < 8 THEN UNCHANGED v8 ELSE TRUE
    /\ IF n < 9 THEN UNCHANGED v9 ELSE TRUE
    /\ IF n < 10 THEN UNCHANGED v10 ELSE TRUE

Init ==
    /\ setting \in Settings
    /\ \/ setting = "approval" /\ Approval!Init /\ Unused(9)
       \/ setting = "recurring" /\ Repeated!Init /\ Unused(10)
       \/ setting = "group" /\ Group!Init /\ Unused(10)
       \/ setting = "action" /\ Action!Init /\ Unused(8)
       \/ setting = "script" /\ Script!Init /\ Unused(6)
       \/ setting = "software" /\ Software!Init /\ Unused(9)
       \/ setting = "owners" /\ Owners!Init /\ Unused(6)
       \/ setting = "members" /\ Members!Init /\ Unused(4)
       \/ setting = "offboarding" /\ Offboarding!Init /\ Unused(10)
       \/ setting = "access" /\ Access!Init /\ Unused(10)
       \/ setting = "profile" /\ Profile!Init /\ Unused(4)
       \/ setting = "services" /\ Services!Init /\ Unused(10)
       \/ setting = "keys" /\ Keys!Init /\ Unused(2)

Next ==
    /\ UNCHANGED setting
    /\ \/ setting = "approval" /\ Approval!Next /\ StaysUnused(9)
       \/ setting = "recurring" /\ Repeated!Next /\ StaysUnused(10)
       \/ setting = "group" /\ Group!Next /\ StaysUnused(10)
       \/ setting = "action" /\ Action!Next /\ StaysUnused(8)
       \/ setting = "script" /\ Script!Next /\ StaysUnused(6)
       \/ setting = "software" /\ Software!Next /\ StaysUnused(9)
       \/ setting = "owners" /\ Owners!Next /\ StaysUnused(6)
       \/ setting = "members" /\ Members!Next /\ StaysUnused(4)
       \/ setting = "offboarding" /\ Offboarding!Next /\ StaysUnused(10)
       \/ setting = "access" /\ Access!Next /\ StaysUnused(10)
       \/ setting = "profile" /\ Profile!Next /\ StaysUnused(4)
       \/ setting = "services" /\ Services!Next /\ StaysUnused(10)
       \/ setting = "keys" /\ Keys!Next /\ StaysUnused(2)

Spec == Init /\ [][Next]_vars

-----------------------------------------------------------------------------
\* The rows and requests of each instance keep their types; the statuses are
\* those the CHECK constraints of the tables allow.
TypeOK ==
    CASE setting = "approval" -> Approval!TypeOK
      [] setting = "recurring" -> Repeated!TypeOK
      [] setting = "group" -> Group!TypeOK
      [] setting = "action" -> Action!TypeOK
      [] setting = "script" -> Script!TypeOK
      [] setting = "software" -> Software!TypeOK
      [] setting = "owners" -> Owners!TypeOK
      [] setting = "members" -> Members!TypeOK
      [] setting = "offboarding" -> Offboarding!TypeOK
      [] setting = "access" -> Access!TypeOK
      [] setting = "profile" -> Profile!TypeOK
      [] setting = "services" -> Services!TypeOK
      [] setting = "keys" -> Keys!TypeOK

\* handleApproveRequest: a job exists exactly for a dispatched request, it has
\* every device of the request, and the policy stored with the request was met
\* by distinct approvers, none of them the requester where it asks for
\* separation; a request that is still pending lacks an approval, so the one
\* that completes the quorum is kept only with the job it creates.
DispatchIsApproved ==
    setting = "approval" => Approval!DispatchIsApproved /\ Approval!NoStrandedQuorum

\* ProcessScheduleDeviceResult, resetScheduleExecutionOnConflict: an execution
\* shows the agent's outcome only for the command dispatched last, however
\* replicas, redispatches and late results interleave.  A software
\* deployment follows the targets of its job the same way: every settled target
\* has left "pending", the deployment is settled with its last target, as failed
\* exactly when one failed, and success rests on an installer that ended well.
OutcomeIsCurrent ==
    /\ setting = "recurring" => Repeated!OutcomeIsCurrent
    /\ setting = "group" => Group!OutcomeIsCurrent
    /\ setting = "software" => Software!ViewFollowsJob

\* A request takes effect whole or not at all (withTenantTransaction).  However
\* often a request is repeated, one idempotency key has one job, with a target,
\* an outbox row and an audit row for every device (handleDeviceAction); each
\* device of an ad-hoc script has one execution and one job, of the same tenant
\* (handleRunScript); every use of an enrolment token is a device
\* (handleAgentRegister).
RequestIsWhole ==
    /\ setting = "action" => Action!OneJobPerKey /\ Action!JobIsWhole
    /\ setting = "script" => Script!RunIsWhole
    /\ setting = "offboarding" => Offboarding!UsesAreDevices

\* Nothing is in force without its record: every decision of an approver and every
\* domain of a portal has the audit row its transaction wrote, a rolled back one
\* has none, and replaying the audit trail of the provider's profile gives the
\* stored row, so no patch overwrote a field it did not name.
ChangesAreAudited ==
    /\ setting = "approval" => Approval!DecisionsAreAudited
    /\ setting = "profile" => Profile!ProfileIsAudited
    /\ setting = "services" => Services!DomainsAreAudited

\* There is one of each, however requests overlap: an active provider has consumed
\* one invitation and has that one owner (OwnerInvitationService.accept), a
\* replacement leaves one role of a user in a scope, there is one default
\* payment method (handleSetDefaultPaymentMethod) and one active key (RotateKey).
OneOfEach ==
    /\ setting = "owners" => Owners!OneOwnerEach
    /\ setting = "members" => Members!OneRolePerReplacement
    /\ setting = "services" => Services!OneDefaultMethod
    /\ setting = "keys" => Keys!OneActiveKey

\* The authority of a request is what the database held when it arrived, never
\* what an old token claims (validateAndBuildPrincipal); it reaches from a scope
\* to the scopes below it only; an administrator is served nothing before setup
\* is complete; and the Go code and the row policies of the database agree in
\* every state on who may act in and manage a scope (resolveAuthorization,
\* app_scope_is_authorized, app_actor_can_manage_scope).
AuthorityIsCurrent ==
    /\ setting = "access" => /\ Access!AuthorityIsCurrent /\ Access!AuthorityFlowsDown
                             /\ Access!SetupComesFirst
    /\ setting = "members" => Members!PolicyTwinsAgree

\* A device enrolled by a token the offboarding revoked has lost its approval,
\* whatever moment its registration chose and also after the provider is
\* activated again; and deletion is approved only when every retention end an
\* operator was told has passed (handleOffboardMSP, handleApproveMSPDeletion).
OffboardingIsFinal ==
    setting = "offboarding" =>
        Offboarding!NoAgentOutlivesOffboarding /\ Offboarding!RetentionIsHonoured

\* What was settled is not undone by a request that began before: a reported
\* success (handleScriptResultNATS), a proven domain and a reply given to a
\* client (handleVerifyDomain, handleReplyToClientSupportRequest); and a
\* membership is never added on authority that is gone when the INSERT runs
\* (handleCreateMembership and the row policy of memberships).
SettledStays ==
    [][/\ setting = "recurring" => ~ Repeated!LosesSuccess
       /\ setting = "services" => ~ Services!ProofUndone
       /\ setting = "members" => ~ Members!StaleAssignment]_vars
=============================================================================
