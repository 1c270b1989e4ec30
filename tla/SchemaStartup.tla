---------------------------- MODULE SchemaStartup ----------------------------
(***************************************************************************)
(* Processes that start against one database: orchestrator replicas, which *)
(* run the TimescaleDB migrations (no ledger, no lock) and then             *)
(* SchemaManager.Apply, and bootstrap-admin commands, which run             *)
(* SchemaManager.Apply and then create the first administrator.             *)
(*                                                                         *)
(* Apply holds a session advisory lock on one connection and runs every     *)
(* migration and its ledger row in one transaction of that same connection, *)
(* so a lost connection loses the lock and the open transaction together.   *)
(*                                                                         *)
(* A migration is abstracted to what its statements ask of the catalogue    *)
(* and what they leave in it: the tables, functions and types it makes, the *)
(* tables and functions its statements name, the row-security policies it   *)
(* drops and creates, the tables it enables and forces row security on, and *)
(* the tables it puts behind the recovery mutation gate.  Four tables are   *)
(* created, with different columns, by the relational and by the TimescaleDB*)
(* list; "columns" names those whose own columns a migration relies on, and *)
(* "bare" the types it creates without asking whether they exist.           *)
(* Column lists, indexes, constraints and seed rows are left out.           *)
(***************************************************************************)
EXTENDS Naturals, Sequences, FiniteSets, SequencesExt

CONSTANTS Servers,      \* orchestrator processes
          Bootstraps,   \* bootstrap-admin commands
          MaxAttempts,  \* tries at the lock (5 in acquireLock)
          MaxFailures,  \* interruptions considered
          None

VARIABLES catalogue,  \* what the database's catalogue holds
          ledger,     \* ids in schema_migrations
          lock,       \* the session that holds the migration lock
          admins,     \* users created by bootstrap
          failures,
          proc        \* pc, next migration and lock attempts of each process

vars == <<catalogue, ledger, lock, admins, failures, proc>>

-----------------------------------------------------------------------------
(* The migrations: pkg/postgres/schema.go in the order of Migrations(), and  *)
(* pkg/timescale/migrations.go.                                              *)


(* A migration that does nothing, and the ones that make and name tables.   *)
NoChange ==
  [id |-> 0, makes |-> {}, needs |-> {}, columns |-> {}, timed |-> FALSE,
   types |-> {}, bare |-> {}, funcs |-> {}, uses |-> {}, drops |-> {}, grants |-> {},
   rls |-> {}, forced |-> {}, gates |-> {}]

Migration(id, made, named) ==
  [NoChange EXCEPT !.id = id, !.makes = made, !.needs = named \ made]

On(tables, policies) == tables \X policies

Guarded(m, tables, policy) ==
  [m EXCEPT !.rls = @ \cup tables, !.grants = @ \cup On(tables, {policy})]

Forced(m, tables) == [m EXCEPT !.forced = @ \cup tables]

Renewed(m, policies) ==
  [m EXCEPT !.drops = @ \cup policies, !.grants = @ \cup policies]

(* Functions the row-security policies of later migrations call.            *)
ScopeFunctions ==
  {"safe_msp_id", "app_is_platform_admin", "support_access_allowed"}

-----------------------------------------------------------------------------
(* Migrations 1 to 26 (73 sits between 24 and 25): the single-tenant schema.*)

TenantTables ==
  << Migration(1, {"tenants"}, {}),
     Migration(2, {"users"}, {"tenants"}),
     Migration(3, {"devices"}, {"tenants"}),
     Migration(4, {"permissions"}, {"tenants"}),
     Guarded(Migration(5, {}, {"devices", "users", "permissions"}),
             {"devices", "users", "permissions"}, "tenant_isolation") >>

RuleTables ==
  << Migration(6, {"enrollment_tokens"}, {"tenants", "users"}),
     Migration(7, {"audit_log"}, {"tenants", "users"}),
     Guarded(Migration(8, {"alert_rules"}, {"tenants"}),
             {"alert_rules"}, "tenant_isolation"),
     Guarded(Migration(9, {"notification_channels"}, {"tenants"}),
             {"notification_channels"}, "tenant_isolation"),
     Guarded(Migration(10, {"maintenance_windows"}, {"tenants", "users"}),
             {"maintenance_windows"}, "tenant_isolation"),
     Guarded(Migration(11, {"patch_policies"}, {"tenants"}),
             {"patch_policies"}, "tenant_isolation") >>

PatchTables ==
  << Guarded(Migration(12, {"patch_deployments"}, {"patch_policies", "tenants"}),
             {"patch_deployments"}, "tenant_isolation"),
     Guarded(Migration(13, {"patch_deployment_devices", "patch_device_states",
                            "patch_inventory"}, {"patch_deployments", "tenants"}),
             {"patch_inventory"}, "tenant_isolation"),
     Migration(14, {"cve_database", "device_vulnerabilities"}, {"devices"}),
     Migration(15, {}, {"cve_database"}),
     Guarded(Migration(16, {"mfa_secrets"}, {"tenants", "users"}),
             {"mfa_secrets"}, "tenant_isolation") >>

AccessTables ==
  << Guarded(Migration(17, {"session_recordings"}, {"devices", "tenants", "users"}),
             {"session_recordings"}, "tenant_isolation"),
     Migration(18, {"cve_sync_state", "cve_package_ecosystem"}, {"cve_database"}),
     Guarded(Migration(19, {"tenant_encryption_keys"}, {"tenants"}),
             {"tenant_encryption_keys"}, "tenant_isolation"),
     Migration(20, {"user_tenant_access", "audit_auth"}, {"tenants", "users"}),
     Migration(21, {"agent_registrations"}, {"devices", "tenants"}) >>

DeploymentTables ==
  << Migration(22, {"scripts", "script_executions"}, {"devices", "tenants", "users"}),
     Migration(23, {"software_packages", "software_deployments",
                    "software_deployment_targets"}, {"devices", "tenants", "users"}) >>

ReportTables ==
  << Migration(24, {"report_schedules", "generated_reports"}, {"tenants"}),
     Migration(73, {"compliance_reports"}, {"tenants"}),
     Migration(25, {}, {"devices", "tenants"}),
     Migration(26, {"alerts"}, {"alert_rules", "tenants"}) >>

-----------------------------------------------------------------------------
(* Migrations 27 to 48: the MSP, client and site hierarchy, jobs, and the   *)
(* row security that follows it.                                            *)

Hierarchy == {"client_organizations", "msp_tenants", "sites"}

MspTables ==
  << Migration(27, {"msp_tenants"}, {}),
     Migration(28, {"client_organizations"}, {"msp_tenants"}),
     Migration(29, {"sites"}, {"client_organizations"}),
     Migration(30, {}, {"client_organizations", "msp_tenants", "tenants"}),
     Migration(31, {"branding_profiles"}, {"msp_tenants"}),
     Migration(32, {"custom_domains"}, {"branding_profiles", "msp_tenants"}) >>

JobTables ==
  << Migration(33, {"enrollment_tokens_v2"}, Hierarchy),
     Migration(36, {"device_groups"}, Hierarchy),
     Migration(34, {"jobs"}, Hierarchy),
     Migration(35, {"job_targets"}, {"jobs"}),
     Migration(37, {"policies"}, Hierarchy),
     Migration(38, {"policy_assignments"}, {"policies"}) >>

OwnershipTables ==
  << Migration(39, {"platforms", "memberships"}, {}),
     Migration(40, {"support_access_grants"}, Hierarchy),
     Migration(41, {}, Hierarchy \cup {"devices"}),
     Migration(42, {}, {"client_organizations", "devices", "sites"}),
     Migration(43, {}, {"client_organizations", "devices", "sites"}) >>

TenantOwned ==
  {"client_organizations", "sites", "devices", "memberships",
   "support_access_grants", "jobs", "job_targets", "device_groups",
   "enrollment_tokens_v2"}

OwnershipRules ==
  LET isolation == On({"client_organizations", "sites", "devices"}, {"msp_isolation"})
      writes == On({"client_organizations", "devices"}, {"msp_insert", "msp_update"})
  IN << [Migration(44, {}, TenantOwned) EXCEPT
           !.rls = TenantOwned, !.drops = isolation,
           !.grants = isolation \cup On({"memberships"}, {"msp_isolation"})],
        [Forced(Renewed(Migration(45, {}, {"client_organizations", "devices", "sites"}),
                        writes), {"client_organizations", "devices", "sites"})
           EXCEPT !.funcs = {"safe_msp_id"}],
        [Migration(46, {}, {"memberships", "support_access_grants"})
           EXCEPT !.funcs = {"safe_msp_id"}] >>

(* Migration 47 normalises ownership and defines the scope functions ...    *)
FailClosedFunctions ==
  [Migration(47, {}, TenantOwned \cup {"agent_registrations", "msp_tenants", "tenants"})
     EXCEPT !.funcs = ScopeFunctions \cup {"safe_app_setting"}]

(* ... replaces every earlier policy of the nine tenant-owned tables ...    *)
FailClosedPolicies ==
  LET old == On({"devices"}, {"tenant_isolation"})
             \cup On({"client_organizations", "sites", "devices", "memberships"},
                     {"msp_isolation"})
             \cup On({"client_organizations", "devices"}, {"msp_insert", "msp_update"})
  IN [FailClosedFunctions EXCEPT
        !.drops = old \cup On({"support_access_grants", "jobs", "job_targets",
                               "device_groups", "enrollment_tokens_v2"}, {"tenant_scope"}),
        !.grants = On(TenantOwned, {"tenant_scope"})]

(* ... and forces row security on all nine before it commits.               *)
FailClosed ==
  << [FailClosedPolicies EXCEPT !.rls = TenantOwned, !.forced = TenantOwned] >>

-----------------------------------------------------------------------------
(* Migrations 48 to 72: durable jobs, the control plane, approvals,         *)
(* recovery, owner activation, scope-bound authorization and policies.      *)

DurableJobTables ==
  << Migration(48, {}, {"client_organizations", "sites", "tenants"}),
     Migration(49, {"job_outbox"}, {"msp_tenants"}),
     Migration(50, {"job_inbox"}, {"job_targets", "jobs", "msp_tenants"}),
     Migration(51, {}, {"job_targets", "jobs", "msp_tenants"}),
     Migration(52, {}, {"job_targets", "jobs"}) >>

Scoped(m, tables) ==
  [Forced(Guarded(m, tables, "tenant_scope"), tables) EXCEPT !.uses = ScopeFunctions]

ControlPlaneTables ==
  << [Scoped(Migration(53, {"plans", "plan_entitlements"}, {"msp_tenants"}),
             {"plan_entitlements"})
        EXCEPT !.drops = On({"plan_entitlements"}, {"tenant_scope"})],
     Scoped(Migration(54, {"usage_snapshots", "control_plane_audit"}, {"msp_tenants"}),
            {"usage_snapshots", "control_plane_audit"}) >>

ApprovalTables ==
  LET approval == {"endpoint_approval_policies", "endpoint_approval_requests",
                   "endpoint_approval_decisions"}
  IN << Scoped(Migration(55, approval, Hierarchy), approval) >>

EvidenceTables ==
  << Scoped(Migration(56, {"agent_capabilities"}, {"devices", "msp_tenants"}),
            {"agent_capabilities"}),
     Guarded(Scoped(Migration(57, {"endpoint_audit_evidence"},
                              Hierarchy \cup {"devices"}), {"endpoint_audit_evidence"}),
             {"endpoint_audit_evidence"}, "audit_insert") >>

InventoryTables ==
  << Migration(58, {}, Hierarchy \cup {"device_groups", "devices", "maintenance_windows"}),
     Scoped(Migration(59, {"inventory_results"},
                      {"devices", "job_targets", "jobs", "msp_tenants"}),
            {"inventory_results"}),
     Migration(60, {}, {"devices", "endpoint_approval_requests", "job_targets", "jobs"}),
     [Renewed(Migration(61, {}, {"endpoint_approval_requests",
                                 "endpoint_audit_evidence", "jobs"}),
              On({"endpoint_audit_evidence"}, {"audit_select", "audit_insert"}))
        EXCEPT !.drops = @ \cup On({"endpoint_audit_evidence"}, {"tenant_scope"}),
               !.uses = ScopeFunctions],
     Migration(62, {}, {"job_targets"}) >>

RecoveryTables ==
  LET made == {"backup_records", "recovery_operations", "backup_audit_log"}
  IN << [Migration(63, made, {}) EXCEPT !.columns = made],
        [Migration(64, {}, {"backup_records", "recovery_operations"})
           EXCEPT !.columns = {"backup_records", "recovery_operations"},
                  !.types = {"recovery_state_enum"}] >>

(* Migration 65 puts a trigger on every table there is, except its own and  *)
(* schema_migrations; AllTables stands for that loop over pg_tables.        *)
AllTables == {"every table in pg_tables"}

MutationGate ==
  << [Migration(65, {"recovery_mutation_gate"}, {}) EXCEPT
        !.funcs = {"enforce_recovery_mutation_gate"}, !.gates = AllTables] >>

LifecycleTables ==
  << [Forced(Renewed(Migration(66, {"msp_offboarding"}, {"msp_tenants", "plan_entitlements"}),
                     On({"msp_offboarding"}, {"platform_only"})), {"msp_offboarding"})
        EXCEPT !.rls = {"msp_offboarding"}, !.gates = {"msp_offboarding"},
               !.uses = {"app_is_platform_admin", "enforce_recovery_mutation_gate"}],
     [Migration(67, {}, {"audit_log", "control_plane_audit", "memberships",
                         "platforms", "users"})
        EXCEPT !.funcs = {"prevent_control_plane_audit_mutation"}] >>

OwnerActivation ==
  << [Forced(Renewed(Migration(68, {"account_invitations"}, {"msp_tenants", "users"}),
                     {<<"account_invitations", "access">>, <<"users", "identity_scope">>}),
             {"account_invitations", "users"})
        EXCEPT !.drops = @ \cup On({"users"}, {"tenant_isolation"}),
               !.rls = {"account_invitations"}, !.gates = {"account_invitations"},
               !.uses = {"app_is_platform_admin", "safe_app_setting",
                         "enforce_recovery_mutation_gate"}] >>

(* Migration 69 records the memberships it finds invalid ...                *)
ScopeBoundIssues ==
  [Migration(69, {"authorization_migration_issues"},
             {"account_invitations", "agent_registrations", "client_organizations",
              "control_plane_audit", "devices", "memberships", "msp_tenants",
              "platforms", "sites", "user_tenant_access", "users"})
     EXCEPT !.gates = {"authorization_migration_issues"},
            !.uses = {"safe_app_setting", "support_access_allowed",
                      "enforce_recovery_mutation_gate"}]

(* ... defines the authorization functions ...                              *)
ScopeBoundFunctions ==
  [ScopeBoundIssues EXCEPT
     !.funcs = {"app_is_trusted_runtime", "app_is_platform_admin",
                "app_is_initial_bootstrap", "app_bootstrap_user_count",
                "app_scope_is_authorized", "app_actor_can_manage_scope",
                "app_may_manage_membership", "app_is_scope_manager"}]

(* ... and rewrites the policies in terms of them.                          *)
ScopeBound ==
  << [Renewed(ScopeBoundFunctions,
              On({"client_organizations", "sites", "devices", "memberships"},
                 {"tenant_scope"})
              \cup On({"users"}, {"identity_scope"})
              \cup On({"control_plane_audit"}, {"audit_select", "audit_insert"}))
        EXCEPT !.drops = @ \cup On({"control_plane_audit"}, {"tenant_scope"})] >>

PolicyTables ==
  << Migration(70, {}, {"alerts"}),
     [Forced(Guarded(Guarded(Migration(71, {"policy_revisions"},
                                       {"devices", "msp_tenants", "policies"}),
                             {"policies"}, "policy_scope"),
                     {"policy_revisions"}, "revision_scope"),
             {"policies", "policy_revisions"})
        EXCEPT !.drops = On({"policies"}, {"policy_scope"}),
               !.uses = {"app_is_platform_admin", "app_is_scope_manager",
                         "app_scope_is_authorized", "safe_app_setting",
                         "support_access_allowed"}] >>

-----------------------------------------------------------------------------
(* Migrations 72 to 97: billing, configuration items, the client portal,    *)
(* support requests, smart groups and the provider profile.                 *)

BillingTables ==
  << Migration(72, {"tenant_retention_settings"}, {"tenants"}),
     Migration(74, {"billing_accounts"}, {"msp_tenants"}),
     Migration(75, {"subscriptions"}, {"msp_tenants", "plans"}),
     Migration(76, {"invoices"}, {"msp_tenants", "subscriptions"}),
     Migration(77, {"invoice_items"}, {"invoices"}) >>

AssetTables ==
  << Migration(78, {"usage_records"}, {"msp_tenants"}),
     Migration(79, {"payment_methods"}, {"msp_tenants"}),
     Migration(80, {"device_relationships"}, Hierarchy \cup {"devices"}),
     Migration(81, {"network_addresses"}, Hierarchy \cup {"devices"}),
     Migration(82, {"device_packages"}, {"devices", "msp_tenants"}) >>

TopologyTables ==
  << Migration(83, {"device_services"}, {"devices", "msp_tenants"}),
     Migration(84, {"device_mounts"}, {"devices", "msp_tenants"}),
     [Migration(85, {"topology_edges"}, {"devices", "tenants"})
        EXCEPT !.columns = {"topology_edges"}] >>

PortalTables ==
  [Migration(86, {"client_auth_providers", "client_sessions", "client_portal_settings"},
             {"client_organizations", "users"})
     EXCEPT !.rls = {"client_auth_providers", "client_sessions", "client_portal_settings"},
            !.funcs = {"update_updated_at_column"}]

PortalPolicies ==
  << Renewed(PortalTables,
             On({"client_auth_providers", "client_portal_settings"},
                {"client_read", "platform_manage", "msp_manage"})
             \cup On({"client_sessions"}, {"client_read", "own", "platform_manage"})) >>

PortalColumns ==
  << Migration(87, {}, {"client_auth_providers", "client_portal_settings",
                        "client_sessions", "users"}) >>

PortalActivity ==
  << [Renewed(Migration(88, {"client_session_activity"},
                        {"client_organizations", "client_sessions"}),
              On({"client_session_activity"}, {"client_read", "platform_manage"}))
        EXCEPT !.rls = {"client_session_activity"},
               !.uses = {"update_updated_at_column"}] >>

LateForced ==
  {"billing_accounts", "subscriptions", "invoices", "invoice_items", "usage_records",
   "payment_methods", "tenant_retention_settings", "device_relationships",
   "network_addresses", "device_packages", "device_services", "device_mounts",
   "topology_edges"}

LateForcedPolicies ==
  << [Forced(Renewed(Migration(89, {}, LateForced \cup {"devices"}),
                     On(LateForced, {"isolation", "platform_admin"})), LateForced)
        EXCEPT !.rls = LateForced] >>

SupportTables ==
  << [Forced(Migration(90, {"client_support_requests"}, {"client_organizations", "devices"}),
             {"client_support_requests"})
        EXCEPT !.rls = {"client_support_requests"},
               !.grants = On({"client_support_requests"}, {"read", "insert", "update"})],
     Migration(91, {}, {"devices"}),
     [Migration(92, {"monitoring_definitions"}, {"tenants"})
        EXCEPT !.rls = {"monitoring_definitions"},
               !.grants = On({"monitoring_definitions"},
                             {"read", "insert", "update", "delete"})] >>

GroupTables ==
  << [Migration(93, {"device_role_bindings"}, {"devices", "tenants"})
        EXCEPT !.rls = {"device_role_bindings"},
               !.grants = On({"device_role_bindings"}, {"read", "insert"})],
     Migration(94, {"group_memberships"}, {"device_groups", "devices"}),
     Migration(95, {"smart_group_script_bindings"}, {"device_groups"}) >>

ProfileColumns ==
  << Migration(96, {}, {"patch_deployments"}), Migration(97, {}, {"platforms"}) >>

Migrations ==
  TenantTables \o RuleTables \o PatchTables \o AccessTables \o DeploymentTables
  \o ReportTables \o MspTables \o JobTables \o OwnershipTables \o OwnershipRules
  \o FailClosed \o DurableJobTables \o ControlPlaneTables \o ApprovalTables
  \o EvidenceTables \o InventoryTables \o RecoveryTables \o MutationGate
  \o LifecycleTables \o OwnerActivation \o ScopeBound \o PolicyTables
  \o BillingTables \o AssetTables \o TopologyTables \o PortalPolicies
  \o PortalColumns \o PortalActivity \o LateForcedPolicies \o SupportTables
  \o GroupTables \o ProfileColumns

(* How many there are: the ids are 1 to 97, each used once.                 *)
MigrationCount == 97

-----------------------------------------------------------------------------
(* The TimescaleDB list (AllMigrations): hypertables with a time column.    *)

TimeSeries(m) == [m EXCEPT !.timed = TRUE, !.columns = m.makes]

Migration001 == TimeSeries(Migration(1, {"metrics", "events", "heartbeats", "command_queue"}, {}))

Migration002 ==
  TimeSeries(Migration(2, {"alerts_ts", "snmp_polls", "flow_records", "topology_edges"}, {}))

Migration003 ==
  [TimeSeries(Migration(3, {"backup_records", "recovery_operations", "backup_audit_log"}, {}))
     EXCEPT !.types = {"recovery_state_enum"}, !.bare = {"recovery_state_enum"}]

Migration004 ==
  [Migration(4, {}, {}) EXCEPT
     !.funcs = {"drop_retention_policy", "set_retention_policy", "get_retention_policy"}]

AllMigrations == << Migration001, Migration002, Migration003, Migration004 >>

-----------------------------------------------------------------------------
(* The catalogue and what PostgreSQL does with a migration's statements.    *)

Empty ==
  [tables |-> {}, timed |-> {}, types |-> {}, funcs |-> {},
   policies |-> {}, rls |-> {}, forced |-> {}, gated |-> {}]

(* Whether every statement of m succeeds.  CREATE TABLE IF NOT EXISTS leaves*)
(* a table of that name alone, whatever its columns; CREATE POLICY and a    *)
(* bare CREATE TYPE fail when the name is taken.                            *)
Runs(db, m) ==
  /\ m.needs \subseteq db.tables
  /\ m.uses \subseteq db.funcs
  /\ m.bare \cap db.types = {}
  /\ m.grants \cap (db.policies \ m.drops) = {}
  /\ \A t \in m.columns \cap db.tables : (t \in db.timed) = m.timed

After(db, m) ==
  LET tables == db.tables \cup m.makes
      gates == IF m.gates = AllTables
               THEN tables \ {"recovery_mutation_gate"} ELSE m.gates
  IN [tables |-> tables,
      timed |-> db.timed \cup (IF m.timed THEN m.makes \ db.tables ELSE {}),
      types |-> db.types \cup m.types,
      funcs |-> db.funcs \cup m.funcs,
      policies |-> (db.policies \ m.drops) \cup m.grants,
      rls |-> db.rls \cup m.rls,
      forced |-> db.forced \cup m.forced,
      gated |-> db.gated \cup gates]

-----------------------------------------------------------------------------
(* The processes.                                                            *)

Processes == Servers \cup Bootstraps

Starting(p) ==
  [pc |-> IF p \in Servers THEN "metrics" ELSE "lock", next |-> 1, attempts |-> 0,
   snapshot |-> {}]

Init ==
  /\ catalogue = Empty /\ ledger = {} /\ lock = None /\ admins = {} /\ failures = 0
  /\ proc = [p \in Processes |-> Starting(p)]

Goes(p, pc) == proc' = [proc EXCEPT ![p].pc = pc, ![p].next = 1]

-----------------------------------------------------------------------------
(* Client.ApplyMigrations: each statement list is one implicit transaction, *)
(* run again at every start.                                                *)
ApplyMetrics(p) ==
  LET m == AllMigrations[proc[p].next] IN
  /\ proc[p].pc = "metrics"
  /\ Runs(catalogue, m)
  /\ catalogue' = After(catalogue, m)
  /\ IF proc[p].next = Len(AllMigrations)
     THEN Goes(p, "lock")
     ELSE proc' = [proc EXCEPT ![p].next = @ + 1]
  /\ UNCHANGED <<ledger, lock, admins, failures>>

MetricsFail(p) ==
  /\ proc[p].pc = "metrics"
  /\ ~ Runs(catalogue, AllMigrations[proc[p].next])
  /\ Goes(p, "failed")
  /\ UNCHANGED <<catalogue, ledger, lock, admins, failures>>

-----------------------------------------------------------------------------
(* SchemaManager.Apply.                                                     *)

(* Faulty: the migrations run whoever holds the lock.                       *)
LockIgnored(p) == TRUE

LockFree(p) == lock = None

AcquireLock(p) ==
  /\ proc[p].pc = "lock"
  /\ LockFree(p)
  /\ lock' = p
  /\ Goes(p, "check")
  /\ UNCHANGED <<catalogue, ledger, admins, failures>>

(* A failed try waits for the ticker; the last one gives up.                *)
LockHeld(p) ==
  /\ proc[p].pc = "lock"
  /\ ~ LockFree(p)
  /\ IF proc[p].attempts + 1 = MaxAttempts
     THEN Goes(p, "locked_out")
     ELSE proc' = [proc EXCEPT ![p].attempts = @ + 1]
  /\ UNCHANGED <<catalogue, ledger, lock, admins, failures>>

(* releaseLock: pg_advisory_unlock frees only the caller's own lock.        *)
ReleasedBy(p) == IF lock = p THEN None ELSE lock

CheckMigration(p) ==
  LET i == proc[p].next IN
  /\ proc[p].pc = "check"
  /\ i <= MigrationCount
  /\ proc' = [proc EXCEPT
                ![p] = IF Migrations[i].id \in ledger
                       THEN [@ EXCEPT !.next = i + 1]
                       ELSE [@ EXCEPT !.pc = "migrate"]]
  /\ UNCHANGED <<catalogue, ledger, lock, admins, failures>>

(* The statements, the ledger row and the commit are one transaction.       *)
RunMigration(p) ==
  LET m == Migrations[proc[p].next] IN
  /\ proc[p].pc = "migrate"
  /\ Runs(catalogue, m) /\ m.id \notin ledger
  /\ catalogue' = After(catalogue, m)
  /\ ledger' = ledger \cup {m.id}
  /\ proc' = [proc EXCEPT ![p].pc = "check", ![p].next = @ + 1]
  /\ UNCHANGED <<lock, admins, failures>>

MigrationFails(p) ==
  LET m == Migrations[proc[p].next] IN
  /\ proc[p].pc = "migrate"
  /\ ~ (Runs(catalogue, m) /\ m.id \notin ledger)
  /\ lock' = ReleasedBy(p)
  /\ Goes(p, "failed")
  /\ UNCHANGED <<catalogue, ledger, admins, failures>>

Applied(p) ==
  /\ proc[p].pc = "check"
  /\ proc[p].next > MigrationCount
  /\ lock' = ReleasedBy(p)
  /\ Goes(p, IF p \in Servers THEN "serving" ELSE "admin")
  /\ UNCHANGED <<catalogue, ledger, admins, failures>>

(* Faulty: the ledger is written before the migration runs.                 *)
InterruptedAfterRecord(p) ==
  /\ proc[p].pc = "migrate"
  /\ ledger' = ledger \cup {Migrations[proc[p].next].id}
  /\ failures < MaxFailures
  /\ failures' = failures + 1
  /\ lock' = ReleasedBy(p)
  /\ proc' = [proc EXCEPT ![p] = Starting(p)]
  /\ UNCHANGED <<catalogue, admins>>

(* The process dies, loses its connection or meets a transient error: its   *)
(* transaction and its lock are gone, and it is started again.              *)
Interrupted(p) ==
  /\ proc[p].pc \in {"metrics", "lock", "check", "migrate", "admin", "admin_commit"}
  /\ failures < MaxFailures
  /\ failures' = failures + 1
  /\ lock' = ReleasedBy(p)
  /\ proc' = [proc EXCEPT ![p] = Starting(p)]
  /\ UNCHANGED <<catalogue, ledger, admins>>

-----------------------------------------------------------------------------
(* BootstrapInitialAdmin.  The transaction is SERIALIZABLE and its snapshot *)
(* is taken by the statement that waits for the advisory lock, so the count *)
(* may be read from before another command's commit.                        *)

BeginAdmin(p) ==
  /\ proc[p].pc = "admin"
  /\ proc' = [proc EXCEPT ![p].snapshot = admins, ![p].pc = "admin_commit"]
  /\ UNCHANGED <<catalogue, ledger, lock, admins, failures>>

Serializable(p) == admins = proc[p].snapshot

CreateAdmin(p) ==
  /\ proc[p].pc = "admin_commit"
  /\ proc[p].snapshot = {}
  /\ Serializable(p)
  /\ admins' = admins \cup {p}
  /\ Goes(p, "done")
  /\ UNCHANGED <<catalogue, ledger, lock, failures>>

(* ErrAlreadyBootstrapped, or a serialization failure at the tenant row.    *)
RefuseAdmin(p) ==
  /\ proc[p].pc = "admin_commit"
  /\ proc[p].snapshot # {} \/ ~ Serializable(p)
  /\ Goes(p, "refused")
  /\ UNCHANGED <<catalogue, ledger, lock, admins, failures>>

Next ==
  \E p \in Processes :
    \/ ApplyMetrics(p) \/ MetricsFail(p)
    \/ AcquireLock(p) \/ LockHeld(p)
    \/ CheckMigration(p) \/ RunMigration(p) \/ MigrationFails(p) \/ Applied(p)
    \/ Interrupted(p)
    \/ BeginAdmin(p) \/ CreateAdmin(p) \/ RefuseAdmin(p)

Spec == Init /\ [][Next]_vars

-----------------------------------------------------------------------------
TypeOK ==
  /\ DOMAIN catalogue = DOMAIN Empty
  /\ ledger \subseteq 1..MigrationCount
  /\ lock \in Processes \cup {None}
  /\ admins \subseteq Bootstraps
  /\ failures \in 0..MaxFailures
  /\ \A p \in Processes :
       /\ proc[p].next \in 1..(MigrationCount + 1)
       /\ proc[p].attempts \in 0..MaxAttempts

(* Every migration a process is about to run, of either list, succeeds on   *)
(* the catalogue it finds, whoever else started, died or restarted before:  *)
(* the list is in dependency order, no name is created twice and no process *)
(* runs what another has just run.                                          *)
MigrationsApply ==
  \A p \in Processes :
    /\ proc[p].pc = "migrate" => Runs(catalogue, Migrations[proc[p].next])
    /\ proc[p].pc = "metrics" => Runs(catalogue, AllMigrations[proc[p].next])

(* The ledger and the catalogue move together, one migration of the list    *)
(* at a time: an interrupted Apply leaves no migration half done, none      *)
(* recorded that was not run and none skipped or run again by another       *)
(* process.                                                                 *)
LedgerBroken ==
  LET m == Migrations[Cardinality(ledger) + 1] IN
  /\ <<catalogue, ledger>>' # <<catalogue, ledger>>
  /\ ~ (ledger' = ledger \cup {m.id} /\ catalogue' = After(catalogue, m))

(* Between any two migrations, wherever Apply stops, a table with forced row*)
(* security has it enabled and has a policy: otherwise the owner the        *)
(* orchestrator connects as would read nothing from it.                     *)
ForcedIsEffective ==
  /\ catalogue.forced \subseteq catalogue.rls
  /\ catalogue.forced \subseteq {pol[1] : pol \in catalogue.policies}

(* "creates the one and only first local administrator" (bootstrap.go:41).  *)
OneFirstAdmin == Cardinality(admins) <= 1
==============================================================================
