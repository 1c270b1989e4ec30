---------------------------- MODULE Memberships ----------------------------
(* Who may act where.  Memberships (user, scope, role) are the only source of *)
(* authority: a login or a context switch puts a selected scope into a token, *)
(* and every request resolves that scope against the memberships and the      *)
(* active hierarchy of the moment (platform, MSP, client, site).  The same    *)
(* rule is written twice, in Go (resolveAuthorization) and in SQL (the row    *)
(* level security functions of migration 69), because a request keeps its     *)
(* Go answer while it runs and the database decides again at each statement.  *)
(*                                                                            *)
(* A request is several statements: the principal is built in a transaction   *)
(* of its own, the handler reads, and its writes commit together.  The user   *)
(* row lock that serialises replacements is held from LockUser to the commit. *)
(* The UPDATE that revokes and the INSERT that follows are two statements     *)
(* with a snapshot each.                                                      *)
EXTENDS Naturals

CONSTANTS Users, Root,      \* Root: the bootstrap administrator, one of Users
          Targets,          \* the users whose memberships requests change
          Requests,
          Scopes, Platform, \* the hierarchy: Platform is its root
          Parent,           \* scope |-> the scope above it, Platform for Platform itself
          TypeOf,           \* scope |-> "platform", "msp", "client" or "site"
          Roles,            \* the roles that requests assign
          None

VARIABLES member,   \* the active rows of memberships
          enabled,  \* scope |-> is_active
          token,    \* user |-> the scope selected in the user's token, or None
          req       \* request |-> the state of its transaction

vars == <<member, enabled, token, req>>

Row(u, s, r, by) == [user |-> u, scope |-> s, role |-> r, by |-> by]

Managers == {"platform_owner", "platform_admin", "msp_owner", "msp_admin", "client_admin"}

(* validRoleForScope, and the CHECK constraint of the table.                  *)
RolesFor(type) ==
    CASE type = "platform" -> {"platform_owner", "platform_admin", "platform_support",
                               "platform_billing", "platform_security_auditor", "platform_viewer"}
      [] type = "msp" -> {"msp_owner", "msp_admin", "msp_technician", "msp_viewer"}
      [] OTHER -> {"client_admin", "client_viewer"}

(* What the columns msp_id and client_id say of the hierarchy.                 *)
Hierarchy ==
    /\ Platform \in Scopes
    /\ Parent \in [Scopes -> Scopes]
    /\ TypeOf \in [Scopes -> {"platform", "msp", "client", "site"}]
    /\ \A s \in Scopes :
          /\ TypeOf[s] = "platform" <=> s = Platform
          /\ TypeOf[s] \in {"platform", "msp"} => Parent[s] = Platform
          /\ TypeOf[s] = "client" => TypeOf[Parent[s]] = "msp"
          /\ TypeOf[s] = "site" => TypeOf[Parent[s]] = "client"

(* The selected scope and everything above it: a site is of a client, a       *)
(* client of an MSP.                                                          *)
Chain[s \in Scopes] == {s, Parent[s], Parent[Parent[s]], Platform}

(* resolveSelectedScope: every ancestor is active.                            *)
Resolves(s) == \A t \in Chain[s] : enabled[t]

(* resolveAuthorization: the memberships that flow down to the selected scope. *)
(* Every legal role flows to every scope below its own, none up or sideways.  *)
Grants(u, s) ==
    IF Resolves(s)
    THEN {m \in member : m.user = u /\ m.scope \in Chain[s] /\ m.role \in RolesFor(TypeOf[m.scope])}
    ELSE {}

RolesIn(g) == {m.role : m \in g}

IsPlatformGlobal(s, roles) == s = Platform /\ roles \cap {"platform_owner", "platform_admin"} # {}

(* Faulty: a technician of the MSP manages it.                                *)
CanManageTechnician(s, roles) ==
    CASE TypeOf[s] = "platform" -> IsPlatformGlobal(s, roles)
      [] TypeOf[s] = "msp" -> roles \cap ((Managers \ {"client_admin"}) \cup {"msp_technician"}) # {}
      [] OTHER -> roles \cap Managers # {}

(* CanManageSelectedScope.                                                    *)
CanManage(s, roles) ==
    CASE TypeOf[s] = "platform" -> IsPlatformGlobal(s, roles)
      [] TypeOf[s] = "msp" -> roles \cap (Managers \ {"client_admin"}) # {}
      [] OTHER -> roles \cap Managers # {}

(* app_scope_is_authorized: the SQL twin of a successful resolveAuthorization. *)
DbAuthorized(u, s) ==
    /\ \A t \in Chain[s] \ {Platform} : enabled[t]
    /\ \E m \in member : m.user = u /\ m.scope \in Chain[s] /\ m.role \in RolesFor(TypeOf[m.scope])

(* app_actor_can_manage_scope, over the rows in the given state of the table. *)
DbManagesIn(rows, u, s) ==
    /\ \A t \in Chain[s] \ {Platform} : enabled[t]
    /\ \E m \in rows :
          /\ m.user = u
          /\ \/ m.scope = Platform /\ m.role \in {"platform_owner", "platform_admin"}
             \/ m.scope \in Chain[s] /\ TypeOf[m.scope] = "msp" /\ m.role \in {"msp_owner", "msp_admin"}
             \/ m.scope \in Chain[s] /\ TypeOf[m.scope] \in {"client", "site"} /\ m.role = "client_admin"

(* app_may_manage_membership for a request with the given security context;   *)
(* q.manager is app.scope_manager, set from Go when the request began.        *)
DbMayManage(rows, q, target) ==
    /\ q.manager
    /\ DbManagesIn(rows, q.actor, q.scope)
    /\ \/ q.scope = Platform
       \/ q.scope \in Chain[target]
          /\ \A t \in Chain[target] \ Chain[q.scope] : enabled[t]

(* actorMayAssign, with the roles the request was given when it began.        *)
ActorMayAssign(q, want) ==
    CASE TypeOf[q.scope] = "platform" ->
            /\ IsPlatformGlobal(q.scope, q.roles)
            /\ (want.role = "platform_owner" => "platform_owner" \in q.roles)
      [] TypeOf[q.scope] = "msp" ->
            /\ want.scope # Platform /\ q.scope \in Chain[want.scope]
            /\ q.roles \cap (Managers \ {"client_admin"}) # {}
            /\ (want.role = "msp_owner" =>
                    q.roles \cap {"platform_owner", "platform_admin", "msp_owner"} # {})
      [] OTHER ->
            /\ q.roles \cap Managers # {}
            /\ q.scope \in Chain[want.scope]

Idle == [pc |-> "idle"]

Init ==
    /\ member = {Row(Root, Platform, "platform_admin", "bootstrap")}
    /\ enabled = [s \in Scopes |-> TRUE]
    /\ token = [u \in Users |-> None]
    /\ req = [r \in Requests |-> Idle]

(* handleLogin and resolveInitialAuthorization: the platform first, then the  *)
(* user's own scopes from the widest down; no membership, no token.           *)
Rank(s) == CASE TypeOf[s] = "platform" -> 0 [] TypeOf[s] = "msp" -> 1
             [] TypeOf[s] = "client" -> 2 [] OTHER -> 3

Login(u, s) ==
    LET own == {t \in Scopes : Grants(u, t) # {} /\ \E m \in member : m.user = u /\ m.scope = t} IN
    /\ s \in own
    /\ \A t \in own : Rank(s) <= Rank(t)
    /\ token' = [token EXCEPT ![u] = s]
    /\ UNCHANGED <<member, enabled, req>>

(* handleContextSwitch: a token for another scope, resolved anew.             *)
SwitchContext(u, s) ==
    /\ token[u] # None
    /\ Grants(u, token[u]) # {}
    /\ Grants(u, s) # {}
    /\ token' = [token EXCEPT ![u] = s]
    /\ UNCHANGED <<member, enabled, req>>

(* withAccessControl and validateAndBuildPrincipal, then the security context *)
(* of withTenantTransaction: the roles are those of this moment.              *)
Begin(r, u) ==
    LET g == Grants(u, token[u]) IN
    /\ req[r].pc = "idle"
    /\ token[u] # None
    /\ g # {}
    /\ req' = [req EXCEPT ![r] =
                  [pc |-> "begun", actor |-> u, scope |-> token[u], roles |-> RolesIn(g),
                   manager |-> CanManage(token[u], RolesIn(g))]]
    /\ UNCHANGED <<member, enabled, token>>

(* Faulty: any known role goes with any scope.                                *)
ValidScope(want) == Resolves(want.scope)

(* validateMembershipAssignments: a role of the scope's type, an active scope. *)
ValidAssignment(want) == want.role \in RolesFor(TypeOf[want.scope]) /\ Resolves(want.scope)

(* Faulty: the replacement does not lock the user row.                        *)
LockNobody(r, target, want) ==
    LET q == req[r] IN
    /\ q.pc = "begun"
    /\ ValidAssignment(want)
    /\ ActorMayAssign(q, want)
    /\ {<<m.scope, m.role>> : m \in {n \in member : n.user = target}} # {<<want.scope, want.role>>}
    /\ req' = [req EXCEPT ![r] = [pc |-> "locked", actor |-> q.actor, scope |-> q.scope,
                                  manager |-> q.manager, target |-> target, want |-> want]]
    /\ UNCHANGED <<member, enabled, token>>

(* handleAdminUpdateUserTenants: validate the assignment, lock the user's row *)
(* and stop when the user already has exactly these memberships.              *)
LockUser(r, target, want) ==
    LET q == req[r] IN
    /\ q.pc = "begun"
    /\ ValidAssignment(want)
    /\ ActorMayAssign(q, want)
    /\ \A p \in Requests : req[p].pc \in {"locked", "revoked"} => req[p].target # target
    /\ {<<m.scope, m.role>> : m \in {n \in member : n.user = target}} # {<<want.scope, want.role>>}
    /\ req' = [req EXCEPT ![r] = [pc |-> "locked", actor |-> q.actor, scope |-> q.scope,
                                  manager |-> q.manager, target |-> target, want |-> want]]
    /\ UNCHANGED <<member, enabled, token>>

(* The UPDATE: the rows of its snapshot that the actor may manage.  A context *)
(* the database does not authorise at that moment revokes nothing, silently.  *)
RevokeRows(r) ==
    LET q == req[r] IN
    /\ q.pc = "locked"
    /\ req' = [req EXCEPT ![r] =
                  [pc |-> "revoked", actor |-> q.actor, scope |-> q.scope, manager |-> q.manager,
                   target |-> q.target, want |-> q.want,
                   by |-> IF DbMayManage(member, q, q.want.scope) THEN "replaced" ELSE "added",
                   rows |-> {m \in member : m.user = q.target /\ DbMayManage(member, q, m.scope)}]]
    /\ UNCHANGED <<member, enabled, token>>

(* Faulty: the INSERT is not subject to the policy of the table.              *)
InsertUnchecked(r) ==
    LET q == req[r]
        left == member \ q.rows IN
    /\ q.pc = "revoked"
    /\ ~ \E m \in left : m.user = q.target /\ m.scope = q.want.scope /\ m.role = q.want.role
    /\ member' = left \cup {Row(q.target, q.want.scope, q.want.role, q.by)}
    /\ req' = [req EXCEPT ![r] = Idle]
    /\ UNCHANGED <<enabled, token>>

(* insertMembershipAssignments and the commit.  The policy's WITH CHECK sees  *)
(* this transaction's own revocations: an administrator cannot replace the    *)
(* membership the right to assign comes from.                                 *)
InsertRow(r) ==
    LET q == req[r]
        left == member \ q.rows IN
    /\ q.pc = "revoked"
    /\ DbMayManage(left, q, q.want.scope)
    /\ ~ \E m \in left : m.user = q.target /\ m.scope = q.want.scope /\ m.role = q.want.role
    /\ member' = left \cup {Row(q.target, q.want.scope, q.want.role, q.by)}
    /\ req' = [req EXCEPT ![r] = Idle]
    /\ UNCHANGED <<enabled, token>>

(* handleCreateMembership: another role in the MSP of the route.              *)
CreateMembership(r, target, want) ==
    LET q == req[r] IN
    /\ q.pc = "begun"
    /\ TypeOf[want.scope] = "msp" /\ want.role \in RolesFor("msp")
    /\ q.scope \in {Platform, want.scope} /\ CanManage(q.scope, q.roles)
    /\ enabled[want.scope]
    /\ DbMayManage(member, q, want.scope)
    /\ ~ \E m \in member : m.user = target /\ m.scope = want.scope /\ m.role = want.role
    /\ member' = member \cup {Row(target, want.scope, want.role, "added")}
    /\ req' = [req EXCEPT ![r] = Idle]
    /\ UNCHANGED <<enabled, token>>

(* handleRevokeMembership.                                                    *)
RevokeMembership(r, m) ==
    LET q == req[r] IN
    /\ q.pc = "begun"
    /\ TypeOf[m.scope] = "msp"
    /\ q.scope \in {Platform, m.scope} /\ CanManage(q.scope, q.roles)
    /\ enabled[m.scope]
    /\ DbMayManage(member, q, m.scope)
    /\ member' = member \ {m}
    /\ req' = [req EXCEPT ![r] = Idle]
    /\ UNCHANGED <<enabled, token>>

(* An error, an answer of 400 or above, or a lost connection: nothing stays.  *)
RollBack(r) ==
    /\ req[r].pc # "idle"
    /\ req' = [req EXCEPT ![r] = Idle]
    /\ UNCHANGED <<member, enabled, token>>

(* handleSuspendMSP, handleArchiveClient, handleArchiveSite.                  *)
Disable(s) ==
    /\ s # Platform /\ enabled[s]
    /\ enabled' = [enabled EXCEPT ![s] = FALSE]
    /\ UNCHANGED <<member, token, req>>

(* handleActivateMSP: clients and sites stay archived.                        *)
ActivateMSP(s) ==
    /\ TypeOf[s] = "msp" /\ ~enabled[s]
    /\ enabled' = [enabled EXCEPT ![s] = TRUE]
    /\ UNCHANGED <<member, token, req>>

Wants == [scope : Scopes, role : Roles]

Next ==
    \/ \E u \in Users, s \in Scopes : Login(u, s)
    \/ \E u \in Users, s \in Scopes : SwitchContext(u, s)
    \/ \E r \in Requests, u \in Users : Begin(r, u)
    \/ \E r \in Requests, u \in Targets, w \in Wants : LockUser(r, u, w)
    \/ \E r \in Requests : RevokeRows(r)
    \/ \E r \in Requests : InsertRow(r)
    \/ \E r \in Requests, u \in Targets, w \in Wants : CreateMembership(r, u, w)
    \/ \E r \in Requests : \E m \in {n \in member : n.user \in Targets} : RevokeMembership(r, m)
    \/ \E r \in Requests : RollBack(r)
    \/ \E s \in Scopes : Disable(s)
    \/ \E s \in Scopes : ActivateMSP(s)

Spec == Init /\ [][Next]_vars

TypeOK ==
    /\ \A m \in member : m.user \in Users /\ m.scope \in Scopes
                         /\ m.role \in RolesFor(TypeOf[m.scope])
    /\ enabled \in [Scopes -> BOOLEAN]
    /\ token \in [Users -> Scopes \cup {None}]
    /\ \A r \in Requests : req[r].pc \in {"idle", "begun", "locked", "revoked"}

(* The two statements of the policy agree in every reachable state: the Go    *)
(* resolution accepts a scope exactly when the database's row policies do,    *)
(* and calls the user its manager exactly when the database does              *)
(* (authorization_result.go resolveAuthorization and CanManageSelectedScope,  *)
(* schema.go app_scope_is_authorized and app_actor_can_manage_scope).         *)
PolicyTwinsAgree ==
    \A u \in Users, s \in Scopes :
        LET g == Grants(u, s) IN
        /\ (g # {}) <=> DbAuthorized(u, s)
        /\ (g # {} /\ CanManage(s, RolesIn(g))) <=> DbManagesIn(member, u, s)

(* Replacements of one user's memberships never leave two roles in one scope, *)
(* which is what the row lock is for (user_provisioning.go, the comment on    *)
(* the lock).  Only a role added by handleCreateMembership, or by a           *)
(* replacement whose revocation the database did not authorise because the    *)
(* MSP was suspended for that instant, may stand beside it.                   *)
OneRolePerReplacement ==
    \A m, n \in member :
        (m.by = "replaced" /\ n.by = "replaced" /\ m.user = n.user /\ m.scope = n.scope) => m = n

(* A membership is never added on authority that is already gone: whoever     *)
(* adds one manages the scope in the state the INSERT runs in, although the   *)
(* request's own roles were resolved earlier (schema.go, policy tenant_scope  *)
(* on memberships).                                                           *)
StaleAssignment ==
    \E r \in Requests :
        /\ req[r].pc \in {"begun", "revoked"} /\ req'[r].pc = "idle"
        /\ member' \ member # {}
        /\ ~ CanManage(req[r].scope, RolesIn(Grants(req[r].actor, req[r].scope)))

(* Why: the platform is never disabled; a request names who acts and where,   *)
(* and assigns a role its scope may have; two replacements that hold the lock *)
(* are of two users; and what a replacement has revoked is all that earlier   *)
(* replacements left of that user in that scope.                              *)
RequestInv ==
    /\ req = [r \in Requests |-> req[r]]
    /\ enabled[Platform]
    /\ \A r \in Requests :
          /\ req[r].pc # "idle" => req[r].actor \in Users /\ req[r].scope \in Scopes
          /\ req[r].pc \in {"locked", "revoked"} =>
                /\ req[r].target \in Users
                /\ req[r].want.scope \in Scopes
                /\ req[r].want.role \in RolesFor(TypeOf[req[r].want.scope])

ReplacementInv ==
    \A r \in Requests :
        /\ req[r].pc \in {"locked", "revoked"} =>
              \A p \in Requests : req[p].pc \in {"locked", "revoked"} /\ req[p].target = req[r].target => p = r
        /\ req[r].pc = "revoked" /\ req[r].by = "replaced" =>
              \A m \in member :
                  m.user = req[r].target /\ m.scope = req[r].want.scope => m.by # "replaced" \/ m \in req[r].rows

MembershipInv == TypeOK /\ RequestInv /\ ReplacementInv /\ OneRolePerReplacement
=============================================================================
