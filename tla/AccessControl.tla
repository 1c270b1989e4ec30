--------------------------- MODULE AccessControl ---------------------------
(* The life of an API request between its bearer token and its handler.  A    *)
(* token names a subject and a selected scope; the roles it also carries are  *)
(* never believed.  The request is identified (signature, lifetime, the       *)
(* subject's row), then its authority is resolved from the memberships, then  *)
(* the route's class and the provider setup gate are checked, and at last the *)
(* handler asks, in the request's own transaction, whether the target lies in *)
(* the selected scope.  Each is a statement with a snapshot of its own, and   *)
(* revocations, suspensions and key rotations happen in between.              *)
(*                                                                            *)
(* Memberships are only revoked here; module Memberships models how they are  *)
(* assigned.                                                                  *)
EXTENDS Integers

CONSTANTS Users, Agents, Requests,
          Scopes, Platform, \* the hierarchy: Platform is its root
          Parent,           \* scope |-> the scope above it
          TypeOf,           \* scope |-> "platform", "msp", "client" or "site"
          Rows,             \* the memberships there may be at the start: [user, scope, role]
          SiteOf,           \* agent |-> the site of its device
          Lifetime,         \* the clock ticks a token is valid for
          MaxTime, MaxEvents,
          None

VARIABLES member,   \* the active rows of memberships
          enabled,  \* the active scopes
          live,     \* the active users, and the agents approved and not disabled
          support,  \* the active support grants: [user, msp, mode]
          complete, \* the provider setup is complete
          key,      \* the generation of the signing secret
          now,
          token,    \* subject |-> the last token issued to it, or NoToken
          req,      \* request |-> the state of the request
          events    \* how many tokens, ticks and administrative events there were

vars == <<member, enabled, live, support, complete, key, now, token, req, events>>

PlatformAdmins == {"platform_owner", "platform_admin"}
Managers == PlatformAdmins \cup {"msp_owner", "msp_admin"}

(* hasMSPRole and hasPlatformRole, over the roles memberships can hold.       *)
MspRoles == {"msp_owner", "msp_admin", "msp_technician", "msp_viewer", "client_admin", "client_viewer"}
PlatformRoles == PlatformAdmins \cup {"platform_support", "platform_billing", "platform_viewer"}

RoleNames == MspRoles \cup PlatformRoles \cup {"platform_security_auditor", "agent"}

(* What the columns msp_id and client_id say of the hierarchy.                 *)
Hierarchy ==
    /\ Platform \in Scopes
    /\ Parent \in [Scopes -> Scopes]
    /\ TypeOf \in [Scopes -> {"platform", "msp", "client", "site"}]
    /\ \A s \in Scopes :
          /\ TypeOf[s] = "platform" <=> s = Platform
          /\ TypeOf[s] \in {"platform", "msp"} => Parent[s] = Platform
          /\ TypeOf[s] = "client" => TypeOf[Parent[s]] = "msp"
          /\ TypeOf[s] = "site" => TypeOf[Parent[s]] = "client"

(* The selected scope and everything above it.                                *)
Chain[s \in Scopes] == {s, Parent[s], Parent[Parent[s]], Platform}
Above(s, type) == {t \in Chain[s] : TypeOf[t] = type}

(* The hierarchy above the scope, and the scope, are active.                  *)
Active(s) == Chain[s] \ {Platform} \subseteq enabled

Held(u, s) == {m \in member : m.user = u /\ m.scope \in Chain[s]}

Subjects == Users \cup Agents
Classes == {"admin", "setup", "manage", "access", "agent"}
Modes == {"read", "write"}
Grant == [user : Users, msp : Scopes, mode : Modes]
Token ==
    [use : {"user", "agent"}, scope : Scopes, roles : SUBSET RoleNames, issued : Nat, expires : Nat, key : Nat]
NoToken == [use |-> "user", scope |-> Platform, roles |-> {}, issued |-> 0, expires |-> 0, key |-> 0]
Request ==
    [at : {"idle", "arrived", "identified", "admitted", "served", "refused"}, subject : Subjects \cup {None},
     token : Token, class : Classes, target : Scopes, mode : Modes, authentic : {"yes", "no"},
     rows : SUBSET Rows, grants : SUBSET Grant, roles : SUBSET RoleNames]

Idle == [at |-> "idle", subject |-> None, token |-> NoToken, class |-> "access", target |-> Platform,
         mode |-> "read", authentic |-> "no", rows |-> {}, grants |-> {}, roles |-> {}]

Event == events < MaxEvents /\ events' = events + 1

(* issue: encode signs with the current secret.                               *)
GenerateUserToken(s, roles) ==
    [use |-> "user", scope |-> s, roles |-> roles, issued |-> now, expires |-> now + Lifetime, key |-> key]
GenerateAgentToken(a) ==
    [use |-> "agent", scope |-> SiteOf[a], roles |-> {"agent"}, issued |-> now,
     expires |-> now + Lifetime, key |-> key]

Init ==
    /\ member \in SUBSET Rows
    /\ enabled = Scopes \ {Platform}
    /\ live = Subjects
    /\ support = {}
    /\ complete \in BOOLEAN
    /\ key = 0 /\ now = 0 /\ events = 0
    /\ token = [x \in Subjects |-> IF x \in Agents THEN GenerateAgentToken(x) ELSE NoToken]
    /\ req = [r \in Requests |-> Idle]

(* handleLogin: the user row, then loadInitialAuthorizationForLogin; the      *)
(* platform first, then the user's own scopes from the widest down.           *)
Rank(s) == CASE TypeOf[s] = "platform" -> 0 [] TypeOf[s] = "msp" -> 1
             [] TypeOf[s] = "client" -> 2 [] OTHER -> 3
Login(u, s) ==
    LET own == {t \in Scopes : Active(t) /\ \E m \in member : m.user = u /\ m.scope = t} IN
    /\ Event
    /\ u \in live
    /\ s \in own
    /\ \A t \in own : Rank(s) <= Rank(t)
    /\ token' = [token EXCEPT ![u] = GenerateUserToken(s, {m.role : m \in Held(u, s)})]
    /\ UNCHANGED <<member, enabled, live, support, complete, key, now, req>>

(* handleContextSwitch, for a scope the user has authority in.                *)
SwitchContext(u, s) ==
    /\ Event
    /\ u \in live
    /\ token[u] # NoToken
    /\ token[u].expires >= now
    /\ Active(token[u].scope) /\ Held(u, token[u].scope) # {}
    /\ Active(s) /\ Held(u, s) # {}
    /\ token' = [token EXCEPT ![u] = GenerateUserToken(s, {m.role : m \in Held(u, s)})]
    /\ UNCHANGED <<member, enabled, live, support, complete, key, now, req>>

(* verificationKeys: the current secret and the previous one.                 *)
Verifies(t) == t.key \in {key, key - 1}

(* Validate: signature, then lifetime.                                        *)
Valid(t) == Verifies(t) /\ now <= t.expires /\ t.issued <= now /\ t.issued < t.expires

(* The request arrives: classifyRoute gives the class of the route, "setup"   *)
(* being the allowlisted routes of the provider profile.  The last three      *)
(* fields are history: was it authentic when it arrived, and the memberships  *)
(* and support grants its subject held at any time since.                     *)
Arrives(r, x, class, target, mode) ==
    /\ req[r].at = "idle"
    /\ token[x] # NoToken
    /\ class \in {"admin", "setup", "agent"} => target = Platform /\ mode = "read"
    /\ class \in {"manage", "access"} => target # Platform
    /\ class = "manage" => mode = "write"
    /\ req' = [req EXCEPT ![r] =
                 [at |-> "arrived", subject |-> x, token |-> token[x], class |-> class,
                  target |-> target, mode |-> mode,
                  authentic |-> IF x \in live /\ Valid(token[x]) THEN "yes" ELSE "no",
                  rows |-> {m \in member : m.user = x},
                  grants |-> {g \in support : g.user = x}, roles |-> {}]]
    /\ UNCHANGED <<member, enabled, live, support, complete, key, now, token, events>>

Refused == [Idle EXCEPT !.at = "refused"]
Refuse(r) == req' = [req EXCEPT ![r] = Refused]

(* The request goes on, with the roles resolved for it.                       *)
Advanced(q, at, roles) == [q EXCEPT !.at = at, !.roles = roles]
Proceed(r, at, roles) == req' = [req EXCEPT ![r] = Advanced(req[r], at, roles)]

(* validateAndBuildPrincipal, its first statements: Validate, and the row of  *)
(* the subject.  An agent's row is joined with its whole hierarchy, and there *)
(* is no more to resolve for it.  Then the token's use against the route.     *)
Identify(r) ==
    LET q == req[r] IN
    /\ q.at = "arrived"
    /\ IF /\ Valid(q.token)
          /\ q.subject \in live
          /\ q.token.use = "agent" => Active(SiteOf[q.subject])
          /\ (q.class = "agent") <=> (q.token.use = "agent")
       THEN Proceed(r, IF q.class = "agent" THEN "served" ELSE "identified", {})
       ELSE Refuse(r)
    /\ UNCHANGED <<member, enabled, live, support, complete, key, now, token, events>>

(* enforceProviderSetupGate.                                                  *)
SetupGate(q, roles) ==
    \/ roles \cap PlatformAdmins = {}
    \/ q.class = "setup"
    \/ complete

(* withAccessControl after the principal: the gate, then the class.           *)
Admits(q, roles) ==
    /\ SetupGate(q, roles)
    /\ IF q.class \in {"admin", "setup"}
       THEN q.token.scope = Platform /\ roles \cap PlatformAdmins # {}
       ELSE roles \cap (MspRoles \cup PlatformRoles) # {}

(* Faulty: the roles are those the token was issued with.                     *)
ResolveClaims(r) ==
    LET q == req[r]
        roles == q.token.roles IN
    /\ q.at = "identified"
    /\ IF Active(q.token.scope) /\ roles # {} /\ Admits(q, roles)
       THEN Proceed(r, "admitted", roles)
       ELSE Refuse(r)
    /\ UNCHANGED <<member, enabled, live, support, complete, key, now, token, events>>

(* resolveAuthorization in the principal's transaction, and the rest of       *)
(* withAccessControl.  The roles are those of the rows at this moment; the    *)
(* handler finds them in the request's context.                               *)
Resolve(r) ==
    LET q == req[r]
        roles == {m.role : m \in Held(q.subject, q.token.scope)} IN
    /\ q.at = "identified"
    /\ IF Active(q.token.scope) /\ roles # {} /\ Admits(q, roles)
       THEN Proceed(r, "admitted", roles)
       ELSE Refuse(r)
    /\ UNCHANGED <<member, enabled, live, support, complete, key, now, token, events>>

(* canManageMSPAtSelectedScope, authorizeClientManage and authorizeSiteManage. *)
CanManage(s, roles, t) ==
    CASE s = Platform -> roles \cap PlatformAdmins # {}
      [] TypeOf[s] = "msp" -> Above(t, "msp") = {s} /\ roles \cap Managers # {}
      [] TypeOf[s] = "client" -> Above(t, "client") = {s} /\ "client_admin" \in roles
      [] TypeOf[s] = "site" -> t = s /\ "client_admin" \in roles

(* Faulty: a client selection reads its parent.                               *)
CanReadUpward(s, roles, t) ==
    CASE s = Platform -> roles \cap PlatformAdmins # {}
      [] TypeOf[s] = "msp" -> Above(t, "msp") = {s} /\ roles \cap (MspRoles \cup PlatformAdmins) # {}
      [] OTHER -> t \in Chain[s]

(* canReadMSPAtSelectedScope, AuthorizeClientAccess and AuthorizeSiteAccess.  *)
CanRead(s, roles, t) ==
    CASE s = Platform -> roles \cap PlatformAdmins # {}
      [] TypeOf[s] = "msp" -> Above(t, "msp") = {s} /\ roles \cap (MspRoles \cup PlatformAdmins) # {}
      [] TypeOf[s] = "client" -> Above(t, "client") = {s}
      [] TypeOf[s] = "site" -> t = s

(* supportGrantAllows, and the condition under which it is asked.             *)
SupportGrantAllows(q) ==
    /\ TypeOf[q.token.scope] = "msp" /\ Above(q.target, "msp") = {q.token.scope}
    /\ "platform_support" \in q.roles
    /\ \E g \in support : g.user = q.subject /\ g.msp = q.token.scope /\ g.mode \in {q.mode, "write"}

(* UserCanManageProvider: the profile routes read the memberships once more.  *)
UserCanManageProvider(u) ==
    \E m \in member : m.user = u /\ m.scope = Platform /\ m.role \in PlatformAdmins

(* AuthorizeMSPAccess, AuthorizeMSPManage and their like: the target must be  *)
(* active now, the roles are the ones resolved before.                        *)
Authorize(r) ==
    LET q == req[r] IN
    /\ q.at = "admitted"
    /\ IF CASE q.class = "admin" -> TRUE
            [] q.class = "setup" -> UserCanManageProvider(q.subject)
            [] q.class = "manage" -> Active(q.target) /\ CanManage(q.token.scope, q.roles, q.target)
            [] OTHER -> Active(q.target)
                        /\ (CanRead(q.token.scope, q.roles, q.target) \/ SupportGrantAllows(q))
       THEN Proceed(r, "served", q.roles)
       ELSE Refuse(r)
    /\ UNCHANGED <<member, enabled, live, support, complete, key, now, token, events>>

Revoke(m) ==
    /\ Event
    /\ member' = member \ {m}
    /\ UNCHANGED <<enabled, live, support, complete, key, now, token, req>>

(* A user is deactivated, or an agent's device disabled.                      *)
Deactivate(x) ==
    /\ Event
    /\ x \in live
    /\ live' = live \ {x}
    /\ UNCHANGED <<member, enabled, support, complete, key, now, token, req>>

Suspend(s) ==
    /\ Event
    /\ enabled' = enabled \ {s}
    /\ UNCHANGED <<member, live, support, complete, key, now, token, req>>

(* handleCreateSupportGrant: for an MSP that exists.                          *)
CreateSupportGrant(u, msp, mode) ==
    LET g == [user |-> u, msp |-> msp, mode |-> mode] IN
    /\ Event
    /\ support' = support \cup {g}
    /\ req' = [r \in Requests |->
                 IF req[r].at \in {"arrived", "identified", "admitted"} /\ req[r].subject = u
                 THEN [req[r] EXCEPT !.grants = @ \cup {g}] ELSE req[r]]
    /\ UNCHANGED <<member, enabled, live, complete, key, now, token>>

(* handleRevokeSupportGrant, and the grant's own expiry.                      *)
RevokeSupportGrant(g) ==
    /\ Event
    /\ support' = support \ {g}
    /\ UNCHANGED <<member, enabled, live, complete, key, now, token, req>>

CompleteSetup ==
    /\ Event
    /\ ~ complete
    /\ complete' = TRUE
    /\ UNCHANGED <<member, enabled, live, support, key, now, token, req>>

(* The secret is replaced, the old one kept for verification.                 *)
RotateKey ==
    /\ Event
    /\ key' = key + 1
    /\ UNCHANGED <<member, enabled, live, support, complete, now, token, req>>

Tick ==
    /\ Event
    /\ now < MaxTime
    /\ now' = now + 1
    /\ UNCHANGED <<member, enabled, live, support, complete, key, token, req>>

Next ==
    \/ \E u \in Users, s \in Scopes : Login(u, s) \/ SwitchContext(u, s)
    \/ \E r \in Requests :
          \/ \E x \in Subjects, class \in Classes, t \in Scopes, mode \in Modes : Arrives(r, x, class, t, mode)
          \/ Identify(r) \/ Resolve(r) \/ Authorize(r)
    \/ \E m \in member : Revoke(m)
    \/ \E x \in Subjects : Deactivate(x)
    \/ \E s \in enabled : Suspend(s)
    \/ \E u \in Users, s \in Scopes, mode \in Modes : TypeOf[s] = "msp" /\ CreateSupportGrant(u, s, mode)
    \/ \E g \in support : RevokeSupportGrant(g)
    \/ CompleteSetup \/ RotateKey \/ Tick

Spec == Init /\ [][Next]_vars

TypeOK ==
    /\ member \subseteq Rows
    /\ enabled \subseteq Scopes
    /\ live \subseteq Subjects
    /\ support \subseteq Grant
    /\ complete \in BOOLEAN
    /\ events \in 0 .. MaxEvents /\ key \in 0 .. events /\ now \in 0 .. MaxTime
    /\ token \in [Subjects -> Token]
    /\ req \in [Requests -> Request]

Served(r) == req[r].at = "served"

(* No request is served for a subject that was already inactive, or with a    *)
(* token already expired or signed with a retired secret, when the request    *)
(* arrived; and a user's request rests on a membership still held then: what  *)
(* the token says of roles is never enough (handleLogout: "current membership *)
(* is still revalidated on every use of an outstanding JWT").                 *)
AuthorityIsCurrent ==
    \A r \in Requests : Served(r) =>
        /\ req[r].authentic = "yes"
        /\ req[r].class # "agent" => req[r].roles \subseteq {m.role : m \in req[r].rows}

(* What a served request acts on lies in its selected scope, under a          *)
(* membership at or above that scope; it manages only under a managing        *)
(* membership, and platform support only under a grant for that MSP which     *)
(* allows writing when it writes (authorize.go: "A child selection never      *)
(* grants access back to its parent MSP").                                    *)
Over(q) == {m \in q.rows : m.scope \in Chain[q.token.scope]}
FlowsDown(q) ==
    /\ q.token.scope \in Chain[q.target]
    /\ \E m \in Over(q) :
          \/ m.role \in Managers \cup {"client_admin"}
          \/ q.class = "access" /\ m.role \in MspRoles
          \/ /\ q.class = "access" /\ m.role = "platform_support"
             /\ TypeOf[q.token.scope] = "msp"
             /\ \E g \in q.grants : g.msp = q.token.scope /\ g.mode \in {q.mode, "write"}
          \/ q.class = "access" /\ TypeOf[q.token.scope] \in {"client", "site"}

AuthorityFlowsDown ==
    \A r \in Requests : Served(r) /\ req[r].class \in {"manage", "access"} => FlowsDown(req[r])

(* Until the provider setup is complete an administrator of the platform is   *)
(* served nothing but the allowlisted routes, whatever scope is selected.     *)
SetupComesFirst ==
    \A r \in Requests :
        Served(r) /\ req[r].class \in {"admin", "manage", "access"} =>
            complete \/ req[r].roles \cap PlatformAdmins = {}

(* Why they hold: a token that was not authentic when it arrived never        *)
(* becomes so, what the subject may still use is among what it had on         *)
(* arrival, and the roles of an admitted request are those of such rows.      *)
Dead(q) == q.subject \notin live \/ q.token.expires < now \/ q.token.key < key - 1
Issued(t) == t.issued <= now /\ t.issued < t.expires /\ t.key <= key
Admitted(q) ==
    /\ q.class # "agent"
    /\ q.roles # {}
    /\ \A x \in q.roles : \E m \in Over(q) : m.role = x
    /\ q.class # "setup" => complete \/ q.roles \cap PlatformAdmins = {}

RequestInv(q) ==
    /\ q.at \in {"arrived", "identified", "admitted"} =>
          /\ Issued(q.token)
          /\ \A m \in member : m.user = q.subject => m \in q.rows
          /\ \A g \in support : g.user = q.subject => g \in q.grants
    /\ q.at = "arrived" /\ q.authentic = "no" => Dead(q)
    /\ q.at \in {"identified", "admitted", "served"} => q.authentic = "yes"
    /\ q.at = "identified" => q.class # "agent"
    /\ q.at = "admitted" \/ (q.at = "served" /\ q.class # "agent") => Admitted(q)
    /\ q.at = "served" /\ q.class \in {"manage", "access"} => FlowsDown(q)

AccessInv ==
    /\ TypeOK
    /\ \A x \in Subjects : token[x] = NoToken \/ Issued(token[x])
    /\ \A r \in Requests : RequestInv(req[r])
=============================================================================
