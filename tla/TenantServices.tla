--------------------------- MODULE TenantServices ---------------------------
(***************************************************************************)
(* What a managed-service provider sells and keeps beside its fleet: the   *)
(* custom domains of its portal (control_plane_handlers.go), its billing   *)
(* account, subscriptions, usage and payment methods (billing_handlers.go) *)
(* and the support requests of its clients (client_support.go).            *)
(*                                                                         *)
(* A request is one READ COMMITTED transaction that is rolled back when    *)
(* the answer is an error.  A handler made of one statement is one step;   *)
(* a handler that reads, waits (for a DNS answer, for a row lock) and then *)
(* writes is a request with a step for each, because others commit in      *)
(* between.                                                                *)
(***************************************************************************)
EXTENDS Naturals

CONSTANTS
  Requests,      \* the transactions that take more than one step
  Hostnames,     \* hostnames a provider may register
  Methods,       \* payment methods, each identified by its row
  Tickets,       \* support requests
  Replies,       \* what a technician may answer
  MaxDomains,    \* bound on the rows of custom_domains ever inserted
  MaxOps,        \* bound on single-statement requests and on cancellations
  None

VARIABLES
  domain,        \* custom_domains: id -> row, or None
  audit,         \* control_plane_audit: set of <<action, domain id>>
  account,       \* billing_accounts: the billing cycle, or None
  subscription,  \* the status of the latest subscription, or None
  usage,         \* number of usage_records
  method,        \* payment_methods: "absent", "plain" or "default"
  ticket,        \* client_support_requests: [status, reply]
  req,           \* the multi-step requests in flight
  ops,           \* single-statement requests so far
  overtaken      \* a method was added while a request was clearing defaults

vars == <<domain, audit, account, subscription, usage, method, ticket, req,
          ops, overtaken>>

billing == <<account, subscription, usage>>

DomainIds == 1 .. MaxDomains
Cycles == {"monthly", "annual"}

Idle == [at |-> "idle", id |-> None, saw |-> {}]

DomainRow == [host : Hostnames,
              verification : {"pending", "verified", "active", "failed"},
              certificate : {"none", "requested", "issued", "failed",
                             "expired"}]

TicketRow == [status : {"none", "open", "in_progress", "closed"},
              reply : Replies \cup {None}]

Request == [at : {"idle", "lookup", "clear", "set", "remove", "cancel", "done"},
            id : DomainIds \cup Methods \cup {None}, saw : SUBSET Methods]

(* Rows as the tables hold them. *)
TypeOK ==
  /\ domain \in [DomainIds -> DomainRow \cup {None}]
  /\ audit \subseteq {"created", "verified", "deleted", "certificate"}
                       \X DomainIds
  /\ account \in Cycles \cup {None}
  /\ subscription \in {"active", "cancelled", None}
  /\ usage \in 0 .. MaxOps
  /\ method \in [Methods -> {"absent", "plain", "default"}]
  /\ ticket \in [Tickets -> TicketRow]
  /\ req \in [Requests -> Request]
  /\ ops \in 0 .. MaxOps
  /\ overtaken \in BOOLEAN

Init ==
  /\ domain = [i \in DomainIds |-> None]
  /\ audit = {}
  /\ account = None
  /\ subscription = None
  /\ usage = 0
  /\ method = [p \in Methods |-> "absent"]
  /\ ticket = [q \in Tickets |-> [status |-> "none", reply |-> None]]
  /\ req = [r \in Requests |-> Idle]
  /\ ops = 0
  /\ overtaken = FALSE

Op == ops < MaxOps /\ ops' = ops + 1

Goes(r, from, to) ==
  /\ req[r].at = from
  /\ req' = [req EXCEPT ![r].at = to]

-----------------------------------------------------------------------------
(* Custom domains.  Every accepted change writes its audit row in the same *)
(* transaction; a failing audit insert answers 500 and undoes the change.  *)

Records(action, i) == audit' = audit \cup {<<action, i>>}

Used == {i \in DomainIds : <<"created", i>> \in audit}

handleCreateDomain(h) ==
  /\ Op
  /\ \A i \in DomainIds : domain[i] # None => domain[i].host # h
  /\ \E i \in DomainIds \ Used :
       /\ \A j \in DomainIds \ Used : i <= j
       /\ domain' = [domain EXCEPT ![i] = [host |-> h,
                                           verification |-> "pending",
                                           certificate |-> "none"]]
       /\ Records("created", i)
  /\ UNCHANGED <<billing, method, ticket, req, overtaken>>

Unverified(i) ==
  domain[i] # None /\ domain[i].verification \in {"pending", "failed"}

(* The row is read first; the answer of the resolver takes up to five     *)
(* seconds.                                                               *)
VerifyLoads(r, i) ==
  /\ req[r].at = "idle"
  /\ Unverified(i)
  /\ req' = [req EXCEPT ![r] = [at |-> "lookup", id |-> i, saw |-> {}]]
  /\ UNCHANGED <<domain, audit, billing, method, ticket, ops, overtaken>>

FailureStored(i) ==
  domain' = IF domain[i] = None THEN domain
            ELSE [domain EXCEPT ![i].verification = "failed"]

(* No matching TXT record: the handler writes 'failed' without a guard and *)
(* answers 422, which rolls that very write back.                          *)
FailureKept(i) == UNCHANGED domain

VerifyFails(r) ==
  /\ Goes(r, "lookup", "done")
  /\ FailureKept(req[r].id)
  /\ UNCHANGED <<audit, billing, method, ticket, ops, overtaken>>

(* The record matches: the guarded UPDATE looks at the row again. *)
VerifySucceeds(r) ==
  /\ Goes(r, "lookup", "done")
  /\ LET i == req[r].id IN
       \/ /\ Unverified(i)
          /\ domain' = [domain EXCEPT ![i].verification = "verified",
                                      ![i].certificate = "requested"]
          /\ Records("verified", i)
       \/ /\ ~ Unverified(i)
          /\ UNCHANGED <<domain, audit>>
  /\ UNCHANGED <<billing, method, ticket, ops, overtaken>>

handleDeleteDomain(i) ==
  /\ Op
  /\ domain[i] # None
  /\ domain' = [domain EXCEPT ![i] = None]
  /\ Records("deleted", i)
  /\ UNCHANGED <<billing, method, ticket, req, overtaken>>

handleUpdateDomainCertificate(i, status) ==
  /\ Op
  /\ domain[i] # None
  /\ domain[i].verification \in {"verified", "active"}
  /\ domain' = [domain EXCEPT
       ![i].certificate = status,
       ![i].verification = IF status = "issued" THEN "active" ELSE @]
  /\ Records("certificate", i)
  /\ UNCHANGED <<billing, method, ticket, req, overtaken>>

(* The audit insert of a domain change fails: 500, nothing is kept. *)
auditControlPlaneFails(r) ==
  /\ Goes(r, "lookup", "done")
  /\ Unverified(req[r].id)
  /\ UNCHANGED <<domain, audit, billing, method, ticket, ops, overtaken>>

-----------------------------------------------------------------------------
(* Billing. *)

handleCreateBillingAccount(cycle) ==
  /\ Op
  /\ account' = cycle
  /\ UNCHANGED <<domain, audit, subscription, usage, method, ticket, req,
                 overtaken>>

handleDeleteBillingAccount ==
  /\ Op
  /\ account' = None
  /\ UNCHANGED <<domain, audit, subscription, usage, method, ticket, req,
                 overtaken>>

handleCreateSubscription ==
  /\ Op
  /\ subscription' = "active"
  /\ UNCHANGED <<domain, audit, account, usage, method, ticket, req,
                 overtaken>>

(* The period end is read first, then the status is set whatever it is. *)
CancelLoads(r) ==
  /\ subscription # None
  /\ Goes(r, "idle", "cancel")
  /\ UNCHANGED <<domain, audit, billing, method, ticket, ops, overtaken>>

CancelCommits(r) ==
  /\ Goes(r, "cancel", "done")
  /\ subscription' = "cancelled"
  /\ UNCHANGED <<domain, audit, account, usage, method, ticket, ops,
                 overtaken>>

(* A usage record is inserted once per call: external_id is not unique. *)
handleSubmitUsage ==
  /\ Op
  /\ usage' = usage + 1
  /\ UNCHANGED <<domain, audit, account, subscription, method, ticket, req,
                 overtaken>>

Present == {p \in Methods : method[p] # "absent"}

handleAddPaymentMethod(p) ==
  /\ method[p] = "absent"
  /\ \A r \in Requests : req[r].id # p
  /\ method' = [method EXCEPT ![p] = "plain"]
  /\ overtaken' = (overtaken \/ \E r \in Requests : req[r].at \in {"clear",
                                                                  "set"})
  /\ UNCHANGED <<domain, audit, billing, ticket, req, ops>>

DefaultOnly == {p \in Methods : method[p] = "default"}

(* The rows the first UPDATE of handleSetDefaultPaymentMethod touches: all *)
(* those of the provider that its snapshot shows.                          *)
Cleared == Present

SetDefaultBegins(r, p) ==
  /\ req[r].at = "idle"
  /\ p \in Present
  /\ req' = [req EXCEPT ![r] = [at |-> "clear", id |-> p, saw |-> Cleared]]
  /\ UNCHANGED <<domain, audit, billing, method, ticket, ops, overtaken>>

(* Rows another transaction has updated and not yet committed. *)
Locked(r) ==
  UNION {req[s].saw : s \in {t \in Requests \ {r} : req[t].at = "set"}}

(* It waits for the transactions that hold one of them. *)
Free(r, rows) == rows \cap Locked(r) = {}

SetDefaultClears(r) ==
  /\ Free(r, req[r].saw)
  /\ Goes(r, "clear", "set")
  /\ UNCHANGED <<domain, audit, billing, method, ticket, ops, overtaken>>

(* The second UPDATE and the commit publish both.  A row deleted meanwhile *)
(* is not brought back.                                                    *)
SetDefaultCommits(r) ==
  /\ Goes(r, "set", "done")
  /\ method' = [p \in Methods |->
       IF method[p] = "absent" THEN "absent"
       ELSE IF p = req[r].id THEN "default"
       ELSE IF p \in req[r].saw THEN "plain" ELSE method[p]]
  /\ UNCHANGED <<domain, audit, billing, ticket, ops, overtaken>>

(* The handler refuses to delete the default it reads... *)
DeleteMethodLoads(r, p) ==
  /\ req[r].at = "idle"
  /\ method[p] = "plain"
  /\ req' = [req EXCEPT ![r] = [at |-> "remove", id |-> p, saw |-> {}]]
  /\ UNCHANGED <<domain, audit, billing, method, ticket, ops, overtaken>>

(* ...and deletes the row by its id, default by then or not. *)
DeleteMethodCommits(r) ==
  /\ Free(r, {req[r].id})
  /\ Goes(r, "remove", "done")
  /\ method' = [method EXCEPT ![req[r].id] = "absent"]
  /\ UNCHANGED <<domain, audit, billing, ticket, ops, overtaken>>

(* A lost connection or a cancelled request: the transaction is undone. *)
Abort(r) ==
  /\ req[r].at \in {"lookup", "clear", "set", "remove", "cancel"}
  /\ req' = [req EXCEPT ![r].at = "done"]
  /\ UNCHANGED <<domain, audit, billing, method, ticket, ops, overtaken>>

-----------------------------------------------------------------------------
(* Support requests of a client. *)

(* device_id is a UUID column, so only a request that names a device is    *)
(* stored; one without answers 500.                                        *)
handleCreateClientSupportRequest(q) ==
  /\ ticket[q].status = "none"
  /\ ticket' = [ticket EXCEPT ![q].status = "open"]
  /\ UNCHANGED <<domain, audit, billing, method, req, ops, overtaken>>

Replyable(q) == ticket[q].status = "open"

(* A request that is no longer open keeps its reply, though the technician *)
(* is answered "in_progress" just the same.                                *)
handleReplyToClientSupportRequest(q, text) ==
  /\ Op
  /\ Replyable(q)
  /\ ticket' = [ticket EXCEPT ![q] = [status |-> "in_progress",
                                      reply |-> text]]
  /\ UNCHANGED <<domain, audit, billing, method, req, overtaken>>

handleCloseClientSupportRequest(q) ==
  /\ Op
  /\ ticket[q].status \in {"open", "in_progress"}
  /\ ticket' = [ticket EXCEPT ![q].status = "closed"]
  /\ UNCHANGED <<domain, audit, billing, method, req, overtaken>>

-----------------------------------------------------------------------------
Next ==
  \/ \E h \in Hostnames : handleCreateDomain(h)
  \/ \E r \in Requests, i \in DomainIds : VerifyLoads(r, i)
  \/ \E r \in Requests :
       \/ VerifyFails(r)
       \/ VerifySucceeds(r)
       \/ auditControlPlaneFails(r)
       \/ CancelLoads(r)
       \/ CancelCommits(r)
       \/ SetDefaultClears(r)
       \/ SetDefaultCommits(r)
       \/ DeleteMethodCommits(r)
       \/ Abort(r)
  \/ \E i \in DomainIds : handleDeleteDomain(i)
  \/ \E i \in DomainIds, s \in {"issued", "failed", "expired"} :
       handleUpdateDomainCertificate(i, s)
  \/ \E c \in Cycles : handleCreateBillingAccount(c)
  \/ handleDeleteBillingAccount
  \/ handleCreateSubscription
  \/ handleSubmitUsage
  \/ \E p \in Methods : handleAddPaymentMethod(p)
  \/ \E r \in Requests, p \in Methods :
       SetDefaultBegins(r, p) \/ DeleteMethodLoads(r, p)
  \/ \E q \in Tickets :
       \/ handleCreateClientSupportRequest(q)
       \/ handleCloseClientSupportRequest(q)
       \/ \E text \in Replies : handleReplyToClientSupportRequest(q, text)

Spec == Init /\ [][Next]_vars

-----------------------------------------------------------------------------
(* Setting a default clears the provider's other rows first, and the row  *)
(* locks of the two UPDATE statements serialise concurrent requests        *)
(* (billing_handlers.go:582-594): a provider has at most one default       *)
(* method.  The one exception is a method added while a request is between *)
(* its snapshot and its commit, which that request cannot clear.           *)
OneDefaultMethod ==
  ~ overtaken => \A p, q \in Methods : method[p] = "default" /\ method[q] = "default" => p = q

Proven(i) ==
  domain[i] # None /\ domain[i].verification \in {"verified", "active"}

(* A domain whose ownership was proven stays proven until it is deleted,   *)
(* however late the answer of an older verification comes in               *)
(* (control_plane_handlers.go:80-98), and a reply given to a client is     *)
(* never replaced nor its request reopened (client_support.go:267-271).    *)
ProofUndone ==
  \/ \E i \in DomainIds :
       Proven(i) /\ domain'[i] # None /\ ~ Proven(i)'
  \/ \E q \in Tickets :
       \/ ticket[q].reply # None /\ ticket'[q].reply # ticket[q].reply
       \/ ticket[q].status = "closed" /\ ticket'[q] # ticket[q]

(* No domain is in use without its audit trail: the row, its verification  *)
(* and its certificate are each backed by a control_plane_audit entry      *)
(* written in the transaction that made them (control_plane_handlers.go).  *)
DomainsAreAudited ==
  \A i \in DomainIds :
    /\ domain[i] # None => <<"created", i>> \in audit
    /\ Proven(i) => <<"verified", i>> \in audit
    /\ <<"deleted", i>> \in audit => domain[i] = None

(* Why they hold: a request that looks a domain up, or clears or removes a  *)
(* method, names one; until a method overtakes it, a request that clears    *)
(* has seen every method there is; an id is not used twice; and a reply     *)
(* closes a request to others.                                              *)
RequestInv ==
  /\ usage <= ops
  /\ \A r \in Requests :
       /\ req[r].at = "lookup" => req[r].id \in DomainIds
       /\ req[r].at \in {"clear", "set", "remove"} => req[r].id \in Methods

MethodInv ==
  overtaken = FALSE =>
    /\ \A p, q \in Methods :
         method[p] = "default" /\ method[q] = "default" => p = q
    /\ \A r \in Requests, p \in Methods :
         req[r].at \in {"clear", "set"} /\ method[p] # "absent"
           => p \in req[r].saw

DomainInv ==
  /\ DomainsAreAudited
  /\ \A i \in DomainIds : <<"deleted", i>> \in audit => i \in Used

TicketInv ==
  \A q \in Tickets :
    ticket[q].reply # None => ticket[q].status \in {"in_progress", "closed"}

ServicesInv == TypeOK /\ RequestInv /\ MethodInv /\ DomainInv /\ TicketInv
=============================================================================
