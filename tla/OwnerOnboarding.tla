-------------------------- MODULE OwnerOnboarding --------------------------
(* How an MSP gets its owner.  A platform administrator creates the MSP in    *)
(* onboarding_status 'pending_owner' together with an invitation; the         *)
(* invitation mail is sent after that transaction committed, its outcome is   *)
(* recorded by a second one; the administrator may rotate an invitation that  *)
(* never arrived or has expired; the invited person accepts it, which creates *)
(* the account, the owner membership and activates the MSP in one             *)
(* transaction.                                                               *)
(*                                                                            *)
(* Accepting is READ COMMITTED and holds the invitation's row lock from its   *)
(* SELECT ... FOR UPDATE to its commit: it is two actions, and everybody else *)
(* who needs that row waits.  The unique index on users.normalized_email is   *)
(* what it meets at its INSERT.  Creating and rotating run SERIALIZABLE and   *)
(* are one action each.                                                       *)
EXTENDS Naturals, Sequences

CONSTANTS Msps, Emails, Requests,  \* Requests: HTTP calls accepting an invitation
          MaxInvitations,          \* bound on the rows of account_invitations
          None

VARIABLES msp,      \* msp_tenants joined with plan_entitlements
          inv,      \* account_invitations, in the order of their creation
          users,    \* the normalized e-mails that have an account
          owners,   \* msp |-> accounts made msp_owner by an activation
          sending,  \* invitations whose mail is still to be sent or recorded
          req       \* request |-> the invitation whose row it has locked

vars == <<msp, inv, users, owners, sending, req>>

Entitlements == {"none", "suspended", "active", "past_due", "cancelled"}

Msp == [status : {"none", "pending_owner", "active"}, active : BOOLEAN,
        entitlement : Entitlements]

Invitation == [msp : Msps, email : Emails,
               state : {"live", "accepted", "revoked"}, expired : BOOLEAN,
               delivery : {"pending", "delivered", "failed"}]

Ids == DOMAIN inv
LiveOf(m) == {i \in Ids : inv[i].msp = m /\ inv[i].state = "live"}
AcceptedOf(m) == {i \in Ids : inv[i].msp = m /\ inv[i].state = "accepted"}
Locked(i) == \E r \in Requests : req[r] = i

Init ==
    /\ msp = [m \in Msps |-> [status |-> "none", active |-> FALSE, entitlement |-> "none"]]
    /\ inv = << >>
    /\ users = {}
    /\ owners = [m \in Msps |-> {}]
    /\ sending = {}
    /\ req = [r \in Requests |-> None]

(* A fresh random token never collides: an invitation is its position.        *)
NewInvitation(m, e) == [msp |-> m, email |-> e, state |-> "live", expired |-> FALSE,
                        delivery |-> "pending"]

(* createPendingMSP: refused when the address already has an account.         *)
CreatePendingMSP(m, e) ==
    /\ Len(inv) < MaxInvitations
    /\ msp[m].status = "none"
    /\ e \notin users
    /\ msp' = [msp EXCEPT ![m] = [status |-> "pending_owner", active |-> FALSE,
                                  entitlement |-> "suspended"]]
    /\ inv' = Append(inv, NewInvitation(m, e))
    /\ sending' = sending \cup {Len(inv) + 1}
    /\ UNCHANGED <<users, owners, req>>

(* resend: revokes the unconsumed invitation and inserts its successor in the *)
(* same transaction, unless the current one was delivered and still runs.     *)
Resend(i) ==
    LET m == inv[i].msp
        e == inv[i].email IN
    /\ Len(inv) < MaxInvitations
    /\ inv[i].state = "live" /\ ~Locked(i)
    /\ msp[m].status = "pending_owner" /\ ~msp[m].active
    /\ ~(inv[i].delivery = "delivered" /\ ~inv[i].expired)
    /\ e \notin users
    /\ inv' = Append([inv EXCEPT ![i].state = "revoked"], NewInvitation(m, e))
    /\ sending' = sending \cup {Len(inv) + 1}
    /\ UNCHANGED <<msp, users, owners, req>>

(* deliver, after the commit: send the mail, then record the outcome on an    *)
(* invitation that is still unconsumed.  The UPDATE waits for an acceptance   *)
(* that holds the row.  "failed" also stands for 'unconfigured', which nothing *)
(* tells apart.                                                               *)
Deliver(i, outcome) ==
    /\ i \in sending /\ ~Locked(i)
    /\ sending' = sending \ {i}
    /\ inv' = IF inv[i].state = "live" THEN [inv EXCEPT ![i].delivery = outcome] ELSE inv
    /\ UNCHANGED <<msp, users, owners, req>>

(* The process stops, or the recording transaction fails, after the mail may  *)
(* have left: the row keeps 'pending'.                                        *)
DeliveryUnrecorded(i) ==
    /\ i \in sending
    /\ sending' = sending \ {i}
    /\ UNCHANGED <<msp, inv, users, owners, req>>

Expire(i) ==
    /\ inv[i].state = "live" /\ ~inv[i].expired
    /\ inv' = [inv EXCEPT ![i].expired = TRUE]
    /\ UNCHANGED <<msp, users, owners, sending, req>>

(* accept, first half: SELECT ... FOR UPDATE OF invitation and the checks     *)
(* that follow it.                                                            *)
AcceptLocks(r, i) ==
    LET m == inv[i].msp IN
    /\ req[r] = None /\ ~Locked(i)
    /\ inv[i].state = "live" /\ ~inv[i].expired
    /\ msp[m].status = "pending_owner" /\ ~msp[m].active /\ msp[m].entitlement = "suspended"
    /\ inv[i].email \notin users
    /\ req' = [req EXCEPT ![r] = i]
    /\ UNCHANGED <<msp, inv, users, owners, sending>>

Activates(r) ==
    LET i == req[r]
        m == inv[i].msp IN
    /\ users' = users \cup {inv[i].email}
    /\ owners' = [owners EXCEPT ![m] = @ \cup {inv[i].email}]
    /\ msp' = [msp EXCEPT ![m] = [status |-> "active", active |-> TRUE, entitlement |-> "active"]]
    /\ inv' = [inv EXCEPT ![i].state = "accepted"]
    /\ req' = [req EXCEPT ![r] = None]
    /\ UNCHANGED sending

(* Faulty: the INSERT INTO users does not meet the unique index.              *)
AcceptCommitsTwice(r) ==
    /\ req[r] # None
    /\ LET m == inv[req[r]].msp IN
       /\ owners[m] = {}
       /\ msp[m].status = "pending_owner" /\ ~msp[m].active
       /\ msp[m].entitlement = "suspended"
    /\ Activates(r)

(* accept, second half: every write checks that it still finds what the first *)
(* half saw (unique e-mail, no owner yet, the guarded UPDATEs), and one       *)
(* failure rolls all of them back.                                            *)
AcceptCommits(r) ==
    /\ req[r] # None
    /\ inv[req[r]].email \notin users
    /\ LET m == inv[req[r]].msp IN
       /\ owners[m] = {}
       /\ msp[m].status = "pending_owner" /\ ~msp[m].active
       /\ msp[m].entitlement = "suspended"
    /\ Activates(r)

AcceptRollsBack(r) ==
    /\ req[r] # None
    /\ req' = [req EXCEPT ![r] = None]
    /\ UNCHANGED <<msp, inv, users, owners, sending>>

(* handleAdminCreateUser, seen from here: an account with that address.       *)
AdminCreateUser(e) ==
    /\ e \notin users
    /\ users' = users \cup {e}
    /\ UNCHANGED <<msp, inv, owners, sending, req>>

SuspendMSP(m) ==
    /\ msp[m].status # "none"
    /\ msp' = [msp EXCEPT ![m].active = FALSE]
    /\ UNCHANGED <<inv, users, owners, sending, req>>

(* handleActivateMSP: only an MSP whose owner has completed activation.       *)
ActivateMSP(m) ==
    /\ msp[m].status = "active"
    /\ msp' = [msp EXCEPT ![m].active = TRUE]
    /\ UNCHANGED <<inv, users, owners, sending, req>>

UpdateEntitlement(m, s) ==
    /\ msp[m].entitlement # "none"
    /\ msp' = [msp EXCEPT ![m].entitlement = s]
    /\ UNCHANGED <<inv, users, owners, sending, req>>

Next ==
    \/ \E m \in Msps, e \in Emails : CreatePendingMSP(m, e)
    \/ \E i \in Ids : Resend(i)
    \/ \E i \in Ids : \E o \in {"delivered", "failed"} : Deliver(i, o)
    \/ \E i \in Ids : DeliveryUnrecorded(i)
    \/ \E i \in Ids : Expire(i)
    \/ \E r \in Requests, i \in Ids : AcceptLocks(r, i)
    \/ \E r \in Requests : AcceptCommits(r)
    \/ \E r \in Requests : AcceptRollsBack(r)
    \/ \E e \in Emails : AdminCreateUser(e)
    \/ \E m \in Msps : SuspendMSP(m)
    \/ \E m \in Msps : ActivateMSP(m)
    \/ \E m \in Msps, s \in {"active", "suspended"} : UpdateEntitlement(m, s)

Spec == Init /\ [][Next]_vars

TypeOK ==
    /\ msp \in [Msps -> Msp]
    /\ inv \in Seq(Invitation)
    /\ users \subseteq Emails
    /\ owners \in [Msps -> SUBSET Emails]
    /\ sending \subseteq Ids
    /\ req \in [Requests -> Ids \cup {None}]

(* An MSP is active only through its owner: it has consumed exactly one       *)
(* invitation, the account of that address is its one owner, and no account   *)
(* was made owner twice, however acceptances, rotations, suspensions and the  *)
(* administrator's user creation interleave (owner_invitations.go accept,     *)
(* tenant_handlers.go handleActivateMSP).  A pending MSP can always still be  *)
(* activated or rotated: it has exactly one unconsumed invitation.            *)
OneOwnerEach ==
    /\ \A m \in Msps :
          /\ msp[m].active => msp[m].status = "active"
          /\ msp[m].status = "active" =>
                \E i \in Ids : AcceptedOf(m) = {i} /\ LiveOf(m) = {} /\ owners[m] = {inv[i].email}
          /\ msp[m].status = "pending_owner" =>
                (\E i \in Ids : LiveOf(m) = {i}) /\ owners[m] = {}
    /\ \A m, n \in Msps : m # n => owners[m] \cap owners[n] = {}
    /\ UNION {owners[m] : m \in Msps} \subseteq users

(* Why it holds: an invitation that a request has locked is unconsumed and    *)
(* locked by that request alone; and a provider has no invitation before it   *)
(* is created, one that counts while it waits for its owner, and afterwards   *)
(* none but the one its owner consumed.                                       *)
PerMsp(m) ==
    /\ msp[m].active => msp[m].status = "active"
    /\ msp[m].status = "none" => owners[m] = {} /\ \A i \in Ids : inv[i].msp # m
    /\ msp[m].status = "pending_owner" =>
          /\ owners[m] = {}
          /\ \E i \in Ids :
                /\ inv[i].msp = m /\ inv[i].state = "live"
                /\ \A j \in Ids : inv[j].msp = m /\ inv[j].state # "revoked" => j = i
    /\ msp[m].status = "active" =>
          \E i \in Ids :
             /\ inv[i].msp = m /\ inv[i].state = "accepted" /\ owners[m] = {inv[i].email}
             /\ \A j \in Ids : inv[j].msp = m /\ inv[j].state # "revoked" => j = i
    /\ owners[m] \subseteq users

OwnerInv ==
    /\ TypeOK
    /\ \A r \in Requests : req[r] # None => inv[req[r]].state = "live"
    /\ \A r, s \in Requests : req[r] # None /\ req[r] = req[s] => r = s
    /\ \A m \in Msps : PerMsp(m)
    /\ \A m, n \in Msps : m # n => owners[m] \cap owners[n] = {}
=============================================================================
