------------------------- MODULE TenantOffboarding -------------------------
(* The enrollment of agents into an MSP and the MSP's offboarding, which race *)
(* on the same rows.  An agent registers in one transaction that consumes a   *)
(* use of an enrollment token, checks the device quota and inserts the device *)
(* with an approved registration.  Offboarding is one transaction of ordered  *)
(* UPDATEs; each sees what is committed when it starts, none of its effects   *)
(* is visible before its commit, and each waits for the rows it needs.        *)
(* Heartbeats of enrolled devices arrive throughout, as two autocommitted     *)
(* statements.                                                                *)
EXTENDS Naturals, FiniteSets

CONSTANTS Agents, Tokens,
          MaxUses,     \* max_uses of every token
          MaxDevices,  \* the plan's device quota
          Periods,     \* the retention periods an offboarding may ask for
          MaxTime,     \* bound on the clock
          None

VARIABLES active,       \* msp_tenants.is_active
          entitlement,  \* plan_entitlements.status
          tokens,       \* enrollment_tokens_v2
          device,       \* agent |-> its device and registration, or None
          reg,          \* agent |-> its registration transaction
          beat,         \* the agents whose heartbeat has resolved its device
          off,          \* the offboarding transaction
          record,       \* msp_offboarding
          promised,     \* the latest retention end ever reported to an operator
          now

vars == <<active, entitlement, tokens, device, reg, beat, off, record, promised, now>>

Idle == [pc |-> "idle"]
NoRecord == [state |-> "none", until |-> 0]

Init ==
    /\ active = TRUE
    /\ entitlement = "active"
    /\ tokens = [t \in Tokens |-> [state |-> "none", uses |-> 0, swept |-> FALSE]]
    /\ device = [a \in Agents |-> None]
    /\ reg = [a \in Agents |-> Idle]
    /\ beat = {}
    /\ off = Idle
    /\ record = NoRecord
    /\ promised = 0
    /\ now = 0

Devices == {a \in Agents : device[a] # None}
HeldBy(t) == {a \in Agents : reg[a].pc # "idle" /\ reg[a].token = t}
Swept(t) == off.pc # "idle" /\ t \in off.tokens

Later(m, n) == IF m < n THEN n ELSE m

tenant == <<active, entitlement>>
offboarding == <<off, record, promised>>

(* handleCreateEnrollmentToken; authorizeClientManage needs the MSP active.   *)
CreateToken(t) ==
    /\ active
    /\ tokens[t].state = "none"
    /\ tokens' = [tokens EXCEPT ![t].state = "live"]
    /\ UNCHANGED <<tenant, device, reg, beat, offboarding, now>>

(* handleRevokeEnrollmentToken: the UPDATE waits for whoever holds the row.   *)
RevokeToken(t) ==
    /\ active
    /\ tokens[t].state = "live" /\ HeldBy(t) = {} /\ ~Swept(t)
    /\ tokens' = [tokens EXCEPT ![t].state = "revoked"]
    /\ UNCHANGED <<tenant, device, reg, beat, offboarding, now>>

TokenExpires(t) ==
    /\ tokens[t].state = "live"
    /\ tokens' = [tokens EXCEPT ![t].state = "expired"]
    /\ UNCHANGED <<tenant, device, reg, beat, offboarding, now>>

(* handleAgentRegister, its UPDATE of the token: takes a use and the row lock. *)
UseToken(a, t) ==
    /\ reg[a].pc = "idle" /\ device[a] = None
    /\ active
    /\ tokens[t].state = "live" /\ tokens[t].uses < MaxUses
    /\ HeldBy(t) = {} /\ ~Swept(t)
    /\ reg' = [reg EXCEPT ![a] = [pc |-> "used", token |-> t]]
    /\ UNCHANGED <<tenant, tokens, device, beat, offboarding, now>>

(* The quota is read without a lock.                                          *)
CheckQuota(a) ==
    /\ reg[a].pc = "used"
    /\ entitlement = "active" /\ Cardinality(Devices) < MaxDevices
    /\ reg' = [reg EXCEPT ![a].pc = "counted"]
    /\ UNCHANGED <<tenant, tokens, device, beat, offboarding, now>>

Register(a) ==
    /\ reg[a].pc = "counted"
    /\ device' = [device EXCEPT ![a] = [token |-> reg[a].token, approved |-> TRUE, status |-> "online"]]
    /\ tokens' = [tokens EXCEPT ![reg[a].token].uses = @ + 1]
    /\ reg' = [reg EXCEPT ![a] = Idle]
    /\ UNCHANGED <<tenant, beat, offboarding, now>>

(* Faulty: the use of the token is committed although the registration fails. *)
RegisterKeepsUse(a) ==
    /\ reg[a].pc # "idle"
    /\ tokens' = [tokens EXCEPT ![reg[a].token].uses = @ + 1]
    /\ reg' = [reg EXCEPT ![a] = Idle]
    /\ UNCHANGED <<tenant, device, beat, offboarding, now>>

(* Refused, or any statement fails: the deferred Rollback returns the use.    *)
RegisterRollsBack(a) ==
    /\ reg[a].pc # "idle"
    /\ reg' = [reg EXCEPT ![a] = Idle]
    /\ UNCHANGED <<tenant, tokens, device, beat, offboarding, now>>

(* handleAgentHeartbeatJS: resolveDeviceID refuses a disabled device ...      *)
ResolveDevice(a) ==
    /\ device[a] # None /\ a \notin beat
    /\ device[a].status # "disabled"
    /\ beat' = beat \cup {a}
    /\ UNCHANGED <<tenant, tokens, device, reg, offboarding, now>>

(* ... and the UPDATE that follows does not look at the status again; it waits *)
(* for an offboarding that has the row.                                       *)
RecordHeartbeat(a) ==
    /\ a \in beat
    /\ ~(off.pc = "devices" /\ a \in off.devices)
    /\ device' = [device EXCEPT ![a].status = "online"]
    /\ beat' = beat \ {a}
    /\ UNCHANGED <<tenant, tokens, reg, offboarding, now>>

HeartbeatFails(a) ==
    /\ a \in beat
    /\ beat' = beat \ {a}
    /\ UNCHANGED <<tenant, tokens, device, reg, offboarding, now>>

(* handleSuspendMSP, handleActivateMSP and handleUpdateEntitlement wait for   *)
(* the MSP's rows, which offboarding writes first.                            *)
SetActive(v) ==
    /\ off.pc = "idle"
    /\ active' = v
    /\ UNCHANGED <<entitlement, tokens, device, reg, beat, offboarding, now>>

UpdateEntitlement(v) ==
    /\ off.pc = "idle"
    /\ entitlement' = v
    /\ UNCHANGED <<active, tokens, device, reg, beat, offboarding, now>>

(* Faulty: a later request shortens the retention of an earlier one.          *)
BeginOffboardingShorter(days) ==
    /\ off.pc = "idle"
    /\ record.state # "deletion_approved"
    /\ off' = [pc |-> "begun", until |-> now + days, tokens |-> {}, approved |-> {}, devices |-> {}]
    /\ UNCHANGED <<tenant, tokens, device, reg, beat, record, promised, now>>

(* handleOffboardMSP: the upsert, which locks the record, keeps the later of  *)
(* the two retention ends and is refused once deletion is approved; then the  *)
(* MSP, entitlement, membership and support grant rows.                       *)
BeginOffboarding(days) ==
    /\ off.pc = "idle"
    /\ record.state # "deletion_approved"
    /\ off' = [pc |-> "begun", until |-> Later(record.until, now + days), tokens |-> {},
               approved |-> {}, devices |-> {}]
    /\ UNCHANGED <<tenant, tokens, device, reg, beat, record, promised, now>>

(* Faulty: tokens are revoked without waiting for a registration that holds   *)
(* one.                                                                       *)
SweepTokensNow ==
    /\ off.pc = "begun"
    /\ off' = [off EXCEPT !.pc = "tokens",
                          !.tokens = {t \in Tokens : tokens[t].state \in {"live", "expired"}}]
    /\ UNCHANGED <<tenant, tokens, device, reg, beat, record, promised, now>>

(* UPDATE enrollment_tokens_v2: waits for every registration in flight, so    *)
(* what they insert is committed when the next two statements run.            *)
SweepTokens ==
    /\ off.pc = "begun"
    /\ \A a \in Agents : reg[a].pc = "idle"
    /\ off' = [off EXCEPT !.pc = "tokens",
                          !.tokens = {t \in Tokens : tokens[t].state \in {"live", "expired"}}]
    /\ UNCHANGED <<tenant, tokens, device, reg, beat, record, promised, now>>

(* UPDATE agent_registrations.                                                *)
SweepRegistrations ==
    /\ off.pc = "tokens"
    /\ off' = [off EXCEPT !.pc = "registrations",
                          !.approved = {a \in Devices : device[a].approved}]
    /\ UNCHANGED <<tenant, tokens, device, reg, beat, record, promised, now>>

(* UPDATE devices.                                                            *)
SweepDevices ==
    /\ off.pc = "registrations"
    /\ off' = [off EXCEPT !.pc = "devices",
                          !.devices = {a \in Devices : device[a].status # "disabled"}]
    /\ UNCHANGED <<tenant, tokens, device, reg, beat, record, promised, now>>

(* The domains, the record's state, the audit row and the commit.             *)
CommitOffboarding ==
    /\ off.pc = "devices"
    /\ active' = FALSE
    /\ entitlement' = "cancelled"
    /\ tokens' = [t \in Tokens |-> IF t \in off.tokens
                                   THEN [tokens[t] EXCEPT !.state = "revoked", !.swept = TRUE]
                                   ELSE tokens[t]]
    /\ device' = [a \in Agents |->
                    IF a \notin Devices THEN None
                    ELSE [device[a] EXCEPT !.approved = @ /\ a \notin off.approved,
                                           !.status = IF a \in off.devices THEN "disabled" ELSE @]]
    /\ record' = [state |-> "access_revoked", until |-> off.until]
    /\ promised' = Later(promised, off.until)
    /\ off' = Idle
    /\ UNCHANGED <<reg, beat, now>>

OffboardingRollsBack ==
    /\ off.pc # "idle"
    /\ off' = Idle
    /\ UNCHANGED <<tenant, tokens, device, reg, beat, record, promised, now>>

(* handleApproveMSPDeletion: one guarded UPDATE, which waits for the record.  *)
ApproveDeletion ==
    /\ off.pc = "idle"
    /\ record.state = "access_revoked" /\ record.until <= now
    /\ record' = [record EXCEPT !.state = "deletion_approved"]
    /\ UNCHANGED <<tenant, tokens, device, reg, beat, off, promised, now>>

Tick ==
    /\ now < MaxTime
    /\ now' = now + 1
    /\ UNCHANGED <<tenant, tokens, device, reg, beat, offboarding>>

Next ==
    \/ \E t \in Tokens : CreateToken(t)
    \/ \E t \in Tokens : RevokeToken(t)
    \/ \E t \in Tokens : TokenExpires(t)
    \/ \E a \in Agents, t \in Tokens : UseToken(a, t)
    \/ \E a \in Agents : CheckQuota(a)
    \/ \E a \in Agents : Register(a)
    \/ \E a \in Agents : RegisterRollsBack(a)
    \/ \E a \in Agents : ResolveDevice(a)
    \/ \E a \in Agents : RecordHeartbeat(a)
    \/ \E a \in Agents : HeartbeatFails(a)
    \/ \E v \in BOOLEAN : SetActive(v)
    \/ \E v \in {"active", "past_due"} : UpdateEntitlement(v)
    \/ \E d \in Periods : BeginOffboarding(d)
    \/ SweepTokens
    \/ SweepRegistrations
    \/ SweepDevices
    \/ CommitOffboarding
    \/ OffboardingRollsBack
    \/ ApproveDeletion
    \/ Tick

Spec == Init /\ [][Next]_vars

(* The rows as the schema types them; a transaction that is not open is Idle. *)
Token == [state : {"none", "live", "revoked", "expired"}, uses : 0..MaxUses, swept : BOOLEAN]
Device == [token : Tokens, approved : BOOLEAN, status : {"online", "disabled"}]
Registration == [pc : {"used", "counted"}, token : Tokens]
Offboarding == [pc : {"begun", "tokens", "registrations", "devices"}, until : Nat,
                tokens : SUBSET Tokens, approved : SUBSET Agents, devices : SUBSET Agents]

(* What the constants stand for.                                              *)
Sensible ==
    /\ IsFiniteSet(Agents)
    /\ MaxUses \in Nat /\ MaxDevices \in Nat /\ MaxTime \in Nat
    /\ Periods \subseteq Nat
    /\ None \notin Device

TypeOK ==
    /\ Sensible
    /\ active \in BOOLEAN
    /\ entitlement \in {"active", "past_due", "cancelled"}
    /\ tokens \in [Tokens -> Token]
    /\ device \in [Agents -> Device \cup {None}]
    /\ reg \in [Agents -> Registration \cup {Idle}]
    /\ beat \subseteq Devices
    /\ off \in Offboarding \cup {Idle}
    /\ record \in [state : {"none", "access_revoked", "deletion_approved"}, until : Nat]
    /\ promised \in Nat
    /\ now \in 0..MaxTime

(* No agent outlives the offboarding of the token it enrolled with: whatever  *)
(* moment its registration chose, a device enrolled by a token the            *)
(* offboarding revoked has lost its approval, also after the MSP is activated *)
(* again (offboarding_handlers.go handleOffboardMSP, auth_handlers.go         *)
(* handleAgentRegister).                                                      *)
NoAgentOutlivesOffboarding ==
    \A a \in Devices : tokens[device[a].token].swept => ~device[a].approved

(* A token's use count is the number of devices that exist because of it, and *)
(* never more than the token allows: a refused or failed registration gives   *)
(* its use back (docs/SAAS_CONTROL_PLANE_RUNBOOK.md, Enrollment).             *)
UsesAreDevices ==
    \A t \in Tokens :
        /\ tokens[t].uses = Cardinality({a \in Devices : device[a].token = t})
        /\ tokens[t].uses <= MaxUses

(* Deletion is approved only when every retention end an operator was ever    *)
(* told has passed, also when the MSP was offboarded again with a shorter     *)
(* period (offboarding_handlers.go, GREATEST and handleApproveMSPDeletion).   *)
RetentionIsHonoured == record.state = "deletion_approved" => promised <= now

(* The three together: an offboarding reaches every agent that enrolled, also *)
(* through a registration in flight, no use of a token is without its device  *)
(* (handleAgentRegister), and nothing is deleted before its time              *)
(* (handleOffboardMSP, handleApproveMSPDeletion).                             *)
OffboardingIsFinal ==
    NoAgentOutlivesOffboarding /\ UsesAreDevices /\ RetentionIsHonoured
=============================================================================
