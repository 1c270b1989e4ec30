---------------------- MODULE TenantOffboarding_proofs ----------------------
(***************************************************************************)
(* Proofs about TenantOffboarding, for any number of agents and tokens,    *)
(* any quota and any retention periods.  The inductive invariant has a     *)
(* part for each of the three properties: what a registration in flight    *)
(* holds and what a sweep has seen, what the record promises, and what a   *)
(* token's use count counts.                                               *)
(***************************************************************************)
EXTENDS TenantOffboarding, TLAPS

(* A registration in flight holds its token alone: the token is usable, has a *)
(* use left, and no offboarding has swept it or will.                         *)
HeldTokens ==
    \A a \in Agents : reg[a].pc # "idle" =>
        /\ device[a] = None
        /\ tokens[reg[a].token].state \in {"live", "expired"}
        /\ tokens[reg[a].token].swept = FALSE
        /\ tokens[reg[a].token].uses < MaxUses
        /\ ~Swept(reg[a].token)
        /\ \A b \in Agents : reg[b].pc # "idle" /\ reg[b].token = reg[a].token => a = b

(* What an offboarding swept stays revoked, and from its second UPDATE on it  *)
(* knows every approved device of the tokens it is about to revoke.           *)
SweepIsComplete ==
    /\ \A t \in Tokens : tokens[t].swept = TRUE => tokens[t].state = "revoked"
    /\ off.pc \in {"registrations", "devices"} =>
         \A a \in Agents : /\ device[a] # None
                           /\ device[a].token \in off.tokens
                           /\ device[a].approved = TRUE
                           => a \in off.approved
    /\ \A a \in Agents : device[a] # None =>
         (tokens[device[a].token].swept = TRUE => device[a].approved = FALSE)

(* The record holds the latest end that was promised, an offboarding under    *)
(* way will not shorten it, and approval waited for it.                       *)
RetentionInv ==
    /\ promised <= record.until
    /\ off.pc # "idle" => record.until <= off.until /\ record.state # "deletion_approved"
    /\ record.state = "deletion_approved" => record.until <= now

EnrolledBy(t) == {a \in Agents : device[a] # None /\ device[a].token = t}
UsesInv == \A t \in Tokens : tokens[t].uses = Cardinality(EnrolledBy(t))

OffboardingInv == TypeOK /\ HeldTokens /\ SweepIsComplete /\ RetentionInv /\ UsesInv

LEMMA LaterOfTwo ==
    ASSUME NEW m \in Nat, NEW n \in Nat
    PROVE  /\ Later(m, n) \in Nat /\ m <= Later(m, n) /\ n <= Later(m, n)
           /\ Later(m, n) \in {m, n}
  BY DEF Later

LEMMA TypeStep ==
    ASSUME TypeOK, HeldTokens, [Next]_vars
    PROVE  TypeOK'
<1>1. ASSUME NEW t \in Tokens, CreateToken(t) PROVE TypeOK'
  BY <1>1 DEF CreateToken, TypeOK, Token, Device, Registration, Offboarding, Idle, Devices, tenant, offboarding
<1>2. ASSUME NEW t \in Tokens, RevokeToken(t) PROVE TypeOK'
  BY <1>2 DEF RevokeToken, TypeOK, Token, Device, Registration, Offboarding, Idle, Devices, tenant, offboarding
<1>3. ASSUME NEW t \in Tokens, TokenExpires(t) PROVE TypeOK'
  BY <1>3 DEF TokenExpires, TypeOK, Token, Device, Registration, Offboarding, Idle, Devices, tenant, offboarding
<1>4. ASSUME NEW a \in Agents, NEW t \in Tokens, UseToken(a, t) PROVE TypeOK'
  BY Zenon, <1>4 DEF UseToken, TypeOK, Token, Device, Registration, Offboarding, Idle, Devices, tenant, offboarding
<1>5. ASSUME NEW a \in Agents, CheckQuota(a) PROVE TypeOK'
  BY <1>5 DEF CheckQuota, TypeOK, Token, Device, Registration, Offboarding, Idle, Devices, tenant, offboarding
<1>6. ASSUME NEW a \in Agents, Register(a) PROVE TypeOK'
  <2>1. reg[a] \in Registration /\ tokens[reg[a].token] \in Token
    BY <1>6 DEF Register, TypeOK, Registration, Idle
  <2>2. tokens[reg[a].token].uses \in 0..MaxUses /\ tokens[reg[a].token].uses < MaxUses
    BY Zenon, <1>6, <2>1 DEF Register, HeldTokens, Token
  <2>3. tokens[reg[a].token].uses + 1 \in 0..MaxUses
    BY <2>2 DEF TypeOK, Sensible
  <2> DEFINE new == [token |-> reg[a].token, approved |-> TRUE, status |-> "online"]
             used == [tokens[reg[a].token] EXCEPT !.uses = tokens[reg[a].token].uses + 1]
  <2>4. new \in Device
    BY <2>1, Zenon DEF Device, Registration
  <2>5. used \in Token
    <3> DEFINE N(k) == [tokens[reg[a].token] EXCEPT !.uses = k]
    <3>1. \A k \in 0..MaxUses : N(k) \in Token
      BY Zenon, <2>1 DEF Token
    <3> HIDE DEF N
    <3>2. N(tokens[reg[a].token].uses + 1) \in Token
      BY Zenon, <2>3, <3>1
    <3> QED BY Zenon, <3>2 DEF N
  <2>6. device' = [device EXCEPT ![a] = new] /\ tokens' = [tokens EXCEPT ![reg[a].token] = used]
    BY Zenon, <1>6 DEF Register
  <2> HIDE DEF new, used
  <2>7. device' \in [Agents -> Device \cup {None}] /\ tokens' \in [Tokens -> Token]
    BY Zenon, <2>1, <2>4, <2>5, <2>6 DEF TypeOK, Registration
  <2>8. Devices \subseteq Devices'
    BY Zenon, <2>4, <2>6 DEF Devices, TypeOK, Sensible
  <2> QED BY Zenon, <1>6, <2>7, <2>8 DEF Register, TypeOK, tenant, offboarding
<1>7. ASSUME NEW a \in Agents, RegisterRollsBack(a) PROVE TypeOK'
  BY Zenon, <1>7 DEF RegisterRollsBack, TypeOK, Token, Device, Registration, Offboarding, Idle, Devices, tenant, offboarding
<1>8. ASSUME NEW a \in Agents, ResolveDevice(a) PROVE TypeOK'
  BY Zenon, <1>8 DEF ResolveDevice, TypeOK, Token, Device, Registration, Offboarding, Idle, Devices, tenant, offboarding
<1>9. ASSUME NEW a \in Agents, RecordHeartbeat(a) PROVE TypeOK'
  BY <1>9 DEF RecordHeartbeat, TypeOK, Token, Device, Registration, Offboarding, Idle, Devices, tenant, offboarding
<1>10. ASSUME NEW a \in Agents, HeartbeatFails(a) PROVE TypeOK'
  BY Zenon, <1>10 DEF HeartbeatFails, TypeOK, Token, Device, Registration, Offboarding, Idle, Devices, tenant, offboarding
<1>11. ASSUME NEW v \in BOOLEAN, SetActive(v) PROVE TypeOK'
  BY Zenon, <1>11 DEF SetActive, TypeOK, Token, Device, Registration, Offboarding, Idle, Devices, tenant, offboarding
<1>12. ASSUME NEW v \in {"active", "past_due"}, UpdateEntitlement(v) PROVE TypeOK'
  BY Zenon, <1>12 DEF UpdateEntitlement, TypeOK, Token, Device, Registration, Offboarding, Idle, Devices, tenant, offboarding
<1>13. ASSUME NEW d \in Periods, BeginOffboarding(d) PROVE TypeOK'
  <2>1. record.until \in Nat /\ now + d \in Nat
    BY DEF TypeOK, Sensible
  <2>2. off' \in Offboarding
    BY Zenon, <1>13, <2>1, LaterOfTwo DEF BeginOffboarding, Offboarding
  <2> QED BY Zenon, <1>13, <2>2 DEF BeginOffboarding, TypeOK, Devices, tenant
<1>14. CASE SweepTokens
  <2>1. off \in Offboarding
    BY <1>14 DEF SweepTokens, TypeOK, Idle
  <2>2. {t \in Tokens : tokens[t].state \in {"live", "expired"}} \in SUBSET Tokens
    BY Zenon DEF Devices
  <2>3. off' \in Offboarding
    BY Zenon, <1>14, <2>1, <2>2 DEF SweepTokens, Offboarding
  <2> QED BY Zenon, <1>14, <2>3 DEF SweepTokens, TypeOK, Devices, tenant
<1>15. CASE SweepRegistrations
  <2>1. off \in Offboarding
    BY <1>15 DEF SweepRegistrations, TypeOK, Idle
  <2>2. {a \in Devices : device[a].approved} \in SUBSET Agents
    BY Zenon DEF Devices
  <2>3. off' \in Offboarding
    BY Zenon, <1>15, <2>1, <2>2 DEF SweepRegistrations, Offboarding
  <2> QED BY Zenon, <1>15, <2>3 DEF SweepRegistrations, TypeOK, Devices, tenant
<1>16. CASE SweepDevices
  <2>1. off \in Offboarding
    BY <1>16 DEF SweepDevices, TypeOK, Idle
  <2>2. {a \in Devices : device[a].status # "disabled"} \in SUBSET Agents
    BY Zenon DEF Devices
  <2>3. off' \in Offboarding
    BY Zenon, <1>16, <2>1, <2>2 DEF SweepDevices, Offboarding
  <2> QED BY Zenon, <1>16, <2>3 DEF SweepDevices, TypeOK, Devices, tenant
<1>17. CASE CommitOffboarding
  <2>1. off.pc = "devices"
    BY Zenon, <1>17 DEF CommitOffboarding
  <2>2. off \in Offboarding
    BY <2>1 DEF TypeOK, Idle
  <2>3. ASSUME NEW t \in Tokens PROVE tokens'[t] \in Token
    BY <1>17 DEF CommitOffboarding, TypeOK, Token
  <2>4. ASSUME NEW a \in Agents
        PROVE  /\ device'[a] \in Device \cup {None}
               /\ device[a] # None => device'[a] # None
    <3>1. CASE device[a] = None
      BY Zenon, <1>17, <3>1 DEF CommitOffboarding, Devices
    <3>2. CASE device[a] # None
      <4> DEFINE D(p, s) == [device[a] EXCEPT !.approved = p, !.status = s]
      <4>1. device[a] \in Device
        BY Zenon, <3>2 DEF TypeOK
      <4>2. \A p \in BOOLEAN, s \in {"online", "disabled"} : D(p, s) \in Device
        BY Zenon, <4>1 DEF Device
      <4>3. device'[a] = D(device[a].approved /\ a \notin off.approved,
                           IF a \in off.devices THEN "disabled" ELSE device[a].status)
        BY Zenon, <1>17, <3>2 DEF CommitOffboarding, Devices
      <4> HIDE DEF D
      <4>4. (device[a].approved /\ a \notin off.approved) \in BOOLEAN
        BY Zenon
      <4>5. (IF a \in off.devices THEN "disabled" ELSE device[a].status) \in {"online", "disabled"}
        BY Zenon, <4>1 DEF Device
      <4>6. device'[a] \in Device
        BY <4>2, <4>3, <4>4, <4>5, Zenon
      <4> QED BY Zenon, <4>6 DEF TypeOK, Sensible
    <3> QED BY Zenon, <3>1, <3>2
  <2>5. tokens' \in [Tokens -> Token] /\ device' \in [Agents -> Device \cup {None}]
    BY Zenon, <1>17, <2>3, <2>4 DEF CommitOffboarding
  <2>6. Devices \subseteq Devices'
    BY Zenon, <2>4 DEF Devices
  <2>7. /\ record' \in [state : {"none", "access_revoked", "deletion_approved"}, until : Nat]
        /\ promised' \in Nat
    BY Zenon, <1>17, <2>2, LaterOfTwo DEF CommitOffboarding, TypeOK, Offboarding
  <2> QED BY Zenon, <1>17, <2>5, <2>6, <2>7 DEF CommitOffboarding, TypeOK
<1>18. CASE OffboardingRollsBack
  BY Zenon, <1>18 DEF OffboardingRollsBack, TypeOK, Token, Device, Registration, Offboarding, Idle, Devices, tenant, offboarding
<1>19. CASE ApproveDeletion
  BY Zenon, <1>19 DEF ApproveDeletion, TypeOK, Token, Device, Registration, Offboarding, Idle, Devices, tenant, offboarding
<1>20. CASE Tick
  BY <1>20 DEF Tick, Sensible, TypeOK, Token, Device, Registration, Offboarding, Idle, Devices, tenant, offboarding
<1>21. CASE UNCHANGED vars
  BY Zenon, <1>21 DEF vars, TypeOK, Token, Device, Registration, Offboarding, Idle, Devices, tenant, offboarding
<1> QED
  BY Zenon, <1>1, <1>2, <1>3, <1>4, <1>5, <1>6, <1>7, <1>8, <1>9, <1>10, <1>11,
     <1>12, <1>13, <1>14, <1>15, <1>16, <1>17, <1>18, <1>19, <1>20, <1>21 DEF Next

LEMMA HeldStep ==
    ASSUME TypeOK, TypeOK', HeldTokens, SweepIsComplete, [Next]_vars
    PROVE  HeldTokens'
<1>1. ASSUME NEW t \in Tokens, CreateToken(t) PROVE HeldTokens'
  BY <1>1 DEF CreateToken, TypeOK, HeldTokens, Token, Registration, Offboarding, Idle, HeldBy, Swept, SweepIsComplete, tenant, offboarding
<1>2. ASSUME NEW t \in Tokens, RevokeToken(t) PROVE HeldTokens'
  BY <1>2 DEF RevokeToken, TypeOK, HeldTokens, Token, Registration, Offboarding, Idle, HeldBy, Swept, SweepIsComplete, tenant, offboarding
<1>3. ASSUME NEW t \in Tokens, TokenExpires(t) PROVE HeldTokens'
  BY <1>3 DEF TokenExpires, TypeOK, HeldTokens, Token, Registration, Offboarding, Idle, HeldBy, Swept, SweepIsComplete, tenant, offboarding
<1>4. ASSUME NEW a \in Agents, NEW t \in Tokens, UseToken(a, t) PROVE HeldTokens'
  BY <1>4 DEF UseToken, TypeOK, HeldTokens, Token, Registration, Offboarding, Idle, HeldBy, Swept, SweepIsComplete, tenant, offboarding
<1>5. ASSUME NEW a \in Agents, CheckQuota(a) PROVE HeldTokens'
  BY <1>5 DEF CheckQuota, TypeOK, HeldTokens, Token, Registration, Offboarding, Idle, HeldBy, Swept, SweepIsComplete, tenant, offboarding
<1>6. ASSUME NEW a \in Agents, Register(a) PROVE HeldTokens'
  BY <1>6 DEF Register, TypeOK, HeldTokens, Token, Registration, Offboarding, Idle, HeldBy, Swept, SweepIsComplete, tenant, offboarding
<1>7. ASSUME NEW a \in Agents, RegisterRollsBack(a) PROVE HeldTokens'
  BY <1>7 DEF RegisterRollsBack, TypeOK, HeldTokens, Token, Registration, Offboarding, Idle, HeldBy, Swept, SweepIsComplete, tenant, offboarding
<1>8. ASSUME NEW a \in Agents, ResolveDevice(a) PROVE HeldTokens'
  BY <1>8 DEF ResolveDevice, TypeOK, HeldTokens, Token, Registration, Offboarding, Idle, HeldBy, Swept, SweepIsComplete, tenant, offboarding
<1>9. ASSUME NEW a \in Agents, RecordHeartbeat(a) PROVE HeldTokens'
  <2>1. device[a] # None /\ reg[a].pc = "idle"
    BY Zenon, <1>9 DEF RecordHeartbeat, TypeOK, Devices, HeldTokens
  <2>2. \A b \in Agents : b # a => device'[b] = device[b]
    BY Zenon, <1>9 DEF RecordHeartbeat, TypeOK
  <2> QED BY Zenon, <1>9, <2>1, <2>2 DEF RecordHeartbeat, HeldTokens, Swept, offboarding
<1>10. ASSUME NEW a \in Agents, HeartbeatFails(a) PROVE HeldTokens'
  BY <1>10 DEF HeartbeatFails, TypeOK, HeldTokens, Token, Registration, Offboarding, Idle, HeldBy, Swept, SweepIsComplete, tenant, offboarding
<1>11. ASSUME NEW v \in BOOLEAN, SetActive(v) PROVE HeldTokens'
  BY <1>11 DEF SetActive, TypeOK, HeldTokens, Token, Registration, Offboarding, Idle, HeldBy, Swept, SweepIsComplete, tenant, offboarding
<1>12. ASSUME NEW v \in {"active", "past_due"}, UpdateEntitlement(v) PROVE HeldTokens'
  BY <1>12 DEF UpdateEntitlement, TypeOK, HeldTokens, Token, Registration, Offboarding, Idle, HeldBy, Swept, SweepIsComplete, tenant, offboarding
<1>13. ASSUME NEW d \in Periods, BeginOffboarding(d) PROVE HeldTokens'
  BY <1>13 DEF BeginOffboarding, TypeOK, HeldTokens, Token, Registration, Offboarding, Idle, HeldBy, Swept, SweepIsComplete, tenant, offboarding
<1>14. CASE SweepTokens
  BY Zenon, <1>14 DEF SweepTokens, TypeOK, HeldTokens, Token, Registration, Offboarding, Idle, HeldBy, Swept, SweepIsComplete, tenant, offboarding
<1>15. CASE SweepRegistrations
  <2>1. off \in Offboarding
    BY <1>15 DEF SweepRegistrations, TypeOK, Idle
  <2>2. off'.tokens = off.tokens /\ off.pc # "idle" /\ UNCHANGED <<tokens, device, reg>>
    BY Zenon, <1>15, <2>1 DEF SweepRegistrations, Offboarding
  <2> QED BY Zenon, <2>2 DEF HeldTokens, Swept
<1>16. CASE SweepDevices
  <2>1. off \in Offboarding
    BY <1>16 DEF SweepDevices, TypeOK, Idle
  <2>2. off'.tokens = off.tokens /\ off.pc # "idle" /\ UNCHANGED <<tokens, device, reg>>
    BY Zenon, <1>16, <2>1 DEF SweepDevices, Offboarding
  <2> QED BY Zenon, <2>2 DEF HeldTokens, Swept
<1>17. CASE CommitOffboarding
  <2>1. off.pc = "devices" /\ off' = Idle /\ reg' = reg
    BY Zenon, <1>17 DEF CommitOffboarding
  <2>2. \A t \in Tokens : t \notin off.tokens => tokens'[t] = tokens[t]
    BY Zenon, <1>17 DEF CommitOffboarding
  <2>3. \A a \in Agents : device[a] = None => device'[a] = None
    BY Zenon, <1>17 DEF CommitOffboarding, Devices
  <2>4. ASSUME NEW a \in Agents, reg[a].pc # "idle"
        PROVE  reg[a].token \in Tokens \ off.tokens /\ device[a] = None
    BY <2>1, <2>4 DEF HeldTokens, Swept, TypeOK, Registration, Idle
  <2> QED BY Zenon, <2>1, <2>2, <2>3, <2>4 DEF HeldTokens, Swept, Idle
<1>18. CASE OffboardingRollsBack
  BY <1>18 DEF OffboardingRollsBack, TypeOK, HeldTokens, Token, Registration, Offboarding, Idle, HeldBy, Swept, SweepIsComplete, tenant, offboarding
<1>19. CASE ApproveDeletion
  BY <1>19 DEF ApproveDeletion, TypeOK, HeldTokens, Token, Registration, Offboarding, Idle, HeldBy, Swept, SweepIsComplete, tenant, offboarding
<1>20. CASE Tick
  BY <1>20 DEF Tick, TypeOK, HeldTokens, Token, Registration, Offboarding, Idle, HeldBy, Swept, SweepIsComplete, tenant, offboarding
<1>21. CASE UNCHANGED vars
  BY <1>21 DEF vars, TypeOK, HeldTokens, Token, Registration, Offboarding, Idle, HeldBy, Swept, SweepIsComplete, tenant, offboarding
<1> QED
  BY Zenon, <1>1, <1>2, <1>3, <1>4, <1>5, <1>6, <1>7, <1>8, <1>9, <1>10, <1>11,
     <1>12, <1>13, <1>14, <1>15, <1>16, <1>17, <1>18, <1>19, <1>20, <1>21 DEF Next

LEMMA SweepStep ==
    ASSUME TypeOK, TypeOK', HeldTokens, SweepIsComplete, [Next]_vars
    PROVE  SweepIsComplete'
<1>1. ASSUME NEW t \in Tokens, CreateToken(t) PROVE SweepIsComplete'
  BY <1>1 DEF CreateToken, TypeOK, SweepIsComplete, Token, Device, Registration, Offboarding, Idle, Devices, tenant, offboarding
<1>2. ASSUME NEW t \in Tokens, RevokeToken(t) PROVE SweepIsComplete'
  BY <1>2 DEF RevokeToken, TypeOK, SweepIsComplete, Token, Device, Registration, Offboarding, Idle, Devices, tenant, offboarding
<1>3. ASSUME NEW t \in Tokens, TokenExpires(t) PROVE SweepIsComplete'
  BY <1>3 DEF TokenExpires, TypeOK, SweepIsComplete, Token, Device, Registration, Offboarding, Idle, Devices, tenant, offboarding
<1>4. ASSUME NEW a \in Agents, NEW t \in Tokens, UseToken(a, t) PROVE SweepIsComplete'
  BY Zenon, <1>4 DEF UseToken, TypeOK, SweepIsComplete, Token, Device, Registration, Offboarding, Idle, Devices, tenant, offboarding
<1>5. ASSUME NEW a \in Agents, CheckQuota(a) PROVE SweepIsComplete'
  BY Zenon, <1>5 DEF CheckQuota, TypeOK, SweepIsComplete, Token, Device, Registration, Offboarding, Idle, Devices, tenant, offboarding
<1>6. ASSUME NEW a \in Agents, Register(a) PROVE SweepIsComplete'
  <2>1. reg[a] \in Registration /\ device[a] = None
        /\ tokens[reg[a].token].swept = FALSE /\ ~Swept(reg[a].token)
    BY <1>6 DEF Register, HeldTokens, TypeOK, Idle
  <2>2. reg[a].token \in Tokens /\ tokens[reg[a].token] \in Token
    BY Zenon, <2>1 DEF Registration, TypeOK
  <2>3. \A t \in Tokens : /\ tokens'[t].swept = tokens[t].swept
                           /\ tokens'[t].state = tokens[t].state
    BY Zenon, <1>6, <2>2 DEF Register, TypeOK, Token
  <2>4. \A b \in Agents : b # a => device'[b] = device[b]
    BY Zenon, <1>6 DEF Register, TypeOK
  <2>5. device'[a].token = reg[a].token
    BY Zenon, <1>6 DEF Register, TypeOK
  <2>6. \A b \in Agents : device[b] # None => device[b].token \in Tokens
    BY Zenon DEF TypeOK, Device
  <2>7. off' = off
    BY Zenon, <1>6 DEF Register, offboarding
  <2> QED BY <2>1, <2>2, <2>3, <2>4, <2>5, <2>6, <2>7 DEF SweepIsComplete, Swept
<1>7. ASSUME NEW a \in Agents, RegisterRollsBack(a) PROVE SweepIsComplete'
  BY Zenon, <1>7 DEF RegisterRollsBack, TypeOK, SweepIsComplete, Token, Device, Registration, Offboarding, Idle, Devices, tenant, offboarding
<1>8. ASSUME NEW a \in Agents, ResolveDevice(a) PROVE SweepIsComplete'
  BY Zenon, <1>8 DEF ResolveDevice, TypeOK, SweepIsComplete, Token, Device, Registration, Offboarding, Idle, Devices, tenant, offboarding
<1>9. ASSUME NEW a \in Agents, RecordHeartbeat(a) PROVE SweepIsComplete'
  BY <1>9 DEF RecordHeartbeat, TypeOK, SweepIsComplete, Token, Device, Registration, Offboarding, Idle, Devices, tenant, offboarding
<1>10. ASSUME NEW a \in Agents, HeartbeatFails(a) PROVE SweepIsComplete'
  BY Zenon, <1>10 DEF HeartbeatFails, TypeOK, SweepIsComplete, Token, Device, Registration, Offboarding, Idle, Devices, tenant, offboarding
<1>11. ASSUME NEW v \in BOOLEAN, SetActive(v) PROVE SweepIsComplete'
  BY Zenon, <1>11 DEF SetActive, TypeOK, SweepIsComplete, Token, Device, Registration, Offboarding, Idle, Devices, tenant, offboarding
<1>12. ASSUME NEW v \in {"active", "past_due"}, UpdateEntitlement(v) PROVE SweepIsComplete'
  BY Zenon, <1>12 DEF UpdateEntitlement, TypeOK, SweepIsComplete, Token, Device, Registration, Offboarding, Idle, Devices, tenant, offboarding
<1>13. ASSUME NEW d \in Periods, BeginOffboarding(d) PROVE SweepIsComplete'
  BY Zenon, <1>13 DEF BeginOffboarding, TypeOK, SweepIsComplete, Token, Device, Registration, Offboarding, Idle, Devices, tenant, offboarding
<1>14. CASE SweepTokens
  BY Zenon, <1>14 DEF SweepTokens, TypeOK, SweepIsComplete, Token, Device, Registration, Offboarding, Idle, Devices, tenant, offboarding
<1>15. CASE SweepRegistrations
  BY Zenon, <1>15 DEF SweepRegistrations, TypeOK, SweepIsComplete, Token, Device, Registration, Offboarding, Idle, Devices, tenant, offboarding
<1>16. CASE SweepDevices
  BY Zenon, <1>16 DEF SweepDevices, TypeOK, SweepIsComplete, Token, Device, Registration, Offboarding, Idle, Devices, tenant, offboarding
<1>17. CASE CommitOffboarding
  <2>1. off.pc = "devices" /\ off' = Idle
    BY Zenon, <1>17 DEF CommitOffboarding
  <2>2. ASSUME NEW t \in Tokens
        PROVE  IF t \in off.tokens THEN tokens'[t].state = "revoked"
               ELSE tokens'[t] = tokens[t]
    <3>1. tokens'[t] = IF t \in off.tokens
                       THEN [tokens[t] EXCEPT !.state = "revoked", !.swept = TRUE]
                       ELSE tokens[t]
      BY Zenon, <1>17 DEF CommitOffboarding
    <3> QED BY Zenon, <3>1 DEF TypeOK, Token
  <2>3. ASSUME NEW a \in Agents, device'[a] # None
        PROVE  /\ device[a] # None /\ device[a].token \in Tokens
               /\ device'[a].token = device[a].token
               /\ device[a].approved = FALSE => device'[a].approved = FALSE
               /\ a \in off.approved => device'[a].approved = FALSE
    <3>1. device[a] # None /\ device[a] \in Device
      BY Zenon, <1>17, <2>3 DEF CommitOffboarding, Devices, TypeOK
    <3> DEFINE p == device[a].approved /\ a \notin off.approved
               s == IF a \in off.devices THEN "disabled" ELSE device[a].status
    <3>2. device'[a] = [device[a] EXCEPT !.approved = p, !.status = s]
      BY Zenon, <1>17, <3>1 DEF CommitOffboarding, Devices
    <3>3. /\ device[a].approved = FALSE => p = FALSE
          /\ a \in off.approved => p = FALSE
      BY Zenon
    <3> HIDE DEF p, s
    <3>4. device'[a].approved = p /\ device'[a].token = device[a].token
      BY Zenon, <3>1, <3>2 DEF Device
    <3> QED BY Zenon, <3>1, <3>3, <3>4 DEF Device
  <2>4. ASSUME NEW a \in Agents, device[a] # None, device[a].token \in off.tokens
        PROVE  device[a].approved = FALSE \/ a \in off.approved
    <3>1. device[a].approved \in BOOLEAN
      BY Zenon, <2>4 DEF TypeOK, Device
    <3> QED BY Zenon, <2>1, <2>4, <3>1 DEF SweepIsComplete
  <2>5. \A a \in Agents : device'[a] # None =>
          (tokens'[device'[a].token].swept = TRUE => device'[a].approved = FALSE)
    BY Zenon, <2>2, <2>3, <2>4 DEF SweepIsComplete
  <2> QED BY Zenon, <2>1, <2>2, <2>5 DEF SweepIsComplete, Idle
<1>18. CASE OffboardingRollsBack
  BY Zenon, <1>18 DEF OffboardingRollsBack, TypeOK, SweepIsComplete, Token, Device, Registration, Offboarding, Idle, Devices, tenant, offboarding
<1>19. CASE ApproveDeletion
  BY Zenon, <1>19 DEF ApproveDeletion, TypeOK, SweepIsComplete, Token, Device, Registration, Offboarding, Idle, Devices, tenant, offboarding
<1>20. CASE Tick
  BY Zenon, <1>20 DEF Tick, TypeOK, SweepIsComplete, Token, Device, Registration, Offboarding, Idle, Devices, tenant, offboarding
<1>21. CASE UNCHANGED vars
  BY Zenon, <1>21 DEF vars, TypeOK, SweepIsComplete, Token, Device, Registration, Offboarding, Idle, Devices, tenant, offboarding
<1> QED
  BY Zenon, <1>1, <1>2, <1>3, <1>4, <1>5, <1>6, <1>7, <1>8, <1>9, <1>10, <1>11,
     <1>12, <1>13, <1>14, <1>15, <1>16, <1>17, <1>18, <1>19, <1>20, <1>21 DEF Next

LEMMA RetentionStep ==
    ASSUME TypeOK, RetentionInv, [Next]_vars
    PROVE  RetentionInv'
<1>1. ASSUME NEW t \in Tokens, CreateToken(t) PROVE RetentionInv'
  BY Zenon, <1>1 DEF CreateToken, RetentionInv, TypeOK, Sensible, Offboarding, Idle, tenant, offboarding
<1>2. ASSUME NEW t \in Tokens, RevokeToken(t) PROVE RetentionInv'
  BY Zenon, <1>2 DEF RevokeToken, RetentionInv, TypeOK, Sensible, Offboarding, Idle, tenant, offboarding
<1>3. ASSUME NEW t \in Tokens, TokenExpires(t) PROVE RetentionInv'
  BY Zenon, <1>3 DEF TokenExpires, RetentionInv, TypeOK, Sensible, Offboarding, Idle, tenant, offboarding
<1>4. ASSUME NEW a \in Agents, NEW t \in Tokens, UseToken(a, t) PROVE RetentionInv'
  BY Zenon, <1>4 DEF UseToken, RetentionInv, TypeOK, Sensible, Offboarding, Idle, tenant, offboarding
<1>5. ASSUME NEW a \in Agents, CheckQuota(a) PROVE RetentionInv'
  BY Zenon, <1>5 DEF CheckQuota, RetentionInv, TypeOK, Sensible, Offboarding, Idle, tenant, offboarding
<1>6. ASSUME NEW a \in Agents, Register(a) PROVE RetentionInv'
  BY Zenon, <1>6 DEF Register, RetentionInv, TypeOK, Sensible, Offboarding, Idle, tenant, offboarding
<1>7. ASSUME NEW a \in Agents, RegisterRollsBack(a) PROVE RetentionInv'
  BY Zenon, <1>7 DEF RegisterRollsBack, RetentionInv, TypeOK, Sensible, Offboarding, Idle, tenant, offboarding
<1>8. ASSUME NEW a \in Agents, ResolveDevice(a) PROVE RetentionInv'
  BY Zenon, <1>8 DEF ResolveDevice, RetentionInv, TypeOK, Sensible, Offboarding, Idle, tenant, offboarding
<1>9. ASSUME NEW a \in Agents, RecordHeartbeat(a) PROVE RetentionInv'
  BY Zenon, <1>9 DEF RecordHeartbeat, RetentionInv, TypeOK, Sensible, Offboarding, Idle, tenant, offboarding
<1>10. ASSUME NEW a \in Agents, HeartbeatFails(a) PROVE RetentionInv'
  BY Zenon, <1>10 DEF HeartbeatFails, RetentionInv, TypeOK, Sensible, Offboarding, Idle, tenant, offboarding
<1>11. ASSUME NEW v \in BOOLEAN, SetActive(v) PROVE RetentionInv'
  BY Zenon, <1>11 DEF SetActive, RetentionInv, TypeOK, Sensible, Offboarding, Idle, tenant, offboarding
<1>12. ASSUME NEW v \in {"active", "past_due"}, UpdateEntitlement(v) PROVE RetentionInv'
  BY Zenon, <1>12 DEF UpdateEntitlement, RetentionInv, TypeOK, Sensible, Offboarding, Idle, tenant, offboarding
<1>13. ASSUME NEW d \in Periods, BeginOffboarding(d) PROVE RetentionInv'
  <2>1. record.until \in Nat /\ now + d \in Nat
    BY DEF TypeOK, Sensible
  <2>2. record.until <= off'.until
    BY Zenon, <1>13, <2>1, LaterOfTwo DEF BeginOffboarding
  <2> QED BY Zenon, <1>13, <2>2 DEF BeginOffboarding, RetentionInv
<1>14. CASE SweepTokens
  BY <1>14 DEF SweepTokens, RetentionInv, TypeOK, Sensible, Offboarding, Idle, tenant, offboarding
<1>15. CASE SweepRegistrations
  BY <1>15 DEF SweepRegistrations, RetentionInv, TypeOK, Sensible, Offboarding, Idle, tenant, offboarding
<1>16. CASE SweepDevices
  BY <1>16 DEF SweepDevices, RetentionInv, TypeOK, Sensible, Offboarding, Idle, tenant, offboarding
<1>17. CASE CommitOffboarding
  <2>1. off.pc = "devices" /\ off' = Idle
        /\ record' = [state |-> "access_revoked", until |-> off.until]
        /\ promised' = Later(promised, off.until)
    BY Zenon, <1>17 DEF CommitOffboarding
  <2>2. off \in Offboarding
    BY <2>1 DEF TypeOK, Idle
  <2>3. promised \in Nat /\ record.until \in Nat /\ off.until \in Nat
    BY Zenon, <2>2 DEF TypeOK, Offboarding
  <2>4. promised <= off.until
    BY <2>1, <2>3 DEF RetentionInv
  <2>5. Later(promised, off.until) <= off.until
    BY Zenon, <2>3, <2>4, LaterOfTwo
  <2> QED BY Zenon, <2>1, <2>5 DEF RetentionInv, Idle
<1>18. CASE OffboardingRollsBack
  BY Zenon, <1>18 DEF OffboardingRollsBack, RetentionInv, TypeOK, Sensible, Offboarding, Idle, tenant, offboarding
<1>19. CASE ApproveDeletion
  BY Zenon, <1>19 DEF ApproveDeletion, RetentionInv, TypeOK, Sensible, Offboarding, Idle, tenant, offboarding
<1>20. CASE Tick
  BY <1>20 DEF Tick, RetentionInv, TypeOK, Sensible, Offboarding, Idle, tenant, offboarding
<1>21. CASE UNCHANGED vars
  BY Zenon, <1>21 DEF vars, RetentionInv, TypeOK, Sensible, Offboarding, Idle, tenant, offboarding
<1> QED
  BY Zenon, <1>1, <1>2, <1>3, <1>4, <1>5, <1>6, <1>7, <1>8, <1>9, <1>10, <1>11,
     <1>12, <1>13, <1>14, <1>15, <1>16, <1>17, <1>18, <1>19, <1>20, <1>21 DEF Next

(* Every step but the commit of a registration leaves both sides alone.       *)
SameEnrolment == \A a \in Agents : /\ device'[a] = None <=> device[a] = None
                                   /\ device[a] # None => device'[a].token = device[a].token
SameUses == \A t \in Tokens : tokens'[t].uses = tokens[t].uses

LEMMA UsesKept ==
    ASSUME SameUses, SameEnrolment
    PROVE  \A t \in Tokens : /\ tokens'[t].uses = tokens[t].uses
                            /\ EnrolledBy(t)' = EnrolledBy(t)
  BY Zenon DEF SameUses, SameEnrolment, EnrolledBy

\* The library's facts about finite sets, named apart from this module's lemmas.
Sets == INSTANCE FiniteSetTheorems

LEMMA Counting ==
    /\ Cardinality({}) = 0
    /\ \A S : IsFiniteSet(S) => /\ \A T : T \subseteq S => IsFiniteSet(T)
                              /\ \A x : x \notin S => Cardinality(S \cup {x}) = Cardinality(S) + 1
<1>1. \A S : (IsFiniteSet(S) <=> Sets!IsFiniteSet(S)) /\ Cardinality(S) = Sets!Cardinality(S)
  BY Zenon DEF IsFiniteSet, Sets!IsFiniteSet, Cardinality, Sets!Cardinality
<1>2. Cardinality({}) = 0
  BY Zenon, <1>1, Sets!FS_EmptySet
<1>3. ASSUME NEW S, IsFiniteSet(S), NEW T, T \subseteq S PROVE IsFiniteSet(T)
  BY Zenon, <1>1, <1>3, Sets!FS_Subset
<1>4. ASSUME NEW S, IsFiniteSet(S), NEW x, x \notin S PROVE Cardinality(S \cup {x}) = Cardinality(S) + 1
  BY Zenon, <1>1, <1>4, Sets!FS_AddElement
<1> QED BY Zenon, <1>2, <1>3, <1>4

LEMMA UsesStep ==
    ASSUME TypeOK, TypeOK', HeldTokens, UsesInv, [Next]_vars
    PROVE  UsesInv'
<1>1. ASSUME NEW t \in Tokens, CreateToken(t) PROVE UsesInv'
  BY <1>1, UsesKept DEF UsesInv, CreateToken, SameUses, SameEnrolment, TypeOK, Token, tenant, offboarding
<1>2. ASSUME NEW t \in Tokens, RevokeToken(t) PROVE UsesInv'
  BY <1>2, UsesKept DEF UsesInv, RevokeToken, SameUses, SameEnrolment, TypeOK, Token, tenant, offboarding
<1>3. ASSUME NEW t \in Tokens, TokenExpires(t) PROVE UsesInv'
  BY <1>3, UsesKept DEF UsesInv, TokenExpires, SameUses, SameEnrolment, TypeOK, Token, tenant, offboarding
<1>4. ASSUME NEW a \in Agents, NEW t \in Tokens, UseToken(a, t) PROVE UsesInv'
  BY Zenon, <1>4, UsesKept DEF UsesInv, UseToken, SameUses, SameEnrolment, TypeOK, Token, tenant, offboarding
<1>5. ASSUME NEW a \in Agents, CheckQuota(a) PROVE UsesInv'
  BY Zenon, <1>5, UsesKept DEF UsesInv, CheckQuota, SameUses, SameEnrolment, TypeOK, Token, tenant, offboarding
<1>6. ASSUME NEW a \in Agents, Register(a) PROVE UsesInv'
  <2> DEFINE r == reg[a].token
  <2>1. reg[a] \in Registration /\ device[a] = None
    BY <1>6 DEF Register, HeldTokens, TypeOK, Idle
  <2>2. r \in Tokens /\ tokens[r] \in Token
    BY Zenon, <2>1 DEF Registration, TypeOK
  <2>3. /\ tokens'[r].uses = tokens[r].uses + 1
        /\ \A t \in Tokens : t # r => tokens'[t].uses = tokens[t].uses
    BY Zenon, <1>6, <2>2 DEF Register, TypeOK, Token
  <2>4. \A b \in Agents : b # a => device'[b] = device[b]
    BY Zenon, <1>6 DEF Register, TypeOK
  <2>5. device'[a] # None /\ device'[a].token = r
    <3>1. device'[a] = [token |-> r, approved |-> TRUE, status |-> "online"]
      BY Zenon, <1>6 DEF Register, TypeOK
    <3>2. [token |-> r, approved |-> TRUE, status |-> "online"] \in Device
      BY <2>2, Zenon DEF Device
    <3>3. device'[a] # None
      BY <3>1, <3>2, Zenon DEF TypeOK, Sensible
    <3> QED BY <3>1, <3>3
  <2> HIDE DEF r
  <2>6. \A t \in Tokens : EnrolledBy(t)' = IF t = r THEN EnrolledBy(t) \cup {a} ELSE EnrolledBy(t)
    BY Zenon, <2>1, <2>4, <2>5 DEF EnrolledBy
  <2>7. IsFiniteSet(EnrolledBy(r)) /\ a \notin EnrolledBy(r)
    <3>1. EnrolledBy(r) \subseteq Agents /\ a \notin EnrolledBy(r)
      BY Zenon, <2>1 DEF EnrolledBy
    <3> QED BY Zenon, <3>1, Counting DEF TypeOK, Sensible
  <2>8. Cardinality(EnrolledBy(r) \cup {a}) = Cardinality(EnrolledBy(r)) + 1
    BY Zenon, <2>7, Counting
  <2> QED BY Zenon, <2>2, <2>3, <2>6, <2>8 DEF UsesInv
<1>7. ASSUME NEW a \in Agents, RegisterRollsBack(a) PROVE UsesInv'
  BY Zenon, <1>7, UsesKept DEF UsesInv, RegisterRollsBack, SameUses, SameEnrolment, TypeOK, Token, tenant, offboarding
<1>8. ASSUME NEW a \in Agents, ResolveDevice(a) PROVE UsesInv'
  BY Zenon, <1>8, UsesKept DEF UsesInv, ResolveDevice, SameUses, SameEnrolment, TypeOK, Token, tenant, offboarding
<1>9. ASSUME NEW a \in Agents, RecordHeartbeat(a) PROVE UsesInv'
  <2>1. device[a] \in Device
    BY Zenon, <1>9 DEF RecordHeartbeat, TypeOK, Devices
  <2>2. device'[a].token = device[a].token /\ device'[a] \in Device
    BY Zenon, <1>9, <2>1 DEF RecordHeartbeat, TypeOK, Device
  <2>3. \A b \in Agents : b # a => device'[b] = device[b]
    BY Zenon, <1>9 DEF RecordHeartbeat, TypeOK
  <2>4. SameEnrolment
    BY Zenon, <2>1, <2>2, <2>3 DEF SameEnrolment, TypeOK, Sensible
  <2> QED BY Zenon, <1>9, <2>4, UsesKept DEF UsesInv, RecordHeartbeat, SameUses
<1>10. ASSUME NEW a \in Agents, HeartbeatFails(a) PROVE UsesInv'
  BY Zenon, <1>10, UsesKept DEF UsesInv, HeartbeatFails, SameUses, SameEnrolment, TypeOK, Token, tenant, offboarding
<1>11. ASSUME NEW v \in BOOLEAN, SetActive(v) PROVE UsesInv'
  BY Zenon, <1>11, UsesKept DEF UsesInv, SetActive, SameUses, SameEnrolment, TypeOK, Token, tenant, offboarding
<1>12. ASSUME NEW v \in {"active", "past_due"}, UpdateEntitlement(v) PROVE UsesInv'
  BY Zenon, <1>12, UsesKept DEF UsesInv, UpdateEntitlement, SameUses, SameEnrolment, TypeOK, Token, tenant, offboarding
<1>13. ASSUME NEW d \in Periods, BeginOffboarding(d) PROVE UsesInv'
  BY Zenon, <1>13, UsesKept DEF UsesInv, BeginOffboarding, SameUses, SameEnrolment, TypeOK, Token, tenant, offboarding
<1>14. CASE SweepTokens
  BY Zenon, <1>14, UsesKept DEF UsesInv, SweepTokens, SameUses, SameEnrolment, TypeOK, Token, tenant, offboarding
<1>15. CASE SweepRegistrations
  BY Zenon, <1>15, UsesKept DEF UsesInv, SweepRegistrations, SameUses, SameEnrolment, TypeOK, Token, tenant, offboarding
<1>16. CASE SweepDevices
  BY Zenon, <1>16, UsesKept DEF UsesInv, SweepDevices, SameUses, SameEnrolment, TypeOK, Token, tenant, offboarding
<1>17. CASE CommitOffboarding
  <2>1. ASSUME NEW t \in Tokens PROVE tokens'[t].uses = tokens[t].uses
    <3>1. tokens'[t] = IF t \in off.tokens
                       THEN [tokens[t] EXCEPT !.state = "revoked", !.swept = TRUE]
                       ELSE tokens[t]
      BY Zenon, <1>17 DEF CommitOffboarding
    <3> QED BY Zenon, <3>1 DEF TypeOK, Token
  <2>2. ASSUME NEW a \in Agents
        PROVE  /\ device'[a] = None <=> device[a] = None
               /\ device[a] # None => device'[a].token = device[a].token
    <3>1. CASE device[a] = None
      BY Zenon, <1>17, <3>1 DEF CommitOffboarding, Devices
    <3>2. CASE device[a] # None
      <4>1. device[a] \in Device
        BY Zenon, <3>2 DEF TypeOK
      <4> DEFINE p == device[a].approved /\ a \notin off.approved
                 s == IF a \in off.devices THEN "disabled" ELSE device[a].status
      <4>2. device'[a] = [device[a] EXCEPT !.approved = p, !.status = s]
        BY Zenon, <1>17, <3>2 DEF CommitOffboarding, Devices
      <4>3. p \in BOOLEAN
        BY Zenon
      <4>4. s \in {"online", "disabled"}
        BY Zenon, <4>1 DEF Device
      <4> HIDE DEF p, s
      <4>5. device'[a] \in Device /\ device'[a].token = device[a].token
        BY Zenon, <4>1, <4>2, <4>3, <4>4 DEF Device
      <4> QED BY Zenon, <3>2, <4>5 DEF TypeOK, Sensible
    <3> QED BY Zenon, <3>1, <3>2
  <2> QED BY Zenon, <2>1, <2>2, UsesKept DEF UsesInv, SameUses, SameEnrolment
<1>18. CASE OffboardingRollsBack
  BY Zenon, <1>18, UsesKept DEF UsesInv, OffboardingRollsBack, SameUses, SameEnrolment, TypeOK, Token, tenant, offboarding
<1>19. CASE ApproveDeletion
  BY Zenon, <1>19, UsesKept DEF UsesInv, ApproveDeletion, SameUses, SameEnrolment, TypeOK, Token, tenant, offboarding
<1>20. CASE Tick
  BY Zenon, <1>20, UsesKept DEF UsesInv, Tick, SameUses, SameEnrolment, TypeOK, Token, tenant, offboarding
<1>21. CASE UNCHANGED vars
  BY Zenon, <1>21, UsesKept DEF UsesInv, vars, SameUses, SameEnrolment
<1> QED
  BY Zenon, <1>1, <1>2, <1>3, <1>4, <1>5, <1>6, <1>7, <1>8, <1>9, <1>10, <1>11,
     <1>12, <1>13, <1>14, <1>15, <1>16, <1>17, <1>18, <1>19, <1>20, <1>21 DEF Next

LEMMA OffboardingStep == OffboardingInv /\ [Next]_vars => OffboardingInv'
  BY Zenon, TypeStep, HeldStep, SweepStep, RetentionStep, UsesStep DEF OffboardingInv

LEMMA OffboardingInit == Sensible /\ Init => OffboardingInv
<1> SUFFICES ASSUME Sensible, Init PROVE OffboardingInv
  BY Zenon
<1>1. TypeOK
  BY DEF Init, TypeOK, Sensible, Idle, NoRecord, Token, Devices
<1>2. HeldTokens /\ SweepIsComplete
  BY Zenon DEF Init, HeldTokens, SweepIsComplete, Idle
<1>3. RetentionInv
  BY DEF Init, RetentionInv, Idle, NoRecord
<1>4. UsesInv
  <2>1. \A t \in Tokens : EnrolledBy(t) = {} /\ tokens[t].uses = 0
    BY Zenon DEF Init, EnrolledBy
  <2> QED BY Zenon, <2>1, Counting DEF UsesInv
<1> QED BY Zenon, <1>1, <1>2, <1>3, <1>4 DEF OffboardingInv

LEMMA OffboardingInvariance == Sensible => (Spec => []OffboardingInv)
  BY OffboardingInit, OffboardingStep, PTL DEF Spec

(* Whatever the moment an agent chose to register (handleAgentRegister), a    *)
(* device enrolled by a token an offboarding revoked is without approval from *)
(* the commit of handleOffboardMSP on.                                        *)
THEOREM AgentsAreCutOff == Sensible => (Spec => []NoAgentOutlivesOffboarding)
<1>1. OffboardingInv => NoAgentOutlivesOffboarding
  <2> SUFFICES ASSUME OffboardingInv, NEW a \in Devices, tokens[device[a].token].swept
               PROVE  ~device[a].approved
    BY Zenon DEF NoAgentOutlivesOffboarding
  <2>1. a \in Agents /\ device[a] # None /\ device[a] \in Device
    BY Zenon DEF OffboardingInv, TypeOK, Devices
  <2>2. tokens[device[a].token] \in Token
    BY Zenon, <2>1 DEF OffboardingInv, TypeOK, Device
  <2>3. tokens[device[a].token].swept = TRUE
    BY Zenon, <2>2 DEF Token
  <2>4. device[a].approved = FALSE
    BY Zenon, <2>1, <2>3 DEF OffboardingInv, SweepIsComplete
  <2> QED BY Zenon, <2>4
<1> QED BY <1>1, OffboardingInvariance, PTL

(* A token is used once for every device that exists because of it and never  *)
(* beyond its limit: handleAgentRegister takes the use and inserts the device *)
(* in one transaction, under the lock of the token's row.                     *)
THEOREM TokenUsesAreDevices == Sensible => (Spec => []UsesAreDevices)
<1>1. OffboardingInv => UsesAreDevices
  <2>1. \A t \in Tokens : EnrolledBy(t) = {a \in Devices : device[a].token = t}
    BY Zenon DEF EnrolledBy, Devices
  <2>2. OffboardingInv => \A t \in Tokens : tokens[t].uses <= MaxUses
    BY DEF OffboardingInv, TypeOK, Token, Sensible
  <2> QED BY Zenon, <2>1, <2>2 DEF OffboardingInv, UsesInv, UsesAreDevices
<1> QED BY <1>1, OffboardingInvariance, PTL

(* No order of offboardings with shorter and longer periods lets              *)
(* handleApproveMSPDeletion approve before the latest end that was promised.  *)
THEOREM RetentionIsKept == Sensible => (Spec => []RetentionIsHonoured)
<1>1. OffboardingInv => RetentionIsHonoured
  BY DEF OffboardingInv, RetentionInv, RetentionIsHonoured, TypeOK, Sensible
<1> QED BY <1>1, OffboardingInvariance, PTL
=============================================================================
