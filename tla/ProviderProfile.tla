-------------------------- MODULE ProviderProfile --------------------------
(* The provider's business profile, the single row of table platforms: the    *)
(* one-time setup and the partial updates after it.  Both lock the row with   *)
(* SELECT ... FOR UPDATE in the request's transaction, so a patch is merged   *)
(* into the values that it replaces; the audit row is written in the same     *)
(* transaction.  A client that lost the answer sends the setup again.         *)
(*                                                                            *)
(* A profile has one required and one optional field, with values that stand  *)
(* for what normalisation does: "x" and "y" are in normal form, "X" is        *)
(* written differently but normalises to "x", "bad" is rejected.              *)
EXTENDS Naturals, Sequences

CONSTANTS Requests,
          Bodies,    \* the setup bodies clients send: field |-> value
          Patches    \* the patches they send: some fields |-> value

Fields == {"required", "optional"}
Values == {"", "x", "y", "X", "bad"}
Sensible ==
    /\ Bodies \subseteq [Fields -> Values]
    /\ Patches \subseteq UNION {[D -> Values] : D \in SUBSET Fields}

VARIABLES row,     \* the values of the profile
          setup,   \* setup_completed_at and setup_contract_version: complete or not
          audit,   \* control_plane_audit: [action, changed], and the body sent
          req      \* request |-> the state of its transaction

vars == <<row, setup, audit, req>>

Blank == [f \in Fields |-> ""]
Idle == [at |-> "idle", kind |-> "setup", body |-> Blank, values |-> Blank, status |-> 0, sent |-> 1]

(* normalizeProfileText and its like: trim, fold the case, reject.            *)
NormalValue(v) == IF v = "X" THEN "x" ELSE v

(* normalizeProviderProfile, field by field.                                  *)
NormalizeProviderProfile(values) == [f \in Fields |-> NormalValue(values[f])]
Normalizes(values) ==
    /\ \A f \in Fields : values[f] # "bad"
    /\ values["required"] # ""

(* patch.apply: the fields present in the patch replace the current ones.     *)
Apply(patch, values) == [f \in Fields |-> IF f \in DOMAIN patch THEN patch[f] ELSE values[f]]

(* changedProviderFields.                                                     *)
ChangedProviderFields(before, after) == {f \in Fields : before[f] # after[f]}

Init ==
    /\ row = Blank
    /\ setup = FALSE
    /\ audit = <<>>
    /\ req = [r \in Requests |-> Idle]

(* authorizeProviderProfile (module AccessControl), decodeStrictJSON and the  *)
(* refusal of an empty patch.                                                 *)
Begin(r, kind, body) ==
    /\ req[r].at = "idle"
    /\ req' = [req EXCEPT ![r] = [Idle EXCEPT !.at = "begun", !.kind = kind, !.body = body]]
    /\ UNCHANGED <<row, setup, audit>>

LockHeld == \E r \in Requests : req[r].at = "locked"

(* LockProviderBusinessProfile and getProviderBusinessProfile(lock = true):   *)
(* wait for the row, then read it.  An incomplete or invalid result is        *)
(* answered 400 and the transaction rolls back.  A setup is normalised before *)
(* it locks, a patch after it is merged.                                      *)
Merged(q) == IF q.kind = "setup" THEN q.body ELSE Apply(q.body, row)

Answered(q, status) == [q EXCEPT !.at = "answered", !.values = Blank, !.status = status]
Answer(r, status) == req' = [req EXCEPT ![r] = Answered(req[r], status)]

(* Faulty: the read that the patch is merged into does not lock the row.      *)
LockNothing(r) ==
    LET q == req[r] IN
    /\ q.at = "begun"
    /\ IF Normalizes(Merged(q))
       THEN req' = [req EXCEPT ![r] = [q EXCEPT !.at = "locked", !.values = NormalizeProviderProfile(Merged(q))]]
       ELSE Answer(r, 400)
    /\ UNCHANGED <<row, setup, audit>>

Lock(r) ==
    LET q == req[r] IN
    /\ q.at = "begun"
    /\ ~ LockHeld \/ (q.kind = "setup" /\ ~ Normalizes(q.body))
    /\ IF Normalizes(Merged(q))
       THEN req' = [req EXCEPT ![r] = [q EXCEPT !.at = "locked", !.values = NormalizeProviderProfile(Merged(q))]]
       ELSE Answer(r, 400)
    /\ UNCHANGED <<row, setup, audit>>

(* insertProviderAudit.                                                       *)
Audited(action, changed, body) ==
    audit' = Append(audit, [action |-> action, changed |-> changed, body |-> body])

(* CompleteProviderSetup and the commit: the same values again are answered   *)
(* 200, other values 409.                                                     *)
CompleteProviderSetup(r) ==
    LET q == req[r] IN
    /\ q.at = "locked" /\ q.kind = "setup"
    /\ IF setup
       THEN /\ Answer(r, IF row = q.values THEN 200 ELSE 409)
            /\ UNCHANGED <<row, setup, audit>>
       ELSE /\ row' = q.values /\ setup' = TRUE
            /\ Audited("provider.setup_completed", Fields, q.values)
            /\ Answer(r, 201)

(* UpdateProviderBusinessProfile and the commit.                              *)
UpdateProviderBusinessProfile(r) ==
    LET q == req[r]
        changed == ChangedProviderFields(row, q.values) IN
    /\ q.at = "locked" /\ q.kind = "patch"
    /\ IF setup /\ changed # {}
       THEN /\ row' = q.values
            /\ Audited("provider.profile_updated", changed, q.body)
       ELSE UNCHANGED <<row, audit>>
    /\ Answer(r, IF setup THEN 200 ELSE 409)
    /\ UNCHANGED setup

(* The request is cancelled or its commit fails: the transaction rolls back.  *)
RollBack(r) ==
    /\ req[r].at \in {"begun", "locked"}
    /\ Answer(r, 500)
    /\ UNCHANGED <<row, setup, audit>>

(* The client saw no answer and sends the same body again, once.              *)
SendAgain(r) ==
    /\ req[r].at = "answered" /\ req[r].status \in {200, 201, 500} /\ req[r].sent = 1
    /\ req' = [req EXCEPT ![r] = [req[r] EXCEPT !.at = "begun", !.status = 0, !.sent = 2]]
    /\ UNCHANGED <<row, setup, audit>>

Next ==
    \E r \in Requests :
        \/ \E b \in Bodies : Begin(r, "setup", b)
        \/ \E p \in Patches : Begin(r, "patch", p)
        \/ Lock(r) \/ CompleteProviderSetup(r) \/ UpdateProviderBusinessProfile(r)
        \/ RollBack(r) \/ SendAgain(r)

Spec == Init /\ [][Next]_vars

Contents == Bodies \cup Patches \cup {Blank}
Profiles == [Fields -> Values]
Statuses == {0, 200, 201, 400, 409, 500}
Request ==
    [at : {"idle", "begun", "locked", "answered"}, kind : {"setup", "patch"},
     body : Contents, values : Profiles, status : Statuses, sent : {1, 2}]
Entry ==
    [action : {"provider.setup_completed", "provider.profile_updated"}, changed : SUBSET Fields,
     body : Patches \cup [Fields -> Values]]

TypeOK ==
    /\ row \in [Fields -> Values]
    /\ setup \in BOOLEAN
    /\ audit \in Seq(Entry)
    /\ req \in [Requests -> Request]

(* The audit trail explains the profile: each field has the value that the    *)
(* last entry naming it sent, so no patch overwrites a field it did not name; *)
(* setup is recorded once and first; and what is stored is in normal form,    *)
(* which is what makes a repeated setup recognisable                          *)
(* (handleUpdateProviderProfile, CompleteProviderSetup).                      *)
Names(i, f) == f \in DOMAIN audit[i].body
Explained(f) ==
    IF \A i \in DOMAIN audit : ~ Names(i, f)
    THEN row[f] = ""
    ELSE \E i \in DOMAIN audit :
            /\ Names(i, f) /\ row[f] = NormalValue(audit[i].body[f])
            /\ \A j \in DOMAIN audit : Names(j, f) => j <= i

ProfileIsAudited ==
    /\ \A f \in Fields : Explained(f)
    /\ \A i \in DOMAIN audit : audit[i].action = "provider.setup_completed" <=> i = 1
    /\ row = NormalizeProviderProfile(row)

(* Why it holds: one transaction at a time has the row locked, and the values *)
(* it is about to write were merged into what the row still holds; there is   *)
(* no profile and no entry before the setup.                                  *)
BodyFits(q) == q.at # "idle" => q.body \in (IF q.kind = "setup" THEN Bodies ELSE Patches)
IsMerged(q) == q.at = "locked" => q.values = NormalizeProviderProfile(Merged(q))

ProfileInv ==
    /\ TypeOK
    /\ ProfileIsAudited
    /\ setup = FALSE <=> audit = <<>>
    /\ \A r \in Requests : BodyFits(req[r]) /\ IsMerged(req[r])
    /\ \A r, o \in Requests : req[r].at = "locked" /\ req[o].at = "locked" => r = o
=============================================================================
