------------------------------- MODULE Policies -------------------------------
(***************************************************************************)
(* Configuration policies of an MSP: a draft is validated, previewed and   *)
(* published; publishing writes a revision, and a rollback turns an older  *)
(* revision into a new draft.  A device's configuration is the merge of    *)
(* the published policies from the MSP's down to its own.                  *)
(*                                                                         *)
(* Every handler loads the policy with one statement and writes it with a  *)
(* later one; other requests may commit in between.  What they changed is  *)
(* only seen by the conditions in the WHERE clause of the write.           *)
(***************************************************************************)
EXTENDS Naturals, FiniteSets, SequencesExt

CONSTANTS Rows,        \* ids of policy rows, 1 .. n in the order ORDER BY id gives them
          Requests,    \* requests in progress
          Configs,     \* configurations: functions from some keys to values
          Scopes,      \* levels in use, a subset of DOMAIN ScopeRank
          MaxVersion,  \* bound on versions
          MaxCreated,  \* bound on policies created other than by a rollback
          None

VARIABLES policy,      \* the rows of policies
          revisions,   \* the rows of policy_revisions
          req,         \* the requests
          created      \* rows created so far

vars == <<policy, revisions, req, created>>

ScopeRank == [msp |-> 1, client |-> 2, site |-> 3, device |-> 4]

Idle == [op |-> "idle", row |-> None, read |-> None]

Init ==
    /\ policy = [p \in Rows |-> None] /\ revisions = {}
    /\ req = [r \in Requests |-> Idle] /\ created = 0

Exists(p) == policy[p] # None

\* The next new row: ids are never used again.
NewRow(p) == p = created + 1 /\ created' = p

Draft(scope, version, config, published) ==
    [status |-> "draft", scope |-> scope, version |-> version, config |-> config,
     validated |-> FALSE, previewed |-> FALSE, pubVersion |-> None, pubConfig |-> published]

-----------------------------------------------------------------------------
\* The configuration of the device below every level in use.

\* loadPolicyLayers: published policies and the one at hand, which shows its draft.
Layers(p) ==
    LET in == {q \in Rows : Exists(q) /\ policy[q].status # "archived"
                              /\ (policy[q].pubVersion # None \/ q = p)} IN
    SetToSortSeq(in, LAMBDA a, b :
        \/ ScopeRank[policy[a].scope] < ScopeRank[policy[b].scope]
        \/ policy[a].scope = policy[b].scope /\ a < b)

LayerConfig(p, q) == IF q = p THEN policy[q].config ELSE policy[q].pubConfig

\* Faulty: a key that is already set is kept.
MergeKeeping(low, high) ==
    [k \in DOMAIN low \cup DOMAIN high |-> IF k \in DOMAIN low THEN low[k] ELSE high[k]]

\* mergePolicyMap: what the later layer sets replaces what it found.
MergePolicyMap(low, high) ==
    [k \in DOMAIN low \cup DOMAIN high |-> IF k \in DOMAIN high THEN high[k] ELSE low[k]]

EffectiveConfig(p) ==
    FoldLeft(LAMBDA low, q : MergePolicyMap(low, LayerConfig(p, q)), <<>>, Layers(p))

-----------------------------------------------------------------------------

CreatePolicy(p, scope, config) ==
    /\ created < MaxCreated /\ NewRow(p)
    /\ policy' = [policy EXCEPT ![p] = Draft(scope, 1, config, None)]
    /\ UNCHANGED <<revisions, req>>

\* What a handler asks of the row it loads.
Permits(op, row) ==
    CASE op = "update"   -> row.status # "archived"
      [] op = "validate" -> row.status = "draft"
      [] op = "preview"  -> row.status = "draft" /\ row.validated
      [] op = "publish"  -> row.status = "draft" /\ row.validated /\ row.previewed
      [] op = "rollback" -> row.status = "active"
      [] OTHER           -> TRUE

Operations == {"update", "validate", "preview", "publish", "rollback", "delete"}

\* What it keeps of that row for its write.
Kept(op, row) ==
    CASE op = "publish"  -> [version |-> row.version, config |-> row.config]
      [] op = "rollback" -> [version |-> row.version, scope |-> row.scope]
      [] op = "delete"   -> [published |-> row.pubVersion # None]
      [] OTHER           -> None

LoadPolicy(r, op, p) ==
    /\ req[r] = Idle /\ Exists(p) /\ Permits(op, policy[p])
    /\ req' = [req EXCEPT ![r] = [op |-> op, row |-> p, read |-> Kept(op, policy[p])]]
    /\ UNCHANGED <<policy, revisions, created>>

\* r, in operation op, comes to its write; the row may be gone by now.
Writes(r, op) == req[r].op = op /\ req' = [req EXCEPT ![r] = Idle]

\* UPDATE ... WHERE id: no row, no effect.
SetRow(p, row) == policy' = IF ~ Exists(p) THEN policy ELSE [policy EXCEPT ![p] = row]

UpdatePolicy(r, scope, config) ==
    LET p == req[r].row IN
    /\ Writes(r, "update") /\ (Exists(p) => policy[p].version < MaxVersion)
    /\ SetRow(p, [policy[p] EXCEPT !.status = "draft", !.version = @ + 1, !.scope = scope,
                                   !.config = config, !.validated = FALSE, !.previewed = FALSE])
    /\ UNCHANGED <<revisions, created>>

ValidatePolicy(r) ==
    /\ Writes(r, "validate")
    /\ SetRow(req[r].row, [policy[req[r].row] EXCEPT !.validated = TRUE, !.previewed = FALSE])
    /\ UNCHANGED <<revisions, created>>

PreviewPolicy(r) ==
    /\ Writes(r, "preview")
    /\ SetRow(req[r].row, [policy[req[r].row] EXCEPT !.previewed = TRUE])
    /\ UNCHANGED <<revisions, created>>

Revision(p, version, config) == [policy |-> p, version |-> version, config |-> config]

\* UNIQUE (policy_id, version): the insert fails and the request is rolled back.
Taken(p, version) == \E v \in revisions : v.policy = p /\ v.version = version

\* Faulty: publishes whatever version the row has by now.
ActivatesAnyVersion(p, read) == Exists(p) /\ policy[p].status = "draft"

Activates(p, read) == Exists(p) /\ policy[p].status = "draft" /\ policy[p].version = read.version

\* The row is activated with the configuration it has now, the revision is written
\* with the one that was read.
PublishPolicy(r) ==
    LET p == req[r].row  read == req[r].read IN
    /\ Writes(r, "publish")
    /\ IF Activates(p, read) /\ ~ Taken(p, read.version)
       THEN /\ policy' = [policy EXCEPT ![p].status = "active", ![p].pubVersion = policy[p].version,
                                        ![p].pubConfig = policy[p].config]
            /\ revisions' = revisions \cup {Revision(p, read.version, read.config)}
       ELSE UNCHANGED <<policy, revisions>>
    /\ UNCHANGED created

\* Archives the policy if it is still active, adds a draft in row n and a revision of
\* the archived policy.  The draft's scope columns get '' for an absent id, which is
\* no UUID: only a device's policy, which has all three, is ever rolled back.
RollbackPolicy(r, n, v) ==
    LET p == req[r].row  read == req[r].read IN
    /\ Writes(r, "rollback") /\ read.version < MaxVersion
    /\ v \in revisions /\ v.policy = p /\ v.version < read.version
    /\ IF read.scope = "device" /\ Exists(p) /\ ~ Taken(p, read.version + 1)
       THEN /\ NewRow(n)
            /\ policy' = [policy EXCEPT
                  ![p].status = IF @ = "active" THEN "archived" ELSE @,
                  ![n] = Draft(read.scope, read.version + 1, v.config, v.config)]
            /\ revisions' = revisions \cup {Revision(p, read.version + 1, v.config)}
       ELSE UNCHANGED <<policy, revisions, created>>

\* A policy that was ever published is archived, any other deleted with its revisions.
DeletePolicy(r) ==
    LET p == req[r].row IN
    /\ Writes(r, "delete")
    /\ IF req[r].read.published
       THEN SetRow(p, [policy[p] EXCEPT !.status = "archived"]) /\ UNCHANGED revisions
       ELSE /\ policy' = [policy EXCEPT ![p] = None]
            /\ revisions' = {v \in revisions : v.policy # p}
    /\ UNCHANGED created

\* The request is refused for another reason (scope, target, connection).
Refuse(r) ==
    /\ req[r] # Idle /\ req' = [req EXCEPT ![r] = Idle]
    /\ UNCHANGED <<policy, revisions, created>>

-----------------------------------------------------------------------------

Next ==
    \/ \E p \in Rows, s \in Scopes, c \in Configs : CreatePolicy(p, s, c)
    \/ \E r \in Requests :
          \/ \E op \in Operations, p \in Rows : LoadPolicy(r, op, p)
          \/ \E s \in Scopes, c \in Configs : UpdatePolicy(r, s, c)
          \/ ValidatePolicy(r) \/ PreviewPolicy(r) \/ PublishPolicy(r)
          \/ \E n \in Rows, v \in revisions : RollbackPolicy(r, n, v)
          \/ DeletePolicy(r) \/ Refuse(r)

Spec == Init /\ [][Next]_vars

TypeOK ==
    /\ created \in {0} \cup Rows
    /\ \A p \in Rows : Exists(p) =>
        /\ policy[p].status \in {"draft", "active", "archived"} /\ policy[p].scope \in Scopes
        /\ policy[p].version \in 1 .. MaxVersion /\ policy[p].config \in Configs
        /\ policy[p].pubVersion \in 1 .. MaxVersion \cup {None}
        /\ policy[p].pubConfig \in Configs \cup {None}

-----------------------------------------------------------------------------

\* What is in force is what the history says: however updates, publications and
\* rollbacks of a policy interleave, its published version has exactly one revision,
\* and that revision holds the configuration devices are given.
HistoryIsTrue ==
    \A p \in Rows : Exists(p) /\ policy[p].pubVersion # None =>
        /\ Revision(p, policy[p].pubVersion, policy[p].pubConfig) \in revisions
        /\ \A v \in revisions : v.policy = p /\ v.version = policy[p].pubVersion =>
               v.config = policy[p].pubConfig

\* The most specific policy wins, key by key, in what a preview shows.
MostSpecificWins ==
    \A p \in {q \in Rows : Exists(q) /\ policy[q].status = "draft"} :
        LET seq == Layers(p)  eff == EffectiveConfig(p) IN
        /\ DOMAIN eff = UNION {DOMAIN LayerConfig(p, q) : q \in Range(seq)}
        /\ \A q \in Range(seq) : \A k \in DOMAIN LayerConfig(p, q) :
              (\A o \in Range(seq) \ {q} : k \in DOMAIN LayerConfig(p, o) =>
                   ScopeRank[policy[o].scope] < ScopeRank[policy[q].scope])
              => eff[k] = LayerConfig(p, q)[k]

=============================================================================
