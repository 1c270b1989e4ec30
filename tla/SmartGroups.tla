------------------------------ MODULE SmartGroups ------------------------------
(***************************************************************************)
(* A smart group: the devices of a client that match a filter expression.  *)
(* An evaluation reads the filter, reads the devices, and replaces the     *)
(* membership rows in a transaction.  Evaluations are started by requests  *)
(* in goroutines of their own and take no lock: a DELETE only removes the  *)
(* rows committed before it began.                                         *)
(***************************************************************************)
EXTENDS Naturals, Sequences, FiniteSets

CONSTANTS Devices,      \* the client's devices
          Attributes,   \* what a device's row may hold: os, cores, heartbeat
          Expressions,  \* filter expressions in use
          Evals,        \* evaluations that may run at the same time
          MaxChanges,   \* bound on changes to the group and to devices
          None

VARIABLES group,     \* the row of device_groups
          members,   \* the rows of group_memberships
          bound,     \* is a script schedule bound to the group?
          device,    \* attributes of each device
          eval,      \* the evaluations
          changes

vars == <<group, members, bound, device, eval, changes>>

-----------------------------------------------------------------------------
\* The filter language.  An expression has a condition, a sequence of filters and a
\* nested expression or None; a filter is [field, op, value].

\* IsSmartGroup
Smart(expr) == expr # None /\ (expr.filters # <<>> \/ expr.nested # None)

\* evaluateFilter: "yes", "no", or "error", which ends the evaluation of the device.
\* A number compares only if neither side is 0.
\* A device that never sent a heartbeat has a nil *time.Time, which is not nil once
\* it is in an interface.
EvaluateFilter(f, d) ==
    LET is(p) == IF p THEN "yes" ELSE "no" IN
    CASE f.op = "is_null"  -> "no"
      [] f.op = "not_null" -> "yes"
      [] f.op = "eq"       -> is(d[f.field] = f.value)
      [] f.op = "neq"      -> is(d[f.field] # f.value)
      [] f.op \in {"gt", "lt"} ->
            IF d[f.field] = 0 \/ f.value = 0 THEN "error"
            ELSE is(IF f.op = "gt" THEN d[f.field] > f.value ELSE d[f.field] < f.value)

Results(e, d) == [i \in 1 .. Len(e.filters) |-> EvaluateFilter(e.filters[i], d)]

\* The first filter that does not say pass decides; pass if there is none.
FirstOther(results, pass) ==
    LET other == {i \in DOMAIN results : results[i] # pass} IN
    IF other = {} THEN pass ELSE results[CHOOSE i \in other : \A j \in other : i <= j]

\* evaluateAnd takes every expression below it as a conjunction too.
RECURSIVE EvaluateAnd(_, _)
EvaluateAnd(e, d) ==
    /\ FirstOther(Results(e, d), "yes") = "yes"
    /\ e.nested = None \/ EvaluateAnd(e.nested, d)

RECURSIVE EvaluateOr(_, _)
EvaluateOr(e, d) ==
    LET first == FirstOther(Results(e, d), "no") IN
    IF first # "no" THEN first = "yes"
    ELSE /\ e.nested # None
         /\ IF e.nested.condition = "AND" THEN EvaluateAnd(e.nested, d) ELSE EvaluateOr(e.nested, d)

Evaluate(e, d) == IF e.condition = "AND" THEN EvaluateAnd(e, d) ELSE EvaluateOr(e, d)

-----------------------------------------------------------------------------

Idle == [pc |-> "idle", filter |-> None, seen |-> None, snap |-> {}, alone |-> FALSE]

Init ==
    /\ \E x \in Expressions : group = [smart |-> Smart(x), filter |-> x, count |-> 0]
    /\ members = {} /\ bound = FALSE
    /\ device \in [Devices -> Attributes]
    /\ eval = [e \in Evals |-> Idle] /\ changes = 0

\* handleUpdateDeviceGroup: another filter, or a static group of n device ids, which
\* are kept apart.  Membership rows stay.
UpdateDeviceGroup(x, n) ==
    /\ group # None /\ changes < MaxChanges /\ changes' = changes + 1
    /\ group' = [smart |-> Smart(x), filter |-> x, count |-> IF Smart(x) THEN 0 ELSE n]
    /\ UNCHANGED <<members, bound, device, eval>>

\* The rows of memberships and bindings go with the group.
DeleteDeviceGroup ==
    /\ group # None /\ changes < MaxChanges /\ changes' = changes + 1
    /\ \A e \in Evals : eval[e].pc # "writing"
    /\ group' = None /\ members' = {} /\ bound' = FALSE
    /\ UNCHANGED <<device, eval>>

ChangeDevice(d, a) ==
    /\ changes < MaxChanges /\ changes' = changes + 1
    /\ device' = [device EXCEPT ![d] = a]
    /\ UNCHANGED <<group, members, bound, eval>>

TriggerEvaluate(e) ==
    /\ eval[e] = Idle /\ group # None /\ group.smart
    /\ eval' = [eval EXCEPT ![e].pc = "started"]
    /\ UNCHANGED <<group, members, bound, device, changes>>

\* The group may be gone, which ends the evaluation, or be static by now.
ReadGroup(e) ==
    /\ eval[e].pc = "started"
    /\ eval' = [eval EXCEPT ![e] = IF group = None THEN Idle
                                   ELSE [@ EXCEPT !.pc = "filter", !.filter = group.filter]]
    /\ UNCHANGED <<group, members, bound, device, changes>>

ReadDevices(e) ==
    /\ eval[e].pc = "filter"
    /\ eval' = [eval EXCEPT ![e].pc = "devices", ![e].seen = device]
    /\ UNCHANGED <<group, members, bound, device, changes>>

Writing == {e \in Evals : eval[e].pc = "writing"}

\* The DELETE sees the rows committed by now.
DeleteMembers(e) ==
    /\ eval[e].pc = "devices"
    /\ eval' = [o \in Evals |->
          IF o = e THEN [eval[e] EXCEPT !.pc = "writing", !.snap = members, !.alone = Writing = {}]
          ELSE IF o \in Writing THEN [eval[o] EXCEPT !.alone = FALSE] ELSE eval[o]]
    /\ UNCHANGED <<group, members, bound, device, changes>>

\* Without a filter the expression is not valid, and matches nothing.
Matched(e) ==
    IF eval[e].filter = None THEN {}
    ELSE {d \in Devices : Evaluate(eval[e].filter, eval[e].seen[d])}

\* Faulty: rows of devices that no longer match stay.
ReplaceAdding(e) == members \cup Matched(e)

Replace(e) == (members \ eval[e].snap) \cup Matched(e)

\* Faulty: the members are added to the old count.
MemberCountAdds(e) == group.count + Cardinality(Matched(e))

MemberCount(e) == Cardinality(Matched(e))

\* A row of a group that is gone cannot be inserted.
CommitMembers(e) ==
    /\ eval[e].pc = "writing"
    /\ IF group = None THEN UNCHANGED <<group, members>>
       ELSE /\ members' = Replace(e)
            /\ group' = [group EXCEPT !.count = MemberCount(e)]
    /\ eval' = [eval EXCEPT ![e] = Idle]
    /\ UNCHANGED <<bound, device, changes>>

\* A statement fails: nothing of the evaluation is kept.
FailEvaluation(e) ==
    /\ eval[e] # Idle
    /\ eval' = [eval EXCEPT ![e] = Idle]
    /\ UNCHANGED <<group, members, bound, device, changes>>

BindScript ==
    /\ group # None /\ group.smart /\ group.count > 0 /\ ~ bound
    /\ bound' = TRUE
    /\ UNCHANGED <<group, members, device, eval, changes>>

UnbindScript ==
    /\ bound /\ bound' = FALSE
    /\ UNCHANGED <<group, members, device, eval, changes>>

-----------------------------------------------------------------------------

Next ==
    \/ \E x \in Expressions \cup {None}, n \in 0 .. Cardinality(Devices) : UpdateDeviceGroup(x, n)
    \/ DeleteDeviceGroup \/ BindScript \/ UnbindScript
    \/ \E d \in Devices, a \in Attributes : ChangeDevice(d, a)
    \/ \E e \in Evals : \/ TriggerEvaluate(e) \/ ReadGroup(e) \/ ReadDevices(e)
                        \/ DeleteMembers(e) \/ CommitMembers(e) \/ FailEvaluation(e)

Spec == Init /\ [][Next]_vars

TypeOK ==
    /\ members \subseteq Devices /\ device \in [Devices -> Attributes] /\ bound \in BOOLEAN
    /\ group # None => group.count \in 0 .. Cardinality(Devices)
    /\ changes \in 0 .. MaxChanges

-----------------------------------------------------------------------------

\* What a filter says on the face of it.
Says(f, d) ==
    CASE f.op = "is_null"  -> d[f.field] = "never"
      [] f.op = "not_null" -> d[f.field] # "never"
      [] f.op = "eq"       -> d[f.field] = f.value
      [] f.op = "neq"      -> d[f.field] # f.value
      [] f.op = "gt"       -> d[f.field] > f.value
      [] f.op = "lt"       -> d[f.field] < f.value

\* What an expression says: each level under its own condition.
RECURSIVE Meaning(_, _)
Meaning(e, d) ==
    LET parts == {Says(e.filters[i], d) : i \in DOMAIN e.filters}
                 \cup (IF e.nested = None THEN {} ELSE {Meaning(e.nested, d)}) IN
    IF e.condition = "AND" THEN parts \subseteq {TRUE} ELSE TRUE \in parts

\* An evaluation that wrote while no other did leaves only devices that the filter
\* it read admits, and the count of them.
FalseMember ==
    \E e \in Evals : /\ eval[e].pc = "writing" /\ eval[e].alone /\ eval'[e] = Idle
                     /\ members' # members \/ group' # group
                     /\ group' # None
                     /\ \/ \E d \in members' : eval[e].filter = None \/ ~ Meaning(eval[e].filter, eval[e].seen[d])
                        \/ group'.count # Cardinality(members')
=============================================================================
