----------------------------- MODULE JobOutcomes -----------------------------
(***************************************************************************)
(* What the durable job system promises whoever created a job, without the *)
(* outbox, the leases, the replicas and the redelivery that keep it: the   *)
(* agent of a target is commanded a bounded number of times, a target ends *)
(* at most once, in success only when a commanded agent showed it, and     *)
(* only an operator's retry opens it again.  JobDispatch implements this.  *)
(***************************************************************************)
EXTENDS Naturals

CONSTANTS
    Targets,
    MaxRetries,          \* jobs.max_retries
    MaxOperatorRetries   \* bound on an operator's retries

VARIABLES
    outcome,   \* of each target: "open", or how it ended
    sent,      \* of each target: the attempts its agent was commanded
    proven,    \* targets whose agent showed success
    reopened   \* an operator's retries so far

vars == <<outcome, sent, proven, reopened>>

Init ==
    /\ outcome = [t \in Targets |-> "open"]
    /\ sent = [t \in Targets |-> {}]
    /\ proven = {} /\ reopened = 0

Command(t) ==
    /\ \E a \in 1 .. MaxRetries + 1 : sent' = [sent EXCEPT ![t] = @ \cup {a}]
    /\ UNCHANGED <<outcome, proven, reopened>>

\* The agent reports success; whether the target is still open is another matter.
Report(t) ==
    /\ sent[t] # {}
    /\ proven' = proven \cup {t}
    /\ UNCHANGED <<outcome, sent, reopened>>

\* One statement ends some targets, all in the same way.
Settle(hit, how) ==
    /\ \A t \in hit : outcome[t] = "open"
    /\ how = "succeeded" => hit \subseteq proven
    /\ outcome' = [t \in Targets |-> IF t \in hit THEN how ELSE outcome[t]]
    /\ UNCHANGED <<sent, proven, reopened>>

\* What the agent delivers is the proof and the end at once.
Deliver(t) ==
    /\ sent[t] # {} /\ outcome[t] = "open"
    /\ proven' = proven \cup {t}
    /\ outcome' = [outcome EXCEPT ![t] = "succeeded"]
    /\ UNCHANGED <<sent, reopened>>

Reopen(hit) ==
    /\ \A t \in hit : outcome[t] \in {"failed", "expired"}
    /\ reopened < MaxOperatorRetries
    /\ reopened' = reopened + 1
    /\ outcome' = [t \in Targets |-> IF t \in hit THEN "open" ELSE outcome[t]]
    /\ UNCHANGED <<sent, proven>>

Next ==
    \/ \E t \in Targets : Command(t) \/ Report(t) \/ Deliver(t)
    \/ \E hit \in SUBSET Targets :
          \/ \E how \in {"succeeded", "failed", "cancelled", "expired"} : Settle(hit, how)
          \/ Reopen(hit)

Spec == Init /\ [][Next]_vars
==============================================================================
