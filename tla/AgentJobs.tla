------------------------------- MODULE AgentJobs -------------------------------
(***************************************************************************)
(* The agent's side of the durable job system: the JobDispatcher and the   *)
(* bbolt receipt ledger (internal/agent/jobs: handler.go, ledger.go).      *)
(*                                                                         *)
(* A command is an event <<target, attempt>>; the stream may hold several  *)
(* copies of it, since the orchestrator publishes again what it could not  *)
(* finalise.  Every delivery runs in a goroutine of its own.  A ledger     *)
(* operation is one bbolt transaction and one step here; so is a critical  *)
(* section of the dispatcher's mutex.                                      *)
(*                                                                         *)
(* The orchestrator is the environment: it publishes commands, sends the   *)
(* receipt of a result it got, and cancels targets.  JetStream delivers a  *)
(* message again until it is acknowledged; core NATS loses and delays.     *)
(***************************************************************************)
EXTENDS Integers, FiniteSets

CONSTANTS
    Targets,      \* the job targets on this agent's device
    MaxAttempt,   \* attempts per target
    Copies,       \* copies of a command in the stream
    Threads,      \* goroutines of handleDurableCommand
    Timed,        \* targets whose commands carry expires_at
    MaxFaults,    \* bound on ends of the process and failed ledger transactions
    None          \* no entry, no message

ASSUME AttemptAssumption == MaxAttempt \in Nat \ {0}
ASSUME FaultAssumption == MaxFaults \in Nat
ASSUME NoneAssumption == None \notin Threads /\ None \notin Targets

Events == Targets \X (1 .. MaxAttempt)
Messages == Events \X Copies
Keys == Events \cup Targets

Outcomes == {"succeeded", "failed", "cancelled", "expired"}

VARIABLES
    led,        \* the receipt of each event
    th,         \* the goroutines
    cancelKeys, \* the cancels map
    cx,         \* target whose cancellation is between cancel() and MarkCancelled
    msg,        \* the command stream and its durable consumer
    up,         \* the agent process
    published,  \* results sent, perhaps in vain, as <<event, status>>
    late,       \* events whose expires_at has passed
    execs,      \* how often the handler was started for an event
    interrupted,\* events whose execution died with the process or whose result was not written
    unsupported,\* targets whose command type has no handler on this agent
    faults      \* ends of the process and failed ledger transactions so far

vars == <<led, th, cancelKeys, cx, msg, up, published, late, execs,
          interrupted, unsupported, faults>>

TargetOf(e) == e[1]
EventOf(m) == m[1]
Ev(t) == EventOf(th[t].msg)

\* result: the status in ResultEnvelope.
Receipt == [state : {"none", "received", "running"} \cup Outcomes,
            result : Outcomes \cup {"none"}, acked : BOOLEAN]

Thread == [pc : {"idle", "lookup", "active", "record", "accept", "register", "begin",
                 "unstarted", "run", "complete", "publish", "cleanup", "final"},
           msg : Messages \cup {None},
           ctx : {"none", "live", "cancelled", "expired"},
           out : Outcomes \cup {"none"}]

IdleThread == [pc |-> "idle", msg |-> None, ctx |-> "none", out |-> "none"]

Init ==
    /\ led = [e \in Events |-> [state |-> "none", result |-> "none", acked |-> FALSE]]
    /\ th = [t \in Threads |-> IdleThread]
    /\ cancelKeys = [k \in Keys |-> None]
    /\ cx = None
    /\ msg = [m \in Messages |-> "absent"]
    /\ up = "up"
    /\ published = {} /\ late = {}
    /\ execs = [e \in Events |-> 0]
    /\ interrupted = {} /\ unsupported \in SUBSET Targets /\ faults = 0

\* One more transaction of the ledger fails.
LedgerFails == faults < MaxFaults /\ faults' = faults + 1

Goto(t, pc) == th' = [th EXCEPT ![t].pc = pc]
Finish(t) == th' = [th EXCEPT ![t] = IdleThread]

\* The acknowledgement of a message may be lost; then it is delivered again.
Ack(t) == msg' \in {msg, [msg EXCEPT ![th[t].msg] = "acked"]} /\ Finish(t)
Nak(t) == msg' = [msg EXCEPT ![th[t].msg] = IF @ = "out" THEN "pending" ELSE @] /\ Finish(t)

--------------------------------------------------------------------------------
(***************************************************************************)
(* handleDurableCommand.                                                   *)
(***************************************************************************)

\* validateCommand: an expired command is terminated without a receipt.
Deliver(t, m) ==
    /\ up = "up" /\ th[t].pc = "idle" /\ msg[m] = "pending"
    /\ IF EventOf(m) \in late
       THEN msg' = [msg EXCEPT ![m] = "terminated"] /\ UNCHANGED th
       ELSE /\ msg' = [msg EXCEPT ![m] = "out"]
            /\ th' = [th EXCEPT ![t].pc = "lookup", ![t].msg = m]
    /\ UNCHANGED <<led, cancelKeys, cx, up, published, late, execs,
                   interrupted, unsupported, faults>>

\* GetReceipt and what follows from it alone.
Lookup(t) ==
    LET r == led[Ev(t)]
    IN  /\ th[t].pc = "lookup"
        /\ \/ /\ r.state = "none"
              /\ Goto(t, "record") /\ UNCHANGED <<msg, published>>
           \/ \* the duplicate acknowledgement or the result could not be published
              /\ r.state # "none"
              /\ Nak(t) /\ UNCHANGED published
           \/ /\ r.result # "none"
              /\ published' = IF r.acked THEN published ELSE published \cup {<<Ev(t), r.result>>}
              /\ Ack(t)
           \/ /\ r.result = "none" /\ r.state = "received"
              /\ Goto(t, "register") /\ UNCHANGED <<msg, published>>
           \/ /\ r.result = "none" /\ r.state = "running"
              /\ Goto(t, "active") /\ UNCHANGED <<msg, published>>
           \/ /\ r.result = "none" /\ r.state = "cancelled"
              /\ th' = [th EXCEPT ![t].pc = "complete", ![t].out = "cancelled"]
              /\ UNCHANGED <<msg, published>>
    /\ UNCHANGED <<led, cancelKeys, cx, up, late, execs, interrupted, unsupported, faults>>

\* Faulty variant: a running receipt with no execution in this process is run again.
CheckActiveRepeats(t) ==
    /\ th[t].pc = "active"
    /\ IF cancelKeys[Ev(t)] # None \/ led[Ev(t)].state # "running"
       THEN Finish(t) /\ UNCHANGED led
       ELSE /\ led' = [led EXCEPT ![Ev(t)].state = "received"]
            /\ Goto(t, "register")
    /\ UNCHANGED <<cancelKeys, cx, msg, up, published, late, execs,
                   interrupted, unsupported, faults>>

\* Faulty variant: a running receipt is always taken for an execution in progress.
CheckActiveWaits(t) ==
    /\ th[t].pc = "active"
    /\ Finish(t)
    /\ UNCHANGED <<led, cancelKeys, cx, msg, up, published, late, execs, interrupted, unsupported, faults>>

\* A running receipt: in progress here, or left by a crash.
CheckActive(t) ==
    /\ th[t].pc = "active"
    /\ IF cancelKeys[Ev(t)] # None
       THEN Finish(t)
       ELSE th' = [th EXCEPT ![t].pc = "complete", ![t].out = "failed"]
    /\ UNCHANGED <<led, cancelKeys, cx, msg, up, published, late, execs,
                   interrupted, unsupported, faults>>

\* RecordReceipt fails on a receipt another goroutine wrote since the lookup.
Record(t) ==
    /\ th[t].pc = "record"
    /\ \/ led[Ev(t)].state # "none" /\ Nak(t) /\ UNCHANGED <<led, faults>>
       \/ LedgerFails /\ Nak(t) /\ UNCHANGED led
       \/ /\ led[Ev(t)].state = "none"
          /\ led' = [led EXCEPT ![Ev(t)].state = "received"]
          /\ Goto(t, "accept") /\ UNCHANGED <<msg, faults>>
    /\ UNCHANGED <<cancelKeys, cx, up, published, late, execs,
                   interrupted, unsupported>>

\* The accepted acknowledgement goes out, or not.
Accept(t) ==
    /\ th[t].pc = "accept"
    /\ \/ Goto(t, "register") /\ UNCHANGED msg
       \/ Nak(t)
    /\ UNCHANGED <<led, cancelKeys, cx, up, published, late, execs,
                   interrupted, unsupported, faults>>

\* Faulty variant: the message is acknowledged whatever the ledger says.
FinalAcks(t) ==
    /\ th[t].pc = "final"
    /\ Ack(t)
    /\ UNCHANGED <<led, cancelKeys, cx, up, published, late, execs,
                   interrupted, unsupported, faults>>

\* The message is acknowledged on a persisted result only.
Final(t) ==
    /\ th[t].pc = "final"
    /\ IF led[Ev(t)].result = "none" THEN Nak(t) ELSE Ack(t)
    /\ UNCHANGED <<led, cancelKeys, cx, up, published, late, execs,
                   interrupted, unsupported, faults>>

--------------------------------------------------------------------------------
(***************************************************************************)
(* execute and publishTerminal.                                            *)
(***************************************************************************)
Register(t) ==
    LET e == Ev(t)
        ctx == IF up = "stopping" THEN "cancelled" ELSE IF e \in late THEN "expired" ELSE "live"
    IN  /\ th[t].pc = "register"
        /\ IF TargetOf(e) \in unsupported
           THEN /\ th' = [th EXCEPT ![t].pc = "complete", ![t].out = "failed"]
                /\ UNCHANGED cancelKeys
           ELSE /\ th' = [th EXCEPT ![t].pc = "begin", ![t].ctx = ctx]
                /\ cancelKeys' = [cancelKeys EXCEPT ![e] = t, ![TargetOf(e)] = t]
        /\ UNCHANGED <<led, cx, msg, up, published, late, execs,
                       interrupted, unsupported, faults>>

\* Faulty variant: the state of the receipt is not consulted.
MayBeginAlways(e) == TRUE

MayBegin(e) == led[e].state = "received"

\* BeginExecution.  The handler starts its work.
Begin(t) ==
    LET e == Ev(t)
    IN  /\ th[t].pc = "begin"
        /\ \/ /\ MayBegin(e)
              /\ led' = [led EXCEPT ![e].state = "running"]
              /\ execs' = [execs EXCEPT ![e] = @ + 1]
              /\ Goto(t, "run") /\ UNCHANGED faults
           \/ ~MayBegin(e) /\ Goto(t, "unstarted") /\ UNCHANGED <<led, execs, faults>>
           \/ LedgerFails /\ Goto(t, "cleanup") /\ UNCHANGED <<led, execs>>
        /\ UNCHANGED <<cancelKeys, cx, msg, up, published, late, interrupted, unsupported>>

Unstarted(t) ==
    /\ th[t].pc = "unstarted"
    /\ IF led[Ev(t)].state = "cancelled"
       THEN th' = [th EXCEPT ![t].pc = "complete", ![t].out = "cancelled"]
       ELSE Goto(t, "cleanup")
    /\ UNCHANGED <<led, cancelKeys, cx, msg, up, published, late, execs,
                   interrupted, unsupported, faults>>

\* What a handler may return; anything but success and failure is a failure.
HandlerStatus == {"succeeded", "failed", "other"}

\* Faulty variant: the status is passed on as it is.
NormalisedNot(s) == s

Normalised(s) == IF s \in Outcomes THEN s ELSE "failed"

\* Faulty variant: an execution whose context was cancelled leaves no result.
RunForgets(t) ==
    /\ th[t].pc = "run"
    /\ IF th[t].ctx = "cancelled" THEN Goto(t, "cleanup")
       ELSE th' = [th EXCEPT ![t].pc = "complete", ![t].out = "succeeded"]
    /\ UNCHANGED <<led, cancelKeys, cx, msg, up, published, late, execs, interrupted, unsupported, faults>>

\* The handler returns: the context decides over what it reported.
Run(t) ==
    /\ th[t].pc = "run"
    /\ \E s \in HandlerStatus :
         th' = [th EXCEPT ![t].pc = "complete",
                          ![t].out = IF th[t].ctx = "live" THEN Normalised(s) ELSE th[t].ctx]
    /\ UNCHANGED <<led, cancelKeys, cx, msg, up, published, late, execs, interrupted, unsupported, faults>>

\* Where publishTerminalAt returns to: the deferred clean-up of execute, or the caller.
AfterTerminal(t) == IF th[t].ctx = "none" THEN "final" ELSE "cleanup"

\* MarkComplete overwrites whatever the receipt says.
Complete(t) ==
    LET e == Ev(t)
    IN  /\ th[t].pc = "complete"
        /\ \/ /\ led' = [led EXCEPT ![e] = [state |-> th[t].out, result |-> th[t].out,
                                            acked |-> FALSE]]
              /\ Goto(t, "publish") /\ UNCHANGED <<interrupted, faults>>
           \/ \* the result is lost
              /\ LedgerFails
              /\ Goto(t, AfterTerminal(t)) /\ interrupted' = interrupted \cup {e}
              /\ UNCHANGED led
        /\ UNCHANGED <<cancelKeys, cx, msg, up, published, late, execs, unsupported>>

Publish(t) ==
    /\ th[t].pc = "publish"
    /\ published' = published \cup {<<Ev(t), th[t].out>>}
    /\ Goto(t, AfterTerminal(t))
    /\ UNCHANGED <<led, cancelKeys, cx, msg, up, late, execs, interrupted, unsupported, faults>>

\* The entries go, whoever registered them.
Cleanup(t) ==
    /\ th[t].pc = "cleanup"
    /\ cancelKeys' = [cancelKeys EXCEPT ![Ev(t)] = None, ![TargetOf(Ev(t))] = None]
    /\ Goto(t, "final")
    /\ UNCHANGED <<led, cx, msg, up, published, late, execs, interrupted, unsupported, faults>>

--------------------------------------------------------------------------------
(***************************************************************************)
(* Control messages and the replay of results.                             *)
(***************************************************************************)

\* The receipt of any result sent for e arrives, at last or again: its
\* message_id names the event and attempt, not the outcome.
HandleResultReceipt(e) ==
    /\ up = "up" /\ led[e].result # "none"
    /\ \E s \in Outcomes : <<e, s>> \in published
    /\ led' = [led EXCEPT ![e].acked = TRUE]
    /\ UNCHANGED <<th, cancelKeys, cx, msg, up, published, late, execs,
                   interrupted, unsupported, faults>>

\* handleCancellation, up to cancel(): the event_id of a cancellation is never
\* that of a command, so the entry is found by target.
CancelContext(g) ==
    /\ up = "up" /\ cx = None
    /\ cx' = g
    /\ th' = [t \in Threads |-> IF t = cancelKeys[g] /\ th[t].ctx = "live"
                                THEN [th[t] EXCEPT !.ctx = "cancelled"] ELSE th[t]]
    /\ UNCHANGED <<led, cancelKeys, msg, up, published, late, execs,
                   interrupted, unsupported, faults>>

Cancellable(e) == led[e].state \notin Outcomes

\* MarkCancelled: the last receipt of the target in key order, unless it has ended.
MarkCancelled ==
    LET known == {e \in Events : TargetOf(e) = cx /\ led[e].state # "none"}
        last == CHOOSE e \in known : \A f \in known : f[2] <= e[2]
    IN  /\ cx # None
        /\ led' = IF known # {} /\ Cancellable(last)
                  THEN [led EXCEPT ![last].state = "cancelled"] ELSE led
        /\ cx' = None
        /\ UNCHANGED <<th, cancelKeys, msg, up, published, late, execs,
                       interrupted, unsupported, faults>>

\* replayResults, at the start and every 15 seconds.
ReplayResult(e) ==
    /\ up = "up" /\ led[e].result # "none" /\ ~led[e].acked
    /\ published' = published \cup {<<e, led[e].result>>}
    /\ UNCHANGED <<led, th, cancelKeys, cx, msg, up, late, execs,
                   interrupted, unsupported, faults>>

--------------------------------------------------------------------------------
(***************************************************************************)
(* The process and its environment.                                        *)
(***************************************************************************)

\* The process dies: what was not in the ledger is gone.
Crash ==
    /\ up # "down" /\ faults < MaxFaults
    /\ up' = "down" /\ faults' = faults + 1
    /\ th' = [t \in Threads |-> IdleThread]
    /\ cancelKeys' = [k \in Keys |-> None] /\ cx' = None
    /\ interrupted' = interrupted \cup {e \in Events : led[e].state = "running"}
    /\ UNCHANGED <<led, msg, published, late, execs, unsupported>>

\* Stop: every context is cancelled, then the goroutines are waited for.
Stop ==
    /\ up = "up" /\ faults < MaxFaults
    /\ up' = "stopping" /\ faults' = faults + 1
    /\ th' = [t \in Threads |-> IF th[t].ctx = "live"
                                THEN [th[t] EXCEPT !.ctx = "cancelled"] ELSE th[t]]
    /\ cancelKeys' = [k \in Keys |-> None]
    /\ UNCHANGED <<led, cx, msg, published, late, execs, interrupted, unsupported>>

\* wg.Wait returns.  Unsubscribing may have deleted the consumer with what it
\* knew of acknowledgements.
Stopped ==
    /\ up = "stopping" /\ cx = None /\ \A t \in Threads : th[t].pc = "idle"
    /\ up' = "down"
    /\ msg' \in {msg, [m \in Messages |-> IF msg[m] = "absent" THEN "absent" ELSE "pending"]}
    /\ UNCHANGED <<led, th, cancelKeys, cx, published, late, execs,
                   interrupted, unsupported, faults>>

Start ==
    /\ up = "down" /\ up' = "up"
    /\ UNCHANGED <<led, th, cancelKeys, cx, msg, published, late, execs,
                   interrupted, unsupported, faults>>

\* The orchestrator publishes a copy of a command.  A dispatcher that was held up
\* may publish an earlier attempt after a later one.
Command(m) ==
    /\ msg[m] = "absent"
    /\ msg' = [msg EXCEPT ![m] = "pending"]
    /\ UNCHANGED <<led, th, cancelKeys, cx, up, published, late, execs,
                   interrupted, unsupported, faults>>

\* AckWait passed without InProgress.
Redeliver(m) ==
    /\ msg[m] = "out"
    /\ msg' = [msg EXCEPT ![m] = "pending"]
    /\ UNCHANGED <<led, th, cancelKeys, cx, up, published, late, execs,
                   interrupted, unsupported, faults>>

\* expires_at passes; so does the deadline of a running context.
Deadline(e) ==
    /\ TargetOf(e) \in Timed /\ e \notin late
    /\ late' = late \cup {e}
    /\ th' = [t \in Threads |-> IF th[t].ctx = "live" /\ Ev(t) = e
                                THEN [th[t] EXCEPT !.ctx = "expired"] ELSE th[t]]
    /\ UNCHANGED <<led, cancelKeys, cx, msg, up, published, execs,
                   interrupted, unsupported, faults>>

--------------------------------------------------------------------------------
Goroutine(t) ==
    \/ Lookup(t) \/ CheckActive(t) \/ Record(t) \/ Accept(t) \/ Register(t) \/ Begin(t)
    \/ Unstarted(t) \/ Run(t) \/ Complete(t) \/ Publish(t) \/ Cleanup(t) \/ Final(t)

Next ==
    \/ \E t \in Threads : Goroutine(t) \/ \E m \in Messages : Deliver(t, m)
    \/ \E e \in Events : HandleResultReceipt(e) \/ ReplayResult(e) \/ Deadline(e)
    \/ \E g \in Targets : CancelContext(g)
    \/ MarkCancelled
    \/ Crash \/ Stop \/ Stopped \/ Start
    \/ \E m \in Messages : Command(m) \/ Redeliver(m)

Spec == Init /\ [][Next]_vars

\* Goroutines run, handlers return, JetStream delivers again what is not
\* acknowledged, and the agent is started again.  NATS is not down for ever: a
\* goroutine that tries again and again gets its acknowledgements out.
Fairness ==
    /\ \A t \in Threads :
         /\ WF_vars(Goroutine(t))
         /\ SF_vars(Lookup(t) /\ msg'[th[t].msg] # "pending")
         /\ SF_vars(Accept(t) /\ th'[t].pc = "register")
         /\ SF_vars((Lookup(t) \/ Final(t)) /\ msg'[th[t].msg] = "acked")
    /\ \A m \in Messages : /\ SF_vars(\E t \in Threads : Deliver(t, m))
                           /\ WF_vars(Redeliver(m))
    /\ WF_vars(Start) /\ WF_vars(Stopped) /\ WF_vars(MarkCancelled)

FairSpec == Spec /\ Fairness

--------------------------------------------------------------------------------
TypeOK ==
    /\ led \in [Events -> Receipt]
    /\ th \in [Threads -> Thread]
    /\ cancelKeys \in [Keys -> Threads \cup {None}]
    /\ cx \in Targets \cup {None}
    /\ msg \in [Messages -> {"absent", "pending", "out", "acked", "terminated"}]
    /\ up \in {"up", "stopping", "down"}
    /\ published \subseteq Events \X Outcomes
    /\ late \subseteq Events
    /\ execs \in [Events -> Nat]
    /\ interrupted \subseteq Events /\ unsupported \subseteq Targets /\ faults \in 0 .. MaxFaults

\* The endpoint side effect of a command happens at most once, whatever copies,
\* redeliveries, crashes, restarts and lost ledger writes there are
\* (BeginExecution, handleDurableCommand).
AtMostOnce == \A e \in Events : execs[e] <= 1

\* A command is acknowledged only after its terminal receipt is in the ledger:
\* no crash can lose both the message and the outcome (handleDurableCommand).
AckedIsTerminal ==
    \A m \in Messages : msg[m] = "acked" => led[EventOf(m)].result # "none"

\* A step that begins a command although its cancellation was recorded before:
\* there is none, however many goroutines hold the command (BeginExecution).
BeginsCancelled ==
    \E e \in Events : led[e].state = "cancelled" /\ execs'[e] # execs[e]

\* A running receipt belongs to an execution in this process, unless an
\* execution was interrupted by a crash or its result could not be written
\* (handleDurableCommand relies on it to tell the two apart).
RunningHasOwner ==
    \A e \in Events :
       led[e].state = "running" /\ e \notin interrupted
       => \E t \in Threads : /\ th[t].pc \in {"run", "complete"}
                             /\ Ev(t) = e

\* What the agent reports as succeeded was executed: neither a redelivery, a
\* restart nor the replay of results invents a success (execute,
\* publishTerminalAt, replayResults).
SuccessWasExecuted ==
    \A e \in Events : <<e, "succeeded">> \in published => execs[e] = 1
================================================================================
