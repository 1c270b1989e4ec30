--------------------------- MODULE AgentJobs_proofs ---------------------------
(***************************************************************************)
(* Proofs about the agent's receipt ledger, for every set of targets,      *)
(* goroutines and copies of a command and every number of faults.          *)
(***************************************************************************)
EXTENDS AgentJobs, TLAPS

\* A goroutine past its start holds a message, one that executes has a context,
\* and one that completes has an outcome.
Sound(r) ==
    /\ r \in Thread
    /\ r.pc # "idle" => r.msg \in Messages
    /\ r.pc \in {"begin", "unstarted", "run"} => r.ctx # "none"
    /\ r.pc \in {"complete", "publish"} => r.out \in Outcomes

TypeInv == TypeOK /\ \A t \in Threads : Sound(th[t])

\* Step t of a goroutine leaves the other goroutines alone.
Moves(t, r) == th' = [th EXCEPT ![t] = r]

--------------------------------------------------------------------------------
(***************************************************************************)
(* Goroutines.                                                             *)
(***************************************************************************)

\* Every message is of an event (EventEnvelope).
LEMMA MessageEvents ==
    ASSUME NEW m \in Messages
    PROVE  EventOf(m) \in Events /\ TargetOf(EventOf(m)) \in Targets
BY DEF Messages, Events, EventOf, TargetOf

\* The event a busy goroutine works on (handleDurableCommand).
LEMMA ThreadEvent ==
    ASSUME TypeInv, NEW t \in Threads, th[t].pc # "idle"
    PROVE  /\ th[t] \in Thread /\ th[t].msg \in Messages
           /\ Ev(t) \in Events /\ TargetOf(Ev(t)) \in Targets
<1>1. th[t] \in Thread /\ th[t].msg \in Messages
  BY DEF TypeInv, Sound
<1> QED BY <1>1, MessageEvents DEF Ev

\* A goroutine that changes to a sound state keeps all of them sound.
LEMMA MoveSound ==
    ASSUME TypeInv, NEW t \in Threads, NEW r, Sound(r), Moves(t, r)
    PROVE  /\ th' \in [Threads -> Thread]
           /\ \A u \in Threads : Sound(th'[u])
           /\ th'[t] = r
           /\ \A u \in Threads : u # t => th'[u] = th[u]
<1>1. th \in [Threads -> Thread] /\ r \in Thread
  BY DEF TypeInv, TypeOK, Sound
<1>2. th' \in [Threads -> Thread] /\ th'[t] = r /\ \A u \in Threads : u # t => th'[u] = th[u]
  BY <1>1 DEF Moves
<1> QED BY <1>2 DEF TypeInv

\* A goroutine that ends or only goes on to its next statement.
LEMMA PlainMoves ==
    ASSUME TypeInv, NEW t \in Threads
    PROVE  /\ Finish(t) => Moves(t, IdleThread)
           /\ \A pc : Goto(t, pc) => Moves(t, [th[t] EXCEPT !.pc = pc])
           /\ Sound(IdleThread)
<1>1. th \in [Threads -> Thread]
  BY DEF TypeInv, TypeOK
<1>2. Sound(IdleThread)
  BY DEF Sound, IdleThread, Thread
<1>3. Finish(t) => Moves(t, IdleThread)
  BY DEF Finish, Moves
<1>4. \A pc : Goto(t, pc) => Moves(t, [th[t] EXCEPT !.pc = pc])
  BY <1>1 DEF Goto, Moves
<1> QED BY <1>2, <1>3, <1>4

\* Statements of a goroutine that need neither a context nor an outcome.
LEMMA GotoSound ==
    ASSUME TypeInv, NEW t \in Threads, th[t].pc # "idle",
           NEW pc \in {"active", "record", "accept", "register", "cleanup", "final"}
    PROVE  Sound([th[t] EXCEPT !.pc = pc])
BY DEF TypeInv, Sound, Thread

\* A goroutine goes to publishTerminalAt with an outcome.
LEMMA CompleteSound ==
    ASSUME TypeInv, NEW t \in Threads, th[t].pc # "idle", NEW out \in Outcomes
    PROVE  Sound([th[t] EXCEPT !.pc = "complete", !.out = out])
BY Zenon DEF TypeInv, Sound, Thread

\* Two fields of a goroutine's state change at once.
LEMMA OutMoves ==
    ASSUME TypeInv, NEW t \in Threads, NEW out,
           th' = [th EXCEPT ![t].pc = "complete", ![t].out = out]
    PROVE  Moves(t, [th[t] EXCEPT !.pc = "complete", !.out = out])
<1>1. th \in [Threads -> Thread]
  BY DEF TypeInv, TypeOK
<1>2. th[t] \in Thread
  BY <1>1
<1> QED BY Zenon, <1>1, <1>2 DEF Moves, Thread

\* Every statement of handleDurableCommand and execute leaves its goroutine
\* sound, and touches no other.
LEMMA GoroutineMoves ==
    ASSUME TypeInv, NEW t \in Threads, Goroutine(t)
    PROVE  \E r : Sound(r) /\ Moves(t, r)
<1>f. Finish(t) => \E r : Sound(r) /\ Moves(t, r)
  BY PlainMoves
<1>g. ASSUME th[t].pc # "idle",
             NEW pc \in {"active", "record", "accept", "register", "cleanup", "final"},
             Goto(t, pc)
      PROVE  \E r : Sound(r) /\ Moves(t, r)
  BY Zenon, <1>g, PlainMoves, GotoSound
<1>o. ASSUME th[t].pc # "idle", NEW out \in Outcomes,
             th' = [th EXCEPT ![t].pc = "complete", ![t].out = out]
      PROVE  \E r : Sound(r) /\ Moves(t, r)
  BY Zenon, <1>o, OutMoves, CompleteSound
<1>1. CASE Lookup(t)
  <2>1. th[t].pc # "idle"
    BY <1>1 DEF Lookup
  <2>2. \/ Finish(t) \/ Goto(t, "record") \/ Goto(t, "register") \/ Goto(t, "active")
        \/ th' = [th EXCEPT ![t].pc = "complete", ![t].out = "cancelled"]
    BY Zenon, <1>1 DEF Lookup, Nak, Ack
  <2> QED BY <1>f, <1>g, <1>o, <2>1, <2>2 DEF Outcomes
<1>2. CASE CheckActive(t)
  BY <1>2, <1>f, <1>o DEF CheckActive, Outcomes
<1>3. CASE Record(t)
  <2>1. Finish(t) \/ Goto(t, "accept")
    BY Zenon, <1>3 DEF Record, Nak
  <2> QED BY <1>3, <1>f, <1>g, <2>1 DEF Record
<1>4. CASE Accept(t)
  <2>1. Finish(t) \/ Goto(t, "register")
    BY Zenon, <1>4 DEF Accept, Nak
  <2> QED BY <1>4, <1>f, <1>g, <2>1 DEF Accept
<1>5. CASE Register(t)
  <2> DEFINE ctx == IF up = "stopping" THEN "cancelled"
                    ELSE IF Ev(t) \in late THEN "expired" ELSE "live"
             r == [th[t] EXCEPT !.pc = "begin", !.ctx = ctx]
  <2>1. \/ th' = [th EXCEPT ![t].pc = "complete", ![t].out = "failed"]
        \/ th' = [th EXCEPT ![t].pc = "begin", ![t].ctx = ctx]
    BY Zenon, <1>5 DEF Register
  <2>2. CASE th' = [th EXCEPT ![t].pc = "begin", ![t].ctx = ctx]
    <3>1. th \in [Threads -> Thread] /\ th[t] \in Thread /\ Sound(th[t])
      BY DEF TypeInv, TypeOK
    <3>2. ctx \in {"live", "cancelled", "expired"}
      OBVIOUS
    <3> HIDE DEF ctx
    <3>3. Sound(r)
      BY Zenon, <1>5, <3>1, <3>2 DEF Sound, Thread, Register
    <3>4. Moves(t, r)
      BY Zenon, <2>2, <3>1 DEF Moves, Thread
    <3> QED BY Zenon, <3>3, <3>4
  <2> QED BY <1>5, <1>o, <2>1, <2>2 DEF Register, Outcomes
<1>6. CASE Begin(t)
  <2>1. Goto(t, "run") \/ Goto(t, "unstarted") \/ Goto(t, "cleanup")
    BY Zenon, <1>6 DEF Begin
  <2>2. th[t].pc = "begin"
    BY <1>6 DEF Begin
  <2>3. ASSUME NEW pc \in {"run", "unstarted"} PROVE Sound([th[t] EXCEPT !.pc = pc])
    BY <2>2 DEF TypeInv, Sound, Thread
  <2> QED BY <1>g, <2>1, <2>2, <2>3, PlainMoves
<1>7. CASE Unstarted(t)
  BY <1>7, <1>g, <1>o DEF Unstarted, Outcomes
<1>8. CASE Run(t)
  <2>1. PICK s \in HandlerStatus :
          th' = [th EXCEPT ![t].pc = "complete",
                           ![t].out = IF th[t].ctx = "live" THEN Normalised(s) ELSE th[t].ctx]
    BY Zenon, <1>8 DEF Run
  <2>2. Normalised(s) \in Outcomes
    BY DEF Normalised, Outcomes
  <2>3. th[t].ctx \in {"live", "cancelled", "expired"}
    BY <1>8 DEF Run, TypeInv, Sound, Thread
  <2>4. (IF th[t].ctx = "live" THEN Normalised(s) ELSE th[t].ctx) \in Outcomes
    BY <2>2, <2>3 DEF Outcomes
  <2> QED BY Zenon, <1>8, <1>o, <2>1, <2>4 DEF Run
<1>9. CASE Complete(t)
  <2>1. th[t].pc = "complete" /\ (Goto(t, "publish") \/ Goto(t, AfterTerminal(t)))
    BY Zenon, <1>9 DEF Complete
  <2>2. Sound([th[t] EXCEPT !.pc = "publish"])
    BY <2>1 DEF TypeInv, Sound, Thread
  <2> QED BY <1>g, <2>1, <2>2, PlainMoves DEF AfterTerminal
<1>10. CASE Publish(t)
  BY <1>10, <1>g DEF Publish, AfterTerminal
<1>11. CASE Cleanup(t)
  BY <1>11, <1>g DEF Cleanup
<1>12. CASE Final(t)
  BY <1>12, <1>f DEF Final, Ack, Nak
<1> QED BY Zenon, <1>1, <1>2, <1>3, <1>4, <1>5, <1>6, <1>7, <1>8, <1>9, <1>10, <1>11, <1>12 DEF Goroutine

--------------------------------------------------------------------------------
(***************************************************************************)
(* The ledger and the stream.                                              *)
(***************************************************************************)

\* What a step may do to the ledger: a receipt that was begun or has ended
\* never returns to a state it can be begun from, a result stays, and an
\* execution starts only on a received receipt, which it marks.
LedgerStep ==
    /\ led' \in [Events -> Receipt]
    /\ execs' \in [Events -> Nat]
    /\ \A e \in Events :
         /\ led[e].state \notin {"none", "received"} => led'[e].state \notin {"none", "received"}
         /\ led[e].result # "none" => led'[e].result # "none"
         /\ \/ execs'[e] = execs[e]
            \/ /\ led[e].state = "received" /\ led'[e].state = "running"
               /\ execs'[e] = execs[e] + 1

MessageStates == {"absent", "pending", "out", "acked", "terminated"}

\* A message is acknowledged only on a result in the ledger.
AckStep ==
    /\ msg' \in [Messages -> MessageStates]
    /\ \A m \in Messages :
         msg'[m] = "acked" => msg[m] = "acked" \/ led[EventOf(m)].result # "none"

\* Steps that leave the ledger alone (LedgerStep).
LEMMA LedgerRests ==
    ASSUME TypeInv, led' = led, execs' = execs
    PROVE  LedgerStep
BY DEF LedgerStep, TypeInv, TypeOK

\* Steps that leave the stream alone (AckStep).
LEMMA StreamRests ==
    ASSUME TypeInv, msg' = msg
    PROVE  AckStep
BY DEF AckStep, TypeInv, TypeOK, MessageStates

\* One receipt is overwritten (RecordReceipt, MarkComplete, MarkResultAcked).
LEMMA ReceiptWritten ==
    ASSUME TypeInv, NEW e \in Events, NEW r \in Receipt,
           led' = [led EXCEPT ![e] = r], execs' = execs,
           led[e].state \notin {"none", "received"} => r.state \notin {"none", "received"},
           led[e].result # "none" => r.result # "none"
    PROVE  LedgerStep
<1>1. led \in [Events -> Receipt] /\ execs \in [Events -> Nat]
  BY DEF TypeInv, TypeOK
<1>2. led' \in [Events -> Receipt] /\ led'[e] = r /\ \A f \in Events : f # e => led'[f] = led[f]
  BY <1>1
<1> QED BY <1>1, <1>2 DEF LedgerStep

\* One message changes its state (Ack, Nak, Redeliver, Deliver, Command).
LEMMA MessageChanged ==
    ASSUME TypeInv, NEW m \in Messages, NEW s \in MessageStates,
           msg' = [msg EXCEPT ![m] = s],
           s = "acked" => msg[m] = "acked" \/ led[EventOf(m)].result # "none"
    PROVE  AckStep
<1>1. msg \in [Messages -> MessageStates]
  BY DEF TypeInv, TypeOK, MessageStates
<1>2. msg' \in [Messages -> MessageStates] /\ msg'[m] = s /\ \A n \in Messages : n # m => msg'[n] = msg[n]
  BY <1>1
<1> QED BY <1>1, <1>2 DEF AckStep

\* The statements of a goroutine that write to the ledger: Record, Begin and
\* Complete.
LEMMA GoroutineLedger ==
    ASSUME TypeInv, NEW t \in Threads, Goroutine(t)
    PROVE  LedgerStep
<1>0. led \in [Events -> Receipt] /\ execs \in [Events -> Nat]
  BY DEF TypeInv, TypeOK
<1>1. CASE Record(t)
  <2>1. CASE led' = led
    BY Zenon, <1>1, <2>1, LedgerRests DEF Record
  <2>2. CASE led[Ev(t)].state = "none" /\ led' = [led EXCEPT ![Ev(t)].state = "received"]
    <3>1. Ev(t) \in Events
      BY <1>1, ThreadEvent DEF Record
    <3> DEFINE r == [led[Ev(t)] EXCEPT !.state = "received"]
    <3>2. r \in Receipt /\ r.result = led[Ev(t)].result
      BY <1>0, <3>1 DEF Receipt
    <3>3. led' = [led EXCEPT ![Ev(t)] = r] /\ execs' = execs
      BY <1>0, <1>1, <2>2, <3>1 DEF Record
    <3> HIDE DEF r
    <3> QED BY Zenon, <2>2, <3>1, <3>2, <3>3, ReceiptWritten
  <2> QED BY Zenon, <1>1, <2>1, <2>2 DEF Record
<1>2. CASE Begin(t)
  <2>1. CASE led' = led /\ execs' = execs
    BY <2>1, LedgerRests
  <2>2. CASE /\ led[Ev(t)].state = "received"
             /\ led' = [led EXCEPT ![Ev(t)].state = "running"]
             /\ execs' = [execs EXCEPT ![Ev(t)] = @ + 1]
    <3>1. Ev(t) \in Events
      BY <1>2, ThreadEvent DEF Begin
    <3> DEFINE e == Ev(t)
    <3>2. [led[e] EXCEPT !.state = "running"] \in Receipt
      BY <1>0, <3>1 DEF Receipt
    <3>3. led' = [led EXCEPT ![e] = [led[e] EXCEPT !.state = "running"]]
      BY <1>0, <2>2, <3>1
    <3> HIDE DEF e
    <3>4. /\ led' \in [Events -> Receipt]
          /\ led'[e] = [led[e] EXCEPT !.state = "running"]
          /\ \A f \in Events : f # e => led'[f] = led[f]
      BY <1>0, <3>1, <3>2, <3>3 DEF e
    <3>5. led'[e].state = "running" /\ led'[e].result = led[e].result
      BY <1>0, <3>1, <3>4 DEF e, Receipt
    <3>6. /\ execs' \in [Events -> Nat] /\ execs'[e] = execs[e] + 1
          /\ \A f \in Events : f # e => execs'[f] = execs[f]
      BY <1>0, <2>2, <3>1 DEF e
    <3> QED BY <2>2, <3>4, <3>5, <3>6 DEF LedgerStep, e
  <2> QED BY Zenon, <1>2, <2>1, <2>2 DEF Begin, MayBegin
<1>3. CASE Complete(t)
  <2>1. CASE led' = led
    BY Zenon, <1>3, <2>1, LedgerRests DEF Complete
  <2>2. CASE led' = [led EXCEPT ![Ev(t)] = [state |-> th[t].out, result |-> th[t].out,
                                            acked |-> FALSE]]
    <3>1. Ev(t) \in Events /\ th[t].out \in Outcomes /\ execs' = execs
      BY <1>3, ThreadEvent DEF Complete, TypeInv, Sound
    <3> DEFINE r == [state |-> th[t].out, result |-> th[t].out, acked |-> FALSE]
    <3>2. r \in Receipt /\ r.state \notin {"none", "received"} /\ r.result # "none"
      BY <3>1 DEF Receipt, Outcomes
    <3>3. led' = [led EXCEPT ![Ev(t)] = r]
      BY <2>2
    <3> HIDE DEF r
    <3> QED BY Zenon, <3>1, <3>2, <3>3, ReceiptWritten
  <2> QED BY Zenon, <1>3, <2>1, <2>2 DEF Complete
<1>4. CASE led' = led /\ execs' = execs
  BY <1>4, LedgerRests
<1> QED BY Zenon, <1>1, <1>2, <1>3, <1>4 DEF Goroutine, Lookup, CheckActive, Accept, Register,
          Unstarted, Run, Publish, Cleanup, Final

\* The statements of a goroutine that answer JetStream: msg.Ack on a result that
\* is in the ledger, msg.Nak otherwise.
LEMMA GoroutineAcks ==
    ASSUME TypeInv, NEW t \in Threads, Goroutine(t)
    PROVE  AckStep
<1>n. ASSUME th[t].pc # "idle", Nak(t) PROVE AckStep
  <2>1. th[t].msg \in Messages /\ msg[th[t].msg] \in MessageStates
    BY <1>n, ThreadEvent DEF TypeInv, TypeOK, MessageStates
  <2> DEFINE s == IF msg[th[t].msg] = "out" THEN "pending" ELSE msg[th[t].msg]
  <2>2. msg' = [msg EXCEPT ![th[t].msg] = s]
    BY <1>n DEF Nak
  <2>3. s \in MessageStates /\ (s = "acked" => msg[th[t].msg] = "acked")
    BY <2>1 DEF MessageStates
  <2> HIDE DEF s
  <2> QED BY Zenon, <2>1, <2>2, <2>3, MessageChanged
<1>a. ASSUME th[t].pc # "idle", led[Ev(t)].result # "none", Ack(t) PROVE AckStep
  <2>1. th[t].msg \in Messages
    BY <1>a, ThreadEvent
  <2>2. msg' = msg \/ msg' = [msg EXCEPT ![th[t].msg] = "acked"]
    BY <1>a DEF Ack
  <2> QED BY <1>a, <2>1, <2>2, StreamRests, MessageChanged DEF Ev, MessageStates
<1>s. msg' = msg => AckStep
  BY StreamRests
<1>1. CASE Lookup(t)
  <2>1. th[t].pc # "idle"
    BY <1>1 DEF Lookup
  <2>2. msg' = msg \/ Nak(t) \/ (led[Ev(t)].result # "none" /\ Ack(t))
    BY Zenon, <1>1 DEF Lookup
  <2> QED BY Zenon, <1>a, <1>n, <1>s, <2>1, <2>2
<1>2. CASE Record(t) \/ Accept(t)
  <2>1. th[t].pc # "idle"
    BY <1>2 DEF Record, Accept
  <2>2. msg' = msg \/ Nak(t)
    BY Zenon, <1>2 DEF Record, Accept
  <2> QED BY Zenon, <1>n, <1>s, <2>1, <2>2
<1>3. CASE Final(t)
  <2>1. th[t].pc # "idle"
    BY <1>3 DEF Final
  <2>2. Nak(t) \/ (led[Ev(t)].result # "none" /\ Ack(t))
    BY Zenon, <1>3 DEF Final
  <2> QED BY Zenon, <1>a, <1>n, <2>1, <2>2
<1>4. CASE msg' = msg
  BY <1>4, <1>s
<1> QED BY Zenon, <1>1, <1>2, <1>3, <1>4 DEF Goroutine, CheckActive, Register, Begin,
          Unstarted, Run, Complete, Publish, Cleanup

--------------------------------------------------------------------------------
(***************************************************************************)
(* Type correctness.                                                       *)
(***************************************************************************)

\* The part of TypeOK that neither a goroutine, the ledger nor the stream holds.
RestOK ==
    /\ cancelKeys \in [Keys -> Threads \cup {None}]
    /\ cx \in Targets \cup {None}
    /\ up \in {"up", "stopping", "down"}
    /\ published \subseteq Events \X Outcomes
    /\ late \subseteq Events
    /\ interrupted \subseteq Events /\ unsupported \subseteq Targets /\ faults \in 0 .. MaxFaults

\* The invariant of the types from those of its parts (TypeOK).
LEMMA TypeParts ==
    ASSUME TypeInv, LedgerStep, AckStep, RestOK', th' \in [Threads -> Thread],
           \A t \in Threads : Sound(th'[t])
    PROVE  TypeInv'
<1>1. TypeOK'
  BY DEF LedgerStep, AckStep, RestOK, TypeOK, MessageStates
<1>2. (\A t \in Threads : Sound(th[t]))'
  BY DEF Sound, Thread
<1> QED BY <1>1, <1>2 DEF TypeInv

\* A failed ledger transaction is counted (LedgerFails).
LEMMA FaultCounted ==
    ASSUME TypeInv, faults' = faults \/ LedgerFails
    PROVE  faults' \in 0 .. MaxFaults
BY FaultAssumption DEF LedgerFails, TypeInv, TypeOK

\* The cancels map and the results sent by a goroutine.
LEMMA GoroutineRest ==
    ASSUME TypeInv, NEW t \in Threads, Goroutine(t)
    PROVE  RestOK'
<1>0. RestOK
  BY DEF TypeInv, TypeOK, RestOK
<1>1. CASE Lookup(t)
  <2>1. Ev(t) \in Events /\ led[Ev(t)] \in Receipt
    BY <1>1, ThreadEvent DEF Lookup, TypeInv, TypeOK
  <2>2. \/ published' = published
        \/ /\ led[Ev(t)].result # "none"
           /\ published' = published \cup {<<Ev(t), led[Ev(t)].result>>}
    BY Zenon, <1>1 DEF Lookup
  <2>3. published' \subseteq Events \X Outcomes
    BY <1>0, <2>1, <2>2 DEF RestOK, Receipt
  <2> QED BY <1>0, <1>1, <2>3 DEF Lookup, RestOK
<1>2. CASE Register(t)
  <2>1. Ev(t) \in Keys /\ TargetOf(Ev(t)) \in Keys
    BY <1>2, ThreadEvent DEF Register, Keys
  <2>2. cancelKeys' = cancelKeys \/ cancelKeys' = [cancelKeys EXCEPT ![Ev(t)] = t, ![TargetOf(Ev(t))] = t]
    BY Zenon, <1>2 DEF Register
  <2>3. cancelKeys' \in [Keys -> Threads \cup {None}]
    BY <1>0, <2>1, <2>2 DEF RestOK
  <2> QED BY <1>0, <1>2, <2>3 DEF Register, RestOK
<1>3. CASE Cleanup(t)
  <2>1. cancelKeys' \in [Keys -> Threads \cup {None}]
    BY Zenon, <1>0, <1>3 DEF Cleanup, RestOK
  <2> QED BY <1>0, <1>3, <2>1 DEF Cleanup, RestOK
<1>4. CASE Publish(t)
  <2>1. Ev(t) \in Events /\ th[t].out \in Outcomes
    BY <1>4, ThreadEvent DEF Publish, TypeInv, Sound
  <2> QED BY <1>0, <1>4, <2>1 DEF Publish, RestOK
<1>5. CASE Complete(t)
  <2>1. Ev(t) \in Events
    BY <1>5, ThreadEvent DEF Complete
  <2>2. faults' = faults \/ LedgerFails
    BY Zenon, <1>5 DEF Complete
  <2>3. interrupted' \subseteq Events
    BY <1>0, <1>5, <2>1 DEF Complete, RestOK
  <2> QED BY <1>0, <1>5, <2>2, <2>3, FaultCounted DEF Complete, RestOK
<1>6. CASE Record(t) \/ Begin(t)
  <2>1. faults' = faults \/ LedgerFails
    BY Zenon, <1>6 DEF Record, Begin
  <2> QED BY <1>0, <1>6, <2>1, FaultCounted DEF Record, Begin, RestOK
<1>7. CASE CheckActive(t) \/ Accept(t) \/ Unstarted(t) \/ Run(t) \/ Final(t)
  <2>1. UNCHANGED <<cancelKeys, cx, up, published, late, interrupted, unsupported, faults>>
    BY Zenon, <1>7 DEF CheckActive, Accept, Unstarted, Run, Final
  <2> QED BY <1>0, <2>1 DEF RestOK
<1> QED BY Zenon, <1>1, <1>2, <1>3, <1>4, <1>5, <1>6, <1>7 DEF Goroutine

\* The receipts MarkCancelled may change: one, and none that has ended.
LEMMA CancelledReceipts ==
    ASSUME TypeInv, MarkCancelled
    PROVE  LedgerStep
<1>0. led \in [Events -> Receipt] /\ execs \in [Events -> Nat] /\ execs' = execs
  BY DEF TypeInv, TypeOK, MarkCancelled
<1>1. PICK f : led' = led \/ led' = [led EXCEPT ![f].state = "cancelled"]
  BY Zenon DEF MarkCancelled
<1>2. CASE f \in Events /\ led' = [led EXCEPT ![f].state = "cancelled"]
  <2> DEFINE r == [led[f] EXCEPT !.state = "cancelled"]
  <2>1. r \in Receipt /\ r.state = "cancelled" /\ r.result = led[f].result
    BY <1>0, <1>2 DEF Receipt, Outcomes
  <2>2. led' = [led EXCEPT ![f] = r]
    BY <1>0, <1>2
  <2> HIDE DEF r
  <2> QED BY Zenon, <1>0, <1>2, <2>1, <2>2, ReceiptWritten
<1>3. CASE f \notin Events /\ led' = [led EXCEPT ![f].state = "cancelled"]
  <2>1. led' = led
    BY <1>0, <1>3
  <2> QED BY <1>0, <2>1, LedgerRests
<1> QED BY <1>0, <1>1, <1>2, <1>3, LedgerRests

\* Contexts end in several goroutines at once (CancelContext, Stop, Deadline).
LEMMA ContextsEnd ==
    ASSUME TypeInv, NEW S, NEW ctx \in {"cancelled", "expired"},
           th' = [t \in Threads |-> IF t \in S /\ th[t].ctx = "live"
                                    THEN [th[t] EXCEPT !.ctx = ctx] ELSE th[t]]
    PROVE  /\ th' \in [Threads -> Thread]
           /\ \A t \in Threads : Sound(th'[t])
           /\ \A t \in Threads : th'[t].pc = th[t].pc /\ th'[t].msg = th[t].msg
<1>1. ASSUME NEW t \in Threads
      PROVE  /\ Sound(th'[t])
             /\ th'[t].pc = th[t].pc /\ th'[t].msg = th[t].msg
  <2>1. Sound(th[t]) /\ th[t] \in Thread
    BY DEF TypeInv, Sound
  <2>2. th'[t] = [th[t] EXCEPT !.ctx = ctx] \/ th'[t] = th[t]
    OBVIOUS
  <2> QED BY <2>1, <2>2 DEF Sound, Thread
<1>2. th' \in [Threads -> Thread]
  BY <1>1 DEF Sound
<1> QED BY <1>1, <1>2

\* Control messages, the replay of results and the passing of deadlines.
LEMMA ControlStep ==
    ASSUME TypeInv,
           \/ \E e \in Events : HandleResultReceipt(e) \/ ReplayResult(e) \/ Deadline(e)
           \/ \E g \in Targets : CancelContext(g)
           \/ MarkCancelled
    PROVE  LedgerStep /\ AckStep /\ TypeInv'
<1>0. RestOK /\ led \in [Events -> Receipt] /\ th \in [Threads -> Thread]
  BY DEF TypeInv, TypeOK, RestOK
<1>t. th' = th => th' \in [Threads -> Thread] /\ \A t \in Threads : Sound(th'[t])
  BY DEF TypeInv, TypeOK
<1>1. ASSUME NEW e \in Events, HandleResultReceipt(e) PROVE LedgerStep /\ AckStep /\ TypeInv'
  <2> DEFINE r == [led[e] EXCEPT !.acked = TRUE]
  <2>1. r \in Receipt /\ r.state = led[e].state /\ r.result = led[e].result
    BY Zenon, <1>0 DEF Receipt
  <2>2. led' = [led EXCEPT ![e] = r] /\ execs' = execs
    BY <1>0, <1>1 DEF HandleResultReceipt
  <2> HIDE DEF r
  <2>3. LedgerStep
    BY Zenon, <2>1, <2>2, ReceiptWritten
  <2>4. RestOK'
    BY <1>0, <1>1 DEF HandleResultReceipt, RestOK
  <2> QED BY <1>1, <1>t, <2>3, <2>4, StreamRests, TypeParts DEF HandleResultReceipt
<1>2. ASSUME NEW e \in Events, ReplayResult(e) PROVE LedgerStep /\ AckStep /\ TypeInv'
  <2>1. led[e].result \in Outcomes
    BY <1>0, <1>2 DEF ReplayResult, Receipt
  <2>2. RestOK'
    BY <1>0, <1>2, <2>1 DEF ReplayResult, RestOK
  <2> QED BY <1>2, <1>t, <2>2, LedgerRests, StreamRests, TypeParts DEF ReplayResult
<1>3. ASSUME NEW e \in Events, Deadline(e) PROVE LedgerStep /\ AckStep /\ TypeInv'
  <2> DEFINE S == {t \in Threads : Ev(t) = e}
  <2>1. th' = [t \in Threads |-> IF t \in S /\ th[t].ctx = "live"
                                THEN [th[t] EXCEPT !.ctx = "expired"] ELSE th[t]]
    BY <1>3 DEF Deadline
  <2> HIDE DEF S
  <2>2. th' \in [Threads -> Thread] /\ \A t \in Threads : Sound(th'[t])
    BY Zenon, <2>1, ContextsEnd
  <2>3. RestOK'
    BY <1>0, <1>3 DEF Deadline, RestOK
  <2> QED BY <1>3, <2>2, <2>3, LedgerRests, StreamRests, TypeParts DEF Deadline
<1>4. ASSUME NEW g \in Targets, CancelContext(g) PROVE LedgerStep /\ AckStep /\ TypeInv'
  <2> DEFINE S == {cancelKeys[g]}
  <2>1. th' = [t \in Threads |-> IF t \in S /\ th[t].ctx = "live"
                                THEN [th[t] EXCEPT !.ctx = "cancelled"] ELSE th[t]]
    BY <1>4 DEF CancelContext
  <2> HIDE DEF S
  <2>2. th' \in [Threads -> Thread] /\ \A t \in Threads : Sound(th'[t])
    BY Zenon, <2>1, ContextsEnd
  <2>3. RestOK'
    BY <1>0, <1>4 DEF CancelContext, RestOK
  <2> QED BY <1>4, <2>2, <2>3, LedgerRests, StreamRests, TypeParts DEF CancelContext
<1>5. CASE MarkCancelled
  <2>1. LedgerStep
    BY <1>5, CancelledReceipts
  <2>2. RestOK'
    BY <1>0, <1>5 DEF MarkCancelled, RestOK
  <2> QED BY <1>5, <1>t, <2>1, <2>2, StreamRests, TypeParts DEF MarkCancelled
<1> QED BY Zenon, <1>1, <1>2, <1>3, <1>4, <1>5

\* The process ends and starts; only the ledger and the stream outlive it.
LEMMA ProcessStep ==
    ASSUME TypeInv, Crash \/ Stop \/ Stopped \/ Start
    PROVE  LedgerStep /\ AckStep /\ TypeInv'
<1>0. RestOK /\ th \in [Threads -> Thread] /\ msg \in [Messages -> MessageStates]
  BY DEF TypeInv, TypeOK, RestOK, MessageStates
<1>t. th' = th => th' \in [Threads -> Thread] /\ \A t \in Threads : Sound(th'[t])
  BY DEF TypeInv, TypeOK
<1>l. LedgerStep
  BY LedgerRests DEF Crash, Stop, Stopped, Start
<1>f. faults < MaxFaults /\ faults' = faults + 1 => faults' \in 0 .. MaxFaults
  BY FaultCounted DEF LedgerFails
<1>1. CASE Crash
  <2>1. Sound(IdleThread) /\ IdleThread \in Thread
    BY DEF Sound, IdleThread, Thread
  <2>2. th' \in [Threads -> Thread] /\ \A t \in Threads : Sound(th'[t])
    BY <1>1, <2>1 DEF Crash
  <2>3. RestOK'
    BY <1>0, <1>1, <1>f DEF Crash, RestOK
  <2> QED BY <1>1, <1>l, <2>2, <2>3, StreamRests, TypeParts DEF Crash
<1>2. CASE Stop
  <2>1. th' = [t \in Threads |-> IF t \in Threads /\ th[t].ctx = "live"
                                THEN [th[t] EXCEPT !.ctx = "cancelled"] ELSE th[t]]
    BY <1>2 DEF Stop
  <2>2. th' \in [Threads -> Thread] /\ \A t \in Threads : Sound(th'[t])
    BY Zenon, <2>1, ContextsEnd
  <2>3. RestOK'
    BY <1>0, <1>2, <1>f DEF Stop, RestOK
  <2> QED BY Zenon, <1>2, <1>l, <2>2, <2>3, StreamRests, TypeParts DEF Stop
<1>3. CASE Stopped
  <2>1. msg' = msg \/ msg' = [m \in Messages |-> IF msg[m] = "absent" THEN "absent" ELSE "pending"]
    BY <1>3 DEF Stopped
  <2>2. AckStep
    BY <1>0, <2>1 DEF AckStep, MessageStates
  <2>3. RestOK'
    BY <1>0, <1>3 DEF Stopped, RestOK
  <2> QED BY <1>3, <1>l, <1>t, <2>2, <2>3, TypeParts DEF Stopped
<1>4. CASE Start
  <2>1. RestOK'
    BY <1>0, <1>4 DEF Start, RestOK
  <2> QED BY <1>4, <1>l, <1>t, <2>1, StreamRests, TypeParts DEF Start
<1> QED BY <1>1, <1>2, <1>3, <1>4

\* Commands are published, delivered and delivered again.
LEMMA StreamStep ==
    ASSUME TypeInv, NEW m \in Messages,
           Command(m) \/ Redeliver(m) \/ \E t \in Threads : Deliver(t, m)
    PROVE  LedgerStep /\ AckStep /\ TypeInv'
<1>0. RestOK /\ th \in [Threads -> Thread]
  BY DEF TypeInv, TypeOK, RestOK
<1>t. th' = th => th' \in [Threads -> Thread] /\ \A t \in Threads : Sound(th'[t])
  BY DEF TypeInv, TypeOK
<1>1. UNCHANGED <<led, execs, cancelKeys, cx, up, published, late, interrupted, unsupported, faults>>
  BY Zenon DEF Command, Redeliver, Deliver
<1>2. LedgerStep
  BY <1>1, LedgerRests
<1>3. RestOK'
  BY <1>0, <1>1 DEF RestOK
<1>4. \E s \in {"pending", "out", "terminated"} : msg' = [msg EXCEPT ![m] = s]
  BY Zenon DEF Command, Redeliver, Deliver
<1>5. AckStep
  BY Zenon, <1>4, MessageChanged DEF MessageStates
<1>6. th' \in [Threads -> Thread] /\ \A t \in Threads : Sound(th'[t])
  <2>1. ASSUME NEW t \in Threads, Deliver(t, m), th' # th
        PROVE  th' \in [Threads -> Thread] /\ \A u \in Threads : Sound(th'[u])
    <3> DEFINE r == [th[t] EXCEPT !.pc = "lookup", !.msg = m]
    <3>1. th' = [th EXCEPT ![t].pc = "lookup", ![t].msg = m]
      BY Zenon, <2>1 DEF Deliver
    <3>2. th[t] \in Thread
      BY <1>0
    <3>3. Sound(r)
      BY Zenon, <3>2 DEF Sound, Thread
    <3>4. Moves(t, r)
      BY Zenon, <1>0, <3>1, <3>2 DEF Moves, Thread
    <3> HIDE DEF r
    <3> QED BY <3>3, <3>4, MoveSound
  <2>2. th' = th \/ \E t \in Threads : Deliver(t, m)
    BY Zenon DEF Command, Redeliver
  <2> QED BY Zenon, <1>t, <2>1, <2>2
<1> QED BY <1>2, <1>3, <1>5, <1>6, TypeParts

\* What every step does, for the theorems below.
LEMMA NextStep ==
    ASSUME TypeInv, [Next]_vars
    PROVE  LedgerStep /\ AckStep /\ TypeInv'
<1>1. ASSUME NEW t \in Threads, Goroutine(t) PROVE LedgerStep /\ AckStep /\ TypeInv'
  <2>1. PICK r : Sound(r) /\ Moves(t, r)
    BY <1>1, GoroutineMoves
  <2>2. th' \in [Threads -> Thread] /\ \A u \in Threads : Sound(th'[u])
    BY <2>1, MoveSound
  <2> QED BY <1>1, <2>2, GoroutineLedger, GoroutineAcks, GoroutineRest, TypeParts
<1>2. CASE UNCHANGED vars
  <2>1. LedgerStep /\ AckStep
    BY <1>2, LedgerRests, StreamRests DEF vars
  <2>2. TypeInv'
    BY <1>2 DEF vars, TypeInv, TypeOK, Sound
  <2> QED BY <2>1, <2>2
<1> QED BY Zenon, <1>1, <1>2, ControlStep, ProcessStep, StreamStep DEF Next

--------------------------------------------------------------------------------
(***************************************************************************)
(* Running receipts.                                                       *)
(***************************************************************************)
Owns(u, e) == th[u].pc \in {"run", "complete"} /\ Ev(u) = e

\* Where a running receipt comes from in a goroutine's step: it was running, or
\* BeginExecution has just marked it.
LEMMA RunningBegins ==
    ASSUME TypeInv, NEW t \in Threads, Goroutine(t), NEW e \in Events, led'[e].state = "running"
    PROVE  \/ led[e].state = "running" /\ ~(Complete(t) /\ e = Ev(t) /\ e \notin interrupted')
           \/ th[t].pc = "begin" /\ Goto(t, "run") /\ e = Ev(t)
<1>0. led \in [Events -> Receipt]
  BY DEF TypeInv, TypeOK
<1>1. CASE Record(t)
  <2>1. led' = led \/ led' = [led EXCEPT ![Ev(t)].state = "received"]
    BY Zenon, <1>1 DEF Record
  <2>2. led[e].state = "running"
    BY <1>0, <2>1 DEF Receipt
  <2> QED BY <1>1, <2>2 DEF Record, Complete
<1>2. CASE Begin(t)
  <2>1. \/ led' = led
        \/ Goto(t, "run") /\ led' = [led EXCEPT ![Ev(t)].state = "running"]
    BY Zenon, <1>2 DEF Begin
  <2>2. e # Ev(t) => led'[e] = led[e] \/ led' = led
    BY <1>0, <2>1
  <2> QED BY <1>2, <2>1, <2>2 DEF Begin, Complete
<1>3. CASE Complete(t)
  <2>1. \/ led' = [led EXCEPT ![Ev(t)] = [state |-> th[t].out, result |-> th[t].out,
                                         acked |-> FALSE]]
        \/ led' = led /\ interrupted' = interrupted \cup {Ev(t)}
    BY Zenon, <1>3 DEF Complete
  <2>2. th[t].out \in Outcomes
    BY <1>3 DEF Complete, TypeInv, Sound
  <2>3. th[t].out # "running"
    BY <2>2 DEF Outcomes
  <2> QED BY <1>0, <2>1, <2>3
<1>4. CASE led' = led /\ th[t].pc # "complete"
  BY <1>4 DEF Complete
<1> QED BY <1>1, <1>2, <1>3, <1>4 DEF Goroutine, Lookup, CheckActive, Accept, Register,
          Unstarted, Run, Publish, Cleanup, Final

\* A goroutine gives up a running receipt only when it ends it or loses its result.
LEMMA GoroutineOwner ==
    ASSUME TypeInv, RunningHasOwner, NEW t \in Threads, Goroutine(t)
    PROVE  RunningHasOwner'
<1> SUFFICES ASSUME NEW e \in Events, led'[e].state = "running", e \notin interrupted'
             PROVE  \E u \in Threads : Owns(u, e)'
  BY DEF RunningHasOwner, Owns
<1>0. th \in [Threads -> Thread] /\ th[t] \in Thread
  BY DEF TypeInv, TypeOK
<1>1. \A u \in Threads : u # t => th'[u] = th[u]
  BY GoroutineMoves, MoveSound
<1>2. CASE th[t].pc = "begin" /\ Goto(t, "run") /\ e = Ev(t)
  <2>1. th'[t].pc = "run" /\ th'[t].msg = th[t].msg
    BY <1>0, <1>2 DEF Goto, Thread
  <2> QED BY <1>2, <2>1 DEF Owns, Ev
<1>3. CASE led[e].state = "running" /\ ~(Complete(t) /\ e = Ev(t))
  <2>1. e \notin interrupted
    BY Zenon DEF Goroutine, Lookup, CheckActive, Record, Accept, Register, Begin, Unstarted, Run,
           Complete, Publish, Cleanup, Final
  <2>2. PICK u \in Threads : Owns(u, e)
    BY Zenon, <1>3, <2>1 DEF RunningHasOwner, Owns
  <2>3. CASE u # t
    BY <1>1, <2>2, <2>3 DEF Owns, Ev
  <2>4. CASE u = t
    <3>1. Run(t)
      BY <1>3, <2>2, <2>4 DEF Owns, Goroutine, Lookup, CheckActive, Record, Accept, Register, Begin,
         Unstarted, Complete, Publish, Cleanup, Final
    <3>2. th'[t].pc = "complete" /\ th'[t].msg = th[t].msg
      BY <1>0, <3>1 DEF Run, Thread
    <3> QED BY <2>2, <2>4, <3>2 DEF Owns, Ev
  <2> QED BY <2>3, <2>4
<1> QED BY <1>2, <1>3, RunningBegins

\* The owner of a running receipt keeps it while contexts end and messages
\* move; when the process dies its receipts are counted as interrupted.
LEMMA OtherOwner ==
    ASSUME TypeInv, RunningHasOwner, Next, ~ \E t \in Threads : Goroutine(t)
    PROVE  RunningHasOwner'
<1> SUFFICES ASSUME NEW e \in Events, led'[e].state = "running", e \notin interrupted'
             PROVE  \E u \in Threads : Owns(u, e)'
  BY DEF RunningHasOwner, Owns
<1>0. led \in [Events -> Receipt] /\ th \in [Threads -> Thread]
  BY DEF TypeInv, TypeOK
<1>1. led[e].state = "running" /\ ~Crash
  <2>1. CASE Crash
    BY <2>1 DEF Crash
  <2>2. CASE MarkCancelled
    <3>1. PICK f : led' = led \/ led' = [led EXCEPT ![f].state = "cancelled"]
      BY Zenon, <2>2 DEF MarkCancelled
    <3>2. led[e].state = "running"
      BY <1>0, <3>1 DEF Receipt
    <3> QED BY <2>1, <3>2
  <2>3. ASSUME NEW f \in Events, HandleResultReceipt(f) PROVE led[e].state = "running"
    <3>1. led' = [led EXCEPT ![f].acked = TRUE]
      BY <2>3 DEF HandleResultReceipt
    <3> QED BY <1>0, <3>1 DEF Receipt
  <2>4. CASE led' = led
    BY <2>1, <2>4
  <2>5. \/ led' = led \/ MarkCancelled \/ \E f \in Events : HandleResultReceipt(f)
    BY Zenon DEF Next, Deliver, ReplayResult, Deadline, CancelContext, Crash, Stop, Stopped, Start,
           Command, Redeliver
  <2> QED BY Zenon, <2>1, <2>2, <2>3, <2>4, <2>5
<1>2. interrupted' = interrupted
  BY Zenon, <1>1 DEF Next, Deliver, HandleResultReceipt, ReplayResult, Deadline, CancelContext, MarkCancelled,
         Stop, Stopped, Start, Command, Redeliver
<1>3. PICK u \in Threads : Owns(u, e)
  BY Zenon, <1>1, <1>2 DEF RunningHasOwner, Owns
<1>4. th'[u].pc = th[u].pc /\ th'[u].msg = th[u].msg
  <2>1. CASE th' = th
    BY <2>1
  <2>2. ASSUME NEW t \in Threads, NEW m \in Messages, Deliver(t, m)
        PROVE  th'[u] = th[u]
    <3>1. u # t
      BY <1>3, <2>2 DEF Owns, Deliver
    <3>2. th' = th \/ th' = [th EXCEPT ![t].pc = "lookup", ![t].msg = m]
      BY Zenon, <2>2 DEF Deliver
    <3> QED BY <1>0, <3>1, <3>2
  <2>3. CASE Stop \/ (\E f \in Events : Deadline(f)) \/ \E g \in Targets : CancelContext(g)
    <3>1. th'[u] = th[u] \/ \E c : th'[u] = [th[u] EXCEPT !.ctx = c]
      BY Zenon, <2>3 DEF Stop, Deadline, CancelContext
    <3> QED BY Zenon, <1>0, <3>1 DEF Thread
  <2> QED BY Zenon, <1>1, <2>1, <2>2, <2>3 DEF Next, HandleResultReceipt, ReplayResult, MarkCancelled,
             Stopped, Start, Command, Redeliver
<1> QED BY <1>3, <1>4 DEF Owns, Ev

--------------------------------------------------------------------------------
(***************************************************************************)
(* The theorems.                                                           *)
(***************************************************************************)

\* In every state the variables have the types the Go declarations give them,
\* and each goroutine has what its next statement needs.
THEOREM TypeInvariance == Spec => []TypeInv
<1>1. Init => TypeInv
  BY FaultAssumption DEF Init, TypeInv, TypeOK, Sound, IdleThread, Thread, Receipt
<1>2. TypeInv /\ [Next]_vars => TypeInv'
  BY NextStep
<1> QED BY <1>1, <1>2, PTL DEF Spec

\* An event whose receipt can still be begun has not been executed.
OnceInv ==
    \A e \in Events : /\ execs[e] <= 1
                      /\ led[e].state \in {"none", "received"} => execs[e] = 0

\* The handler of a command starts at most once (BeginExecution), whatever
\* copies, redeliveries, goroutines, crashes and failed ledger writes there are.
THEOREM ExecutesOnce == Spec => []AtMostOnce
<1>1. Init => OnceInv
  BY DEF Init, OnceInv
<1>2. TypeInv /\ OnceInv /\ [Next]_vars => OnceInv'
  <2> SUFFICES ASSUME TypeInv, OnceInv, [Next]_vars PROVE OnceInv'
    OBVIOUS
  <2>1. LedgerStep
    BY NextStep
  <2>2. execs \in [Events -> Nat]
    BY DEF TypeInv, TypeOK
  <2> QED BY <2>1, <2>2 DEF LedgerStep, OnceInv
<1>3. OnceInv => AtMostOnce
  BY DEF OnceInv, AtMostOnce
<1> QED BY <1>1, <1>2, <1>3, TypeInvariance, PTL DEF Spec

\* A command is acknowledged to JetStream only after its terminal receipt is in
\* the ledger (handleDurableCommand), so a crash never loses both.
THEOREM AcksAreBacked == Spec => []AckedIsTerminal
<1>1. Init => AckedIsTerminal
  BY DEF Init, AckedIsTerminal
<1>2. TypeInv /\ AckedIsTerminal /\ [Next]_vars => AckedIsTerminal'
  <2> SUFFICES ASSUME TypeInv, AckedIsTerminal, [Next]_vars,
                      NEW m \in Messages, msg'[m] = "acked"
               PROVE  led'[EventOf(m)].result # "none"
    BY Zenon DEF AckedIsTerminal
  <2>1. LedgerStep /\ AckStep
    BY NextStep
  <2>2. led[EventOf(m)].result # "none"
    BY Zenon, <2>1 DEF AckStep, AckedIsTerminal
  <2> QED BY Zenon, <2>1, <2>2, MessageEvents DEF LedgerStep
<1> QED BY <1>1, <1>2, TypeInvariance, PTL DEF Spec

\* A running receipt is being executed by a goroutine of this process unless its
\* execution was interrupted, which is what handleDurableCommand infers when it
\* finds one without an entry in the cancels map.
THEOREM RunningIsOwned == Spec => []RunningHasOwner
<1>1. Init => RunningHasOwner
  BY DEF Init, RunningHasOwner
<1>2. TypeInv /\ RunningHasOwner /\ [Next]_vars => RunningHasOwner'
  <2>1. ASSUME TypeInv, RunningHasOwner, UNCHANGED vars PROVE RunningHasOwner'
    BY Zenon, <2>1 DEF vars, RunningHasOwner, Ev
  <2> QED BY <2>1, GoroutineOwner, OtherOwner
<1> QED BY <1>1, <1>2, TypeInvariance, PTL DEF Spec

\* No step begins a command whose cancellation is in the ledger (BeginExecution).
THEOREM CancelledIsNotBegun == Spec => [][~BeginsCancelled]_vars
<1>1. TypeInv /\ [Next]_vars => [~BeginsCancelled]_vars
  <2> SUFFICES ASSUME TypeInv, [Next]_vars PROVE ~BeginsCancelled
    OBVIOUS
  <2>1. LedgerStep
    BY NextStep
  <2> QED BY <2>1 DEF LedgerStep, BeginsCancelled
<1> QED BY <1>1, TypeInvariance, PTL DEF Spec

--------------------------------------------------------------------------------
(***************************************************************************)
(* Reported success.                                                       *)
(***************************************************************************)

\* A success on its way to the orchestrator, in a goroutine, in the ledger or
\* sent, is one of an execution that was begun.
Begun(e) == execs[e] >= 1

SuccessInv ==
    /\ \A t \in Threads : \/ th[t].pc = "run"
                          \/ th[t].pc \in {"complete", "publish"} /\ th[t].out = "succeeded"
                          => Begun(Ev(t))
    /\ \A e \in Events : led[e].result = "succeeded" => Begun(e)
    /\ \A e \in Events : <<e, "succeeded">> \in published => Begun(e)

\* An execution that was begun stays so.
LEMMA BegunStays ==
    ASSUME TypeInv, LedgerStep
    PROVE  \A e \in Events : Begun(e) => execs'[e] >= 1
BY DEF LedgerStep, Begun, TypeInv, TypeOK

\* Where a goroutine's success comes from (execute).
LEMMA GoroutineSuccess ==
    ASSUME TypeInv, SuccessInv, NEW t \in Threads, Goroutine(t)
    PROVE  SuccessInv'
<1>0. /\ th \in [Threads -> Thread] /\ th[t] \in Thread
      /\ led \in [Events -> Receipt] /\ execs \in [Events -> Nat]
  BY DEF TypeInv, TypeOK
<1>1. \A e \in Events : Begun(e) => execs'[e] >= 1
  BY GoroutineLedger, BegunStays
<1>2. \A u \in Threads : u # t => th'[u] = th[u]
  BY GoroutineMoves, MoveSound
<1>3. th[t].pc # "idle" /\ Ev(t) \in Events
  <2>1. th[t].pc # "idle"
    BY DEF Goroutine, Lookup, CheckActive, Record, Accept, Register, Begin, Unstarted, Run,
           Complete, Publish, Cleanup, Final
  <2> QED BY <2>1, ThreadEvent
<1>4. \A u \in Threads : u # t /\ th[u].pc # "idle" => Ev(u) \in Events
  BY ThreadEvent
<1>5. ASSUME \/ th'[t].pc = "run"
             \/ th'[t].pc \in {"complete", "publish"} /\ th'[t].out = "succeeded"
      PROVE  EventOf(th'[t].msg) = Ev(t) /\ execs'[Ev(t)] >= 1
  <2>1. CASE Begin(t)
    <3>1. \/ Goto(t, "run") /\ execs' = [execs EXCEPT ![Ev(t)] = @ + 1]
          \/ Goto(t, "unstarted") \/ Goto(t, "cleanup")
      BY Zenon, <2>1 DEF Begin
    <3>2. th'[t].pc = "run" => execs' = [execs EXCEPT ![Ev(t)] = @ + 1]
      BY <1>0, <3>1 DEF Goto, Thread
    <3>3. th'[t].msg = th[t].msg /\ th'[t].pc \in {"run", "unstarted", "cleanup"}
      BY <1>0, <3>1 DEF Goto, Thread
    <3> QED BY <1>0, <1>3, <1>5, <3>2, <3>3 DEF Begun, Ev
  <2>2. CASE Run(t)
    <3>1. th'[t].msg = th[t].msg
      BY <1>0, <2>2 DEF Run, Thread
    <3>2. Begun(Ev(t))
      BY Zenon, <2>2 DEF Run, SuccessInv
    <3> QED BY <1>1, <1>3, <3>1, <3>2 DEF Ev
  <2>3. CASE Complete(t)
    <3>1. Goto(t, "publish") \/ Goto(t, AfterTerminal(t))
      BY Zenon, <2>3 DEF Complete
    <3>2. th'[t].msg = th[t].msg /\ th'[t].out = th[t].out
      BY <1>0, <3>1 DEF Goto, Thread
    <3>3. th[t].pc = "complete" /\ th'[t].pc # "run"
      BY <1>0, <2>3, <3>1 DEF Complete, Goto, AfterTerminal, Thread
    <3>4. Begun(Ev(t))
      BY <1>5, <3>2, <3>3 DEF SuccessInv
    <3> QED BY <1>1, <1>3, <3>2, <3>4 DEF Ev
  <2>4. CASE Lookup(t) \/ CheckActive(t) \/ Register(t) \/ Unstarted(t)
    <3>1. \/ Finish(t)
          \/ \E pc \in {"record", "register", "active", "cleanup"} : Goto(t, pc)
          \/ \E out \in {"cancelled", "failed"} :
                th' = [th EXCEPT ![t].pc = "complete", ![t].out = out]
          \/ \E c : th' = [th EXCEPT ![t].pc = "begin", ![t].ctx = c]
      BY Zenon, <2>4 DEF Lookup, CheckActive, Register, Unstarted, Nak, Ack
    <3>2. th'[t].pc \notin {"run", "publish"} /\ (th'[t].pc = "complete" => th'[t].out # "succeeded")
      BY <1>0, <3>1 DEF Finish, Goto, IdleThread, Thread
    <3> QED BY <1>5, <3>2
  <2>5. CASE Record(t) \/ Accept(t) \/ Publish(t) \/ Cleanup(t) \/ Final(t)
    <3>1. \/ Finish(t)
          \/ \E pc \in {"accept", "register", "cleanup", "final"} : Goto(t, pc)
      BY Zenon, <2>5 DEF Record, Accept, Publish, Cleanup, Final, Nak, Ack, AfterTerminal
    <3>2. th'[t].pc \notin {"run", "complete", "publish"}
      BY <1>0, <3>1 DEF Finish, Goto, IdleThread, Thread
    <3> QED BY <1>5, <3>2
  <2> QED BY Zenon, <2>1, <2>2, <2>3, <2>4, <2>5 DEF Goroutine
<1>6. ASSUME NEW e \in Events, led'[e].result = "succeeded" PROVE Begun(e)
  <2>1. CASE led[e].result = "succeeded"
    BY <2>1 DEF SuccessInv
  <2>2. CASE Complete(t) /\ e = Ev(t) /\ th[t].out = "succeeded"
    BY <2>2 DEF Complete, SuccessInv
  <2>3. led[e].result = "succeeded" \/ (Complete(t) /\ e = Ev(t) /\ th[t].out = "succeeded")
    <3>1. \/ led' = led
          \/ led' = [led EXCEPT ![Ev(t)].state = "received"]
          \/ led' = [led EXCEPT ![Ev(t)].state = "running"]
          \/ /\ Complete(t)
             /\ led' = [led EXCEPT ![Ev(t)] = [state |-> th[t].out, result |-> th[t].out,
                                               acked |-> FALSE]]
      BY Zenon DEF Goroutine, Lookup, CheckActive, Record, Accept, Register, Begin, Unstarted, Run,
             Complete, Publish, Cleanup, Final
    <3> QED BY <1>0, <1>6, <3>1 DEF Receipt
  <2> QED BY <2>1, <2>2, <2>3
<1>7. ASSUME NEW e \in Events, <<e, "succeeded">> \in published' PROVE Begun(e)
  <2>1. \/ published' = published
        \/ Lookup(t) /\ published' = published \cup {<<Ev(t), led[Ev(t)].result>>}
        \/ Publish(t) /\ published' = published \cup {<<Ev(t), th[t].out>>}
    BY Zenon DEF Goroutine, Lookup, CheckActive, Record, Accept, Register, Begin, Unstarted, Run,
           Complete, Publish, Cleanup, Final
  <2>2. \/ <<e, "succeeded">> \in published
        \/ e = Ev(t) /\ led[e].result = "succeeded"
        \/ e = Ev(t) /\ Publish(t) /\ th[t].out = "succeeded"
    BY <1>7, <2>1
  <2> QED BY <2>2 DEF SuccessInv, Publish
<1>8. ASSUME NEW u \in Threads,
             \/ th'[u].pc = "run"
             \/ th'[u].pc \in {"complete", "publish"} /\ th'[u].out = "succeeded"
      PROVE  execs'[EventOf(th'[u].msg)] >= 1
  <2>1. CASE u = t
    BY <1>5, <1>8, <2>1
  <2>2. CASE u # t
    <3>1. th'[u] = th[u] /\ Ev(u) \in Events /\ Begun(Ev(u))
      BY <1>2, <1>4, <1>8, <2>2 DEF SuccessInv
    <3> QED BY <1>1, <3>1 DEF Ev
  <2> QED BY <2>1, <2>2
<1> QED BY Zenon, <1>1, <1>6, <1>7, <1>8 DEF SuccessInv, Ev, Begun

\* The rest of the agent invents no success either.
LEMMA OtherSuccess ==
    ASSUME TypeInv, SuccessInv, Next, ~ \E t \in Threads : Goroutine(t)
    PROVE  SuccessInv'
<1>0. led \in [Events -> Receipt] /\ th \in [Threads -> Thread]
  BY DEF TypeInv, TypeOK
<1>1. execs' = execs
  BY Zenon DEF Next, Deliver, HandleResultReceipt, ReplayResult, Deadline, CancelContext, MarkCancelled,
         Crash, Stop, Stopped, Start, Command, Redeliver
<1>2. ASSUME NEW e \in Events PROVE led'[e].result = led[e].result
  <2>1. \/ led' = led
        \/ \E f : led' = [led EXCEPT ![f].state = "cancelled"]
        \/ \E f \in Events : led' = [led EXCEPT ![f].acked = TRUE]
    BY Zenon DEF Next, Deliver, HandleResultReceipt, ReplayResult, Deadline, CancelContext, MarkCancelled,
           Crash, Stop, Stopped, Start, Command, Redeliver
  <2> QED BY <1>0, <2>1 DEF Receipt
<1>3. ASSUME NEW e \in Events, <<e, "succeeded">> \in published' PROVE Begun(e)
  <2>1. \/ published' = published
        \/ \E f \in Events : published' = published \cup {<<f, led[f].result>>}
    BY Zenon DEF Next, Deliver, HandleResultReceipt, ReplayResult, Deadline, CancelContext, MarkCancelled,
           Crash, Stop, Stopped, Start, Command, Redeliver
  <2>2. <<e, "succeeded">> \in published \/ led[e].result = "succeeded"
    BY <1>3, <2>1
  <2> QED BY <2>2 DEF SuccessInv
<1>4. ASSUME NEW u \in Threads
      PROVE  \/ th'[u].pc \in {"idle", "lookup"}
             \/ /\ th'[u].pc = th[u].pc /\ th'[u].msg = th[u].msg
                /\ th'[u].out = th[u].out
  <2>1. CASE Crash
    BY <2>1 DEF Crash, IdleThread
  <2>2. ASSUME NEW t \in Threads, NEW m \in Messages,
               th' = [th EXCEPT ![t].pc = "lookup", ![t].msg = m]
        PROVE  th'[u] = th[u] \/ th'[u].pc = "lookup"
    BY <1>0, <2>2 DEF Thread
  <2>3. CASE Stop \/ (\E f \in Events : Deadline(f)) \/ \E g \in Targets : CancelContext(g)
    <3>1. th'[u] = th[u] \/ \E c : th'[u] = [th[u] EXCEPT !.ctx = c]
      BY Zenon, <2>3 DEF Stop, Deadline, CancelContext
    <3> QED BY Zenon, <1>0, <3>1 DEF Thread
  <2>4. CASE th' = th
    BY <2>4
  <2>5. \/ th' = th \/ Crash
        \/ \E t \in Threads, m \in Messages : th' = [th EXCEPT ![t].pc = "lookup", ![t].msg = m]
        \/ Stop \/ (\E f \in Events : Deadline(f)) \/ \E g \in Targets : CancelContext(g)
    BY Zenon DEF Next, Deliver, HandleResultReceipt, ReplayResult, MarkCancelled,
           Stopped, Start, Command, Redeliver
  <2> QED BY Zenon, <2>1, <2>2, <2>3, <2>4, <2>5
<1>5. ASSUME NEW u \in Threads,
             \/ th'[u].pc = "run"
             \/ th'[u].pc \in {"complete", "publish"} /\ th'[u].out = "succeeded"
      PROVE  execs'[EventOf(th'[u].msg)] >= 1
  <2>1. th'[u].pc = th[u].pc /\ th'[u].msg = th[u].msg /\ th'[u].out = th[u].out
    BY <1>4, <1>5
  <2>2. Begun(Ev(u))
    BY <1>5, <2>1 DEF SuccessInv
  <2> QED BY <1>1, <2>1, <2>2 DEF Begun, Ev
<1> QED BY Zenon, <1>1, <1>2, <1>3, <1>5 DEF SuccessInv, Ev, Begun

\* A success the agent reports is that of a command it has executed, once
\* (execute, publishTerminalAt, replayResults).  With SuccessIsProven of
\* JobDispatch_proofs: what the orchestrator shows as succeeded happened.
THEOREM SuccessIsExecuted == Spec => []SuccessWasExecuted
<1>1. Init => SuccessInv
  BY DEF Init, SuccessInv, IdleThread
<1>2. TypeInv /\ SuccessInv /\ [Next]_vars => SuccessInv'
  <2>1. ASSUME TypeInv, SuccessInv, UNCHANGED vars PROVE SuccessInv'
    BY Zenon, <2>1 DEF vars, SuccessInv, Ev, Begun
  <2> QED BY <2>1, GoroutineSuccess, OtherSuccess
<1>3. TypeInv /\ SuccessInv /\ AtMostOnce => SuccessWasExecuted
  BY DEF SuccessInv, AtMostOnce, SuccessWasExecuted, Begun, TypeInv, TypeOK
<1> QED BY <1>1, <1>2, <1>3, TypeInvariance, ExecutesOnce, PTL DEF Spec
================================================================================
