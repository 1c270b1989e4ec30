--------------------------- MODULE AgentTelemetry ---------------------------
(***************************************************************************)
(* Telemetry from the agent to the database.                               *)
(*                                                                         *)
(* The collector publishes its samples, or queues them one transaction at  *)
(* a time in the agent's bbolt store while NATS is away.  A second         *)
(* goroutine pops the queue and replays it when the connection is back.    *)
(* JetStream hands each message to the orchestrator's durable consumer up  *)
(* to MaxDeliver times; the callback resolves the device, persists the     *)
(* rows and only then acknowledges.  The agent and the orchestrator may    *)
(* stop between any two steps.                                             *)
(*                                                                         *)
(* Telemetry is numbered, each kind in the order it is produced.  A        *)
(* message is the set of items it carries.                                 *)
(***************************************************************************)
EXTENDS Integers, Sequences, FiniteSets, SequencesExt

CONSTANTS NMetrics, NEvents, NBeats, \* how many of each the agent produces
          MaxItems,                  \* store.queue_max_items
          PopLimit,                  \* items popped by one replay (1000)
          MaxDeliver,                \* deliveries of a message (10)
          MaxDrops,                  \* lost connections and agent restarts
          MaxFailures                \* failures of the orchestrator

Metrics == 1 .. NMetrics
Events  == NMetrics + 1 .. NMetrics + NEvents
Beats   == NMetrics + NEvents + 1 .. NMetrics + NEvents + NBeats
Items   == Metrics \cup Events
Kinds   == {"metric", "event", "heartbeat"}
KindOf(i) == CASE i \in Metrics -> "metric"
               [] i \in Events  -> "event"
               [] OTHER         -> "heartbeat"

VARIABLES made,      \* kind -> the last item produced
          connected, \* nats.Conn.IsConnected
          unqueued,  \* samples the collector is still writing to the queue
          queue,     \* bbolt buckets: kind -> items in key order
          replay,    \* the replay goroutine: its step and what it popped
          wire,      \* messages published, not yet at JetStream
          stream,    \* message -> deliveries so far, or absent
          settled,   \* messages acknowledged or out of deliveries
          handling,  \* kind -> the consumer's callback
          rows,      \* telemetry -> rows the database holds for it
          device,    \* devices.status of this agent
          accepted,  \* items the queue took
          sent,      \* items whose Publish returned without an error
          drops, failures
vars == <<made, connected, unqueued, queue, replay, wire, stream, settled,
          handling, rows, device, accepted, sent, drops, failures>>

agentVars  == <<made, connected, unqueued, queue, replay, wire, accepted,
                sent, drops>>
serverVars == <<stream, settled, handling, rows, device, failures>>

Message(S) == [kind |-> KindOf(CHOOSE i \in S : TRUE), items |-> S]
Idle == [at |-> "idle", metrics |-> <<>>, events |-> <<>>]
Free == [at |-> "free", msg |-> {}]

Init ==
    /\ made = [metric |-> 0, event |-> NMetrics, heartbeat |-> NMetrics + NEvents]
    /\ connected = TRUE
    /\ unqueued = <<>> /\ queue = [k \in {"metric", "event"} |-> <<>>]
    /\ replay = Idle
    /\ wire = {} /\ stream = <<>> /\ settled = {}
    /\ handling = [k \in Kinds |-> Free]
    /\ rows = [i \in Items \cup Beats |-> 0]
    /\ device = "online"
    /\ accepted = {} /\ sent = {}
    /\ drops = 0 /\ failures = 0

-----------------------------------------------------------------------------
(* The agent's queue. *)

\* queueSize: both buckets count against the one limit.
QueueSizeOwnBucket(k) == Len(queue[k])
QueueSize(k) == Len(queue["metric"]) + Len(queue["event"])

\* QueueMetric, QueueEvent: ErrQueueFull refuses the newest item.
Queued(i) ==
    IF QueueSize(KindOf(i)) >= MaxItems
    THEN UNCHANGED <<queue, accepted>>
    ELSE /\ queue' = [queue EXCEPT ![KindOf(i)] = Append(@, i)]
         /\ accepted' = accepted \cup {i}

\* PopMetrics, PopEvents: read the oldest items and delete them, in one
\* transaction.
Oldest(k) == SubSeq(queue[k], 1, IF Len(queue[k]) < PopLimit THEN Len(queue[k])
                                 ELSE PopLimit)
PopFrom(k) == queue' = [queue EXCEPT ![k] = SubSeq(@, Len(Oldest(k)) + 1, Len(@))]

-----------------------------------------------------------------------------
(* The agent: comms.CommsHandler and the collector loop. *)

\* Client.Publish puts a message on the connection; an error leaves it with
\* the caller.
Publish(S) == /\ wire' = wire \cup {Message(S)}
              /\ sent' = sent \cup S

\* collectAndPublish, PublishMetrics: n samples are published in one message;
\* without a connection, or when Publish fails, they are queued.
Collect(n) ==
    /\ unqueued = <<>>
    /\ made.metric + n <= NMetrics
    /\ made' = [made EXCEPT !.metric = @ + n]
    /\ \/ connected /\ Publish(made.metric + 1 .. made.metric + n) /\ UNCHANGED unqueued
       \/ /\ unqueued' = [j \in 1 .. n |-> made.metric + j]
          /\ UNCHANGED <<wire, sent>>
    /\ UNCHANGED <<connected, queue, replay, accepted, drops, serverVars>>

\* queueMetrics writes one sample after the other.
QueueMetrics ==
    /\ unqueued # <<>>
    /\ Queued(Head(unqueued))
    /\ unqueued' = Tail(unqueued)
    /\ UNCHANGED <<made, connected, replay, wire, sent, drops, serverVars>>

\* PublishEvent, queueEvent.
PublishEvent ==
    /\ made.event + 1 \in Events
    /\ made' = [made EXCEPT !.event = @ + 1]
    /\ \/ connected /\ Publish({made.event + 1}) /\ UNCHANGED <<queue, accepted>>
       \/ Queued(made.event + 1) /\ UNCHANGED <<wire, sent>>
    /\ UNCHANGED <<connected, unqueued, replay, drops, serverVars>>

\* sendHeartbeat: never queued.
SendHeartbeat ==
    /\ made.heartbeat + 1 \in Beats
    /\ made' = [made EXCEPT !.heartbeat = @ + 1]
    /\ IF connected THEN Publish({made.heartbeat + 1}) ELSE UNCHANGED <<wire, sent>>
    /\ UNCHANGED <<connected, unqueued, queue, replay, accepted, drops, serverVars>>

\* replayQueued: first the metrics are popped ...
ReplayPopsMetrics ==
    /\ replay = Idle /\ connected
    /\ replay' = [Idle EXCEPT !.at = "events", !.metrics = Oldest("metric")]
    /\ PopFrom("metric")
    /\ UNCHANGED <<made, connected, unqueued, wire, accepted, sent, drops, serverVars>>

\* ... then the events ...
ReplayPopsEvents ==
    /\ replay.at = "events"
    /\ replay' = [replay EXCEPT !.at = "publish", !.events = Oldest("event")]
    /\ PopFrom("event")
    /\ UNCHANGED <<made, connected, unqueued, wire, accepted, sent, drops, serverVars>>

\* ... then each is published by itself; an error abandons the rest of its kind.
ReplayPublishes ==
    /\ replay.at = "publish" /\ connected
    /\ \/ /\ replay.metrics # <<>>
          /\ Publish({Head(replay.metrics)})
          /\ replay' = [replay EXCEPT !.metrics = Tail(@)]
       \/ /\ replay.metrics = <<>> /\ replay.events # <<>>
          /\ Publish({Head(replay.events)})
          /\ replay' = [replay EXCEPT !.events = Tail(@)]
       \/ /\ replay.metrics = <<>> /\ replay.events = <<>>
          /\ replay' = Idle
          /\ UNCHANGED <<wire, sent>>
    /\ UNCHANGED <<made, connected, unqueued, queue, accepted, drops, serverVars>>

ReplayPublishFails ==
    /\ replay.at = "publish" /\ ~connected
    /\ replay' = IF replay.metrics # <<>> THEN [replay EXCEPT !.metrics = <<>>]
                                          ELSE Idle
    /\ UNCHANGED <<made, connected, unqueued, queue, wire, accepted, sent, drops, serverVars>>

\* The connection comes and goes; the process ends and starts again with
\* the queue it stored.
Disconnect ==
    /\ connected /\ drops < MaxDrops
    /\ connected' = FALSE /\ drops' = drops + 1
    /\ UNCHANGED <<made, unqueued, queue, replay, wire, accepted, sent, serverVars>>

Reconnect ==
    /\ ~connected /\ connected' = TRUE
    /\ UNCHANGED <<made, unqueued, queue, replay, wire, accepted, sent, drops, serverVars>>

AgentRestarts ==
    /\ drops < MaxDrops /\ drops' = drops + 1
    /\ unqueued' = <<>> /\ replay' = Idle
    /\ connected' = FALSE
    /\ UNCHANGED <<made, queue, wire, accepted, sent, serverVars>>

-----------------------------------------------------------------------------
(* JetStream (external) and the orchestrator's IngestService. *)

\* A published message reaches its stream, or goes down with the connection.
WireDelivers(m) ==
    /\ m \in wire /\ wire' = wire \ {m}
    /\ \/ stream' = [x \in DOMAIN stream \cup {m} |-> IF x = m THEN 0 ELSE stream[x]]
       \/ ~connected /\ UNCHANGED stream
    /\ UNCHANGED <<made, connected, unqueued, queue, replay, accepted, sent, drops,
                   settled, handling, rows, device, failures>>

\* The consumer's callback is handed a message that is not settled.
Deliver(m) ==
    /\ m \in DOMAIN stream /\ m \notin settled
    /\ handling[m.kind].at = "free"
    /\ stream[m] < MaxDeliver
    /\ stream' = [stream EXCEPT ![m] = @ + 1]
    /\ handling' = [handling EXCEPT ![m.kind] = [at |-> "received", msg |-> m]]
    /\ UNCHANGED <<agentVars, settled, rows, device, failures>>

\* Nak, or a callback that never answers: the message is delivered again,
\* until its deliveries are used up.
Returned(m) == settled' = IF stream[m] = MaxDeliver THEN settled \cup {m} ELSE settled

\* resolveDeviceID: a disabled device's telemetry is refused.
Resolve(k) ==
    /\ handling[k].at = "received"
    /\ IF device = "disabled"
       THEN /\ handling' = [handling EXCEPT ![k] = Free]
            /\ Returned(handling[k].msg)
       ELSE /\ handling' = [handling EXCEPT ![k].at = "resolved"]
            /\ UNCHANGED settled
    /\ UNCHANGED <<agentVars, stream, rows, device, failures>>

\* InsertMetrics, InsertEvents, RecordHeartbeat: all the rows, or none.
Persist(k) ==
    /\ handling[k].at = "resolved"
    /\ rows' = [i \in DOMAIN rows |->
                   IF i \in handling[k].msg.items THEN rows[i] + 1 ELSE rows[i]]
    /\ handling' = [handling EXCEPT ![k].at = IF k = "heartbeat" THEN "recorded"
                                              ELSE "persisted"]
    /\ UNCHANGED <<agentVars, stream, settled, device, failures>>

\* handleAgentHeartbeatJS's second statement.
MarkOnline ==
    /\ handling["heartbeat"].at = "recorded"
    /\ device' = "online"
    /\ handling' = [handling EXCEPT !["heartbeat"].at = "persisted"]
    /\ UNCHANGED <<agentVars, stream, settled, rows, failures>>

\* The callbacks acknowledge only what they have persisted.
AnswersWhenResolved(k) == handling[k].at \in {"resolved", "recorded", "persisted"}
Answers(k) == handling[k].at = "persisted"

Acknowledge(k) ==
    /\ Answers(k)
    /\ settled' = settled \cup {handling[k].msg}
    /\ handling' = [handling EXCEPT ![k] = Free]
    /\ UNCHANGED <<agentVars, stream, rows, device, failures>>

\* A statement fails (Nak), the Ack is lost, or the orchestrator stops.
CallbackFails(k) ==
    /\ handling[k].at # "free" /\ failures < MaxFailures
    /\ failures' = failures + 1
    /\ Returned(handling[k].msg)
    /\ handling' = [handling EXCEPT ![k] = Free]
    /\ UNCHANGED <<agentVars, stream, rows, device>>

\* External: another part of the orchestrator disables the device.
DisableDevice ==
    /\ device = "online" /\ failures < MaxFailures
    /\ device' = "disabled" /\ failures' = failures + 1
    /\ UNCHANGED <<agentVars, stream, settled, handling, rows>>

Next ==
    \/ \E n \in 1 .. NMetrics : Collect(n)
    \/ QueueMetrics \/ PublishEvent \/ SendHeartbeat
    \/ ReplayPopsMetrics \/ ReplayPopsEvents \/ ReplayPublishes \/ ReplayPublishFails
    \/ Disconnect \/ Reconnect \/ AgentRestarts
    \/ \E m \in wire : WireDelivers(m)
    \/ \E m \in DOMAIN stream : Deliver(m)
    \/ \E k \in Kinds : Resolve(k) \/ Persist(k) \/ Acknowledge(k) \/ CallbackFails(k)
    \/ MarkOnline \/ DisableDevice

Spec == Init /\ [][Next]_vars

-----------------------------------------------------------------------------
\* The shape of the agent's queue and of the ingestion state.
TypeOK ==
    /\ made \in [Kinds -> 0 .. NMetrics + NEvents + NBeats]
    /\ queue \in [{"metric", "event"} -> Seq(Items)]
    /\ replay.at \in {"idle", "events", "publish"}
    /\ DOMAIN stream \cap wire = {}
    /\ rows \in [Items \cup Beats -> 0 .. MaxDeliver]
    /\ device \in {"online", "disabled"}

\* The offline queue never grows past its limit, both kinds counted together
\* and with a replay running beside the collector; what it holds is in the
\* order it was produced, once, and what the replay took is no longer in it
\* (QueueMetric, QueueEvent, PopMetrics, PopEvents).
QueueIsBounded ==
    /\ Len(queue["metric"]) + Len(queue["event"]) <= MaxItems
    /\ \A k \in DOMAIN queue :
          /\ \A a, b \in DOMAIN queue[k] : a < b => queue[k][a] < queue[k][b]
          /\ ToSet(queue[k]) \cap ToSet(replay.metrics \o replay.events) = {}

\* Telemetry the orchestrator has acknowledged before its deliveries ran out
\* is in the database, whatever failed on the way (the handlers' "persisting
\* ... before acknowledgement").
AckedIsStored ==
    \A m \in settled :
        stream[m] < MaxDeliver => \A i \in m.items : rows[i] > 0

\* The documentation's "survives restart, retains entries until publish
\* acknowledgement": an entry the queue accepted is in the queue, in the
\* hands of the replay, or published.
RetainedUntilPublished ==
    accepted \subseteq ToSet(queue["metric"]) \cup ToSet(queue["event"])
                       \cup ToSet(replay.metrics \o replay.events) \cup sent
=============================================================================
