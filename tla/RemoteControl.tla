---------------------------- MODULE RemoteControl ----------------------------
(***************************************************************************)
(* One remote-control session: the binding an API server keeps in memory    *)
(* (remote_handlers.go), the start and stop commands it publishes on the    *)
(* agent's command subject, and the agent's Manager and Session             *)
(* (agent/remotecontrol/session.go), whose Start runs in a goroutine of its *)
(* own, whose frames are captured by another, and whose Stop may be called  *)
(* by the command handler, by a "disconnect" and by the agent's shutdown.   *)
(***************************************************************************)
EXTENDS Naturals, Sequences

VARIABLES binding,    \* the API's binding: "none", "bound" or "dropped"
          commands,   \* commands on the agent's subject, in order
          listening,  \* the Manager's subscription is open
          sessions,   \* the session is in the Manager's map
          state,      \* Session.State
          start,      \* where startSession and Session.Start are
          stop,       \* where each caller of Session.Stop is
          loop,       \* the frame loop
          capturer, injector, inputSub,
          closes      \* times close(stopCh) was executed

vars == <<binding, commands, listening, sessions, state, start, stop, loop,
          capturer, injector, inputSub, closes>>

api == <<binding, commands>>
session == <<state, start, stop, loop, capturer, injector, inputSub, closes>>

Stoppers == {"command", "disconnect", "shutdown"}

Init ==
  /\ binding = "none" /\ commands = <<>> /\ listening = TRUE /\ sessions = FALSE
  /\ state = "pending" /\ start = "none" /\ stop = [c \in Stoppers |-> "idle"]
  /\ loop = "none" /\ capturer = "new" /\ injector = "new" /\ inputSub = FALSE
  /\ closes = 0

-----------------------------------------------------------------------------
(* The API server.  A failed publish removes the binding it had just made.  *)

RemoteSessionStart ==
  /\ binding = "none"
  /\ \E published \in BOOLEAN :
       /\ binding' = IF published THEN "bound" ELSE "dropped"
       /\ commands' = IF published THEN Append(commands, "remote_start") ELSE commands
  /\ UNCHANGED <<listening, sessions, session>>

RemoteSessionStop ==
  /\ binding = "bound"
  /\ binding' = "dropped"
  /\ commands' = Append(commands, "remote_stop")
  /\ UNCHANGED <<listening, sessions, session>>

(* The binding's lifetime ends, or the server drops them all: nothing is    *)
(* sent to the agent.                                                       *)
ExpireBinding ==
  /\ binding = "bound"
  /\ binding' = "dropped"
  /\ UNCHANGED <<commands, listening, sessions, session>>

-----------------------------------------------------------------------------
(* The agent's command handler: a start is handed to a goroutine, a stop    *)
(* takes the session out of the map and stops it in place.                  *)

CommandHandler ==
  /\ commands # <<>> /\ stop["command"] \in {"idle", "done"}
  /\ commands' = Tail(commands)
  /\ CASE ~ listening -> UNCHANGED <<sessions, start, stop>>
       [] listening /\ Head(commands) = "remote_start" ->
            start' = "spawned" /\ UNCHANGED <<sessions, stop>>
       [] listening /\ Head(commands) = "remote_stop" ->
            /\ sessions' = FALSE
            /\ stop' = IF sessions THEN [stop EXCEPT !["command"] = "called"] ELSE stop
            /\ UNCHANGED start
  /\ UNCHANGED <<binding, listening, state, loop, capturer, injector, inputSub, closes>>

(* startSession registers the session, and Session.Start makes it active    *)
(* before anything is initialised.                                          *)
StartSession ==
  /\ start = "spawned" /\ ~ sessions
  /\ sessions' = TRUE /\ start' = "registered"
  /\ UNCHANGED <<api, listening, state, stop, loop, capturer, injector, inputSub, closes>>

Activate ==
  /\ start = "registered"
  /\ state' = "active" /\ start' = "capturer"
  /\ UNCHANGED <<api, listening, sessions, stop, loop, capturer, injector, inputSub, closes>>

FailStart ==
  /\ start' = "failed" /\ sessions' = FALSE

InitCapturer ==
  /\ start = "capturer"
  /\ \/ /\ capturer' = "open" /\ start' = "injector" /\ UNCHANGED sessions
     \/ FailStart /\ UNCHANGED capturer
  /\ UNCHANGED <<api, listening, state, stop, loop, injector, inputSub, closes>>

InitInjector ==
  /\ start = "injector"
  /\ \/ /\ injector' = "open" /\ start' = "subscribe" /\ UNCHANGED <<sessions, capturer>>
     \/ FailStart /\ capturer' = "closed" /\ UNCHANGED injector
  /\ UNCHANGED <<api, listening, state, stop, loop, inputSub, closes>>

SubscribeInput ==
  /\ start = "subscribe"
  /\ \/ /\ inputSub' = TRUE /\ start' = "loop" /\ UNCHANGED <<sessions, capturer, injector>>
     \/ /\ FailStart /\ capturer' = "closed" /\ injector' = "closed"
        /\ UNCHANGED inputSub
  /\ UNCHANGED <<api, listening, state, stop, loop, closes>>

StartLoop ==
  /\ start = "loop"
  /\ start' = "started" /\ loop' = "select"
  /\ UNCHANGED <<api, listening, sessions, state, stop, capturer, injector, inputSub, closes>>

-----------------------------------------------------------------------------
(* Session.Stop, in any of its callers.                                     *)

(* The control subject is subscribed after the input subject and never      *)
(* unsubscribed.                                                            *)
Disconnect ==
  /\ start \in {"loop", "started"}
  /\ stop["disconnect"] = "idle"
  /\ stop' = [stop EXCEPT !["disconnect"] = "called"]
  /\ UNCHANGED <<api, listening, sessions, state, start, loop, capturer, injector,
                 inputSub, closes>>

(* Manager.Stop holds the Manager's mutex while it stops the session.       *)
Shutdown ==
  /\ listening
  /\ listening' = FALSE
  /\ stop' = IF sessions THEN [stop EXCEPT !["shutdown"] = "called"] ELSE stop
  /\ sessions' = FALSE
  /\ UNCHANGED <<api, state, start, loop, capturer, injector, inputSub, closes>>

StopsUnlessClosed == state \in {"active", "closing"}
StopsActive == state = "active"

StopBegins(c) ==
  /\ stop[c] = "called"
  /\ IF StopsActive
     THEN state' = "closing" /\ stop' = [stop EXCEPT ![c] = "close"]
     ELSE stop' = [stop EXCEPT ![c] = "done"] /\ UNCHANGED state
  /\ UNCHANGED <<api, listening, sessions, start, loop, capturer, injector, inputSub, closes>>

CloseChannel(c) ==
  /\ stop[c] = "close"
  /\ closes' = closes + 1
  /\ stop' = [stop EXCEPT ![c] = "wait"]
  /\ UNCHANGED <<api, listening, sessions, state, start, loop, capturer, injector, inputSub>>

LoopUnawaited == TRUE
LoopDone == loop \in {"none", "ended"}

(* wg.Wait, then the subscription, the capturer and the injector.           *)
Release(c) ==
  /\ stop[c] = "wait"
  /\ LoopDone
  /\ inputSub' = FALSE
  /\ capturer' = "closed" /\ injector' = "closed"
  /\ state' = "closed"
  /\ stop' = [stop EXCEPT ![c] = "done"]
  /\ UNCHANGED <<api, listening, sessions, start, loop, closes>>

-----------------------------------------------------------------------------
(* frameLoop: a tick checks the state under the mutex, then captures        *)
(* without it.                                                              *)
Tick ==
  /\ loop = "select"
  /\ loop' = IF state = "active" THEN "capture" ELSE loop
  /\ UNCHANGED <<api, listening, sessions, state, start, stop, capturer, injector,
                 inputSub, closes>>

Captured ==
  /\ loop = "capture"
  /\ loop' = "select"
  /\ UNCHANGED <<api, listening, sessions, state, start, stop, capturer, injector,
                 inputSub, closes>>

LoopEnds ==
  /\ loop = "select" /\ closes > 0
  /\ loop' = "ended"
  /\ UNCHANGED <<api, listening, sessions, state, start, stop, capturer, injector,
                 inputSub, closes>>

Next ==
  \/ RemoteSessionStart \/ RemoteSessionStop \/ ExpireBinding
  \/ CommandHandler \/ StartSession \/ Activate
  \/ InitCapturer \/ InitInjector \/ SubscribeInput \/ StartLoop
  \/ Disconnect \/ Shutdown
  \/ \E c \in Stoppers : StopBegins(c) \/ CloseChannel(c) \/ Release(c)
  \/ Tick \/ Captured \/ LoopEnds

Spec == Init /\ [][Next]_vars

-----------------------------------------------------------------------------
TypeOK ==
  /\ binding \in {"none", "bound", "dropped"}
  /\ commands \in Seq({"remote_start", "remote_stop"})
  /\ listening \in BOOLEAN /\ sessions \in BOOLEAN /\ inputSub \in BOOLEAN
  /\ state \in {"pending", "active", "closing", "closed"}
  /\ stop \in [Stoppers -> {"idle", "called", "close", "wait", "done"}]
  /\ loop \in {"none", "select", "capture", "ended"}
  /\ {capturer, injector} \subseteq {"new", "open", "closed"}
  /\ closes \in Nat

(* However the three callers of Session.Stop and the goroutine of           *)
(* Session.Start interleave, the stop channel is closed at most once (a     *)
(* second close would end the agent), and no frame is being captured from a *)
(* capturer that Stop has closed.                                           *)
StopIsOrderly ==
  /\ closes <= 1
  /\ loop = "capture" => capturer = "open"
==============================================================================
