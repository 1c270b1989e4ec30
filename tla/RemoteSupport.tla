---------------------------- MODULE RemoteSupport ----------------------------
(***************************************************************************)
(* Remote support inside one orchestrator process: the WebRTC signalling   *)
(* sessions, their recordings and their live transcriptions                *)
(* (internal/webrtc), and the TCP tunnel gateway (internal/remote/         *)
(* tunnel.go).  Everything here is kept in maps of the process and is gone *)
(* when it stops.  A transcription subscribes to the session's audio and   *)
(* never unsubscribes; its callback works on the shared result partly      *)
(* outside the manager's lock, while a request may be stopping it.  The    *)
(* gateway keeps what Recorder.RecordRaw returned and, when the tunnel is  *)
(* closed, asserts that it is a *SessionRecorder, which it is not: the     *)
(* assertion panics in a goroutine nobody recovers, and the process ends.  *)
(***************************************************************************)
EXTENDS Integers, Sequences

CONSTANTS Sessions,        \* ids of the WebRTC sessions that can be created
          Recordings, Transcriptions, Tunnels,
          Candidates,      \* requests that add an ICE candidate
          MaxSegments,     \* audio chunks of a transcription
          MaxSignals,      \* offers and answers
          MaxCrashes,
          None

VARIABLES sessions,        \* PeerManager.sessions
          signals,
          adding,          \* candidate requests that have read the list
          recordings,      \* RecordingManager.sessions
          transcriptions,  \* TranscriptionManager.transcriptions
          chunk,           \* the audio callback: where it is and its segment
          stopping,        \* stop requests between the lock and the transcript
          tunnels,         \* Gateway.sessions with their relay and recording
          crashes

webrtc == <<sessions, signals, adding>>
transcribing == <<transcriptions, chunk, stopping>>
vars == <<webrtc, recordings, transcribing, tunnels, crashes>>

NoChunk == [pc |-> "idle", segment |-> None]
Quiet == [c \in Candidates |-> None]
Added == [session |-> None, candidates |-> 0]

TypeOK ==
  /\ \A s \in Sessions : sessions[s] # None =>
       sessions[s].state \in {"pending", "connecting", "active", "ended"}
  /\ \A t \in Transcriptions : transcriptions[t] # None =>
       /\ transcriptions[t].status \in {"pending", "running", "completed"}
       /\ transcriptions[t].duration \in Nat
       /\ chunk[t].pc \in {"idle", "found", "marked"}
  /\ \A n \in Tunnels : tunnels[n] # None =>
       tunnels[n].state \in {"pending", "active", "closed", "failed"}
  /\ crashes \in 0..MaxCrashes

InMemory(ss, ad, rs, ts, ch, st, ns) ==
  /\ ss = [s \in Sessions |-> None]
  /\ ad = Quiet
  /\ rs = [r \in Recordings |-> None]
  /\ ts = [t \in Transcriptions |-> None]
  /\ ch = [t \in Transcriptions |-> NoChunk]
  /\ st = [t \in Transcriptions |-> FALSE]
  /\ ns = [n \in Tunnels |-> None]

Init ==
  /\ InMemory(sessions, adding, recordings, transcriptions, chunk, stopping, tunnels)
  /\ signals = 0
  /\ crashes = 0

---------------------------------------------------------------------------
\* Signalling.  No handler looks at the state it finds: an offer or an answer
\* for an ended session brings it back.

CreateSession(s) ==
  /\ sessions[s] = None
  /\ sessions' = [sessions EXCEPT ![s] =
       [state |-> "pending", offer |-> FALSE, answer |-> FALSE, candidates |-> 0, ended |-> FALSE]]
  /\ UNCHANGED <<signals, adding, recordings, transcribing, tunnels, crashes>>

\* What GetSession finds.
Known(s) == sessions[s] # None

Signals(s, entry) ==
  /\ Known(s)
  /\ signals < MaxSignals
  /\ signals' = signals + 1
  /\ sessions' = [sessions EXCEPT ![s] = entry]
  /\ UNCHANGED <<adding, recordings, transcribing, tunnels, crashes>>

CreateOffer(s) == Known(s) /\ Signals(s, [sessions[s] EXCEPT !.offer = TRUE, !.state = "connecting"])

HandleAnswer(s) == Known(s) /\ Signals(s, [sessions[s] EXCEPT !.answer = TRUE, !.state = "active"])

EndSession(s) ==
  /\ Known(s)
  /\ sessions' = [sessions EXCEPT ![s].state = "ended", ![s].ended = TRUE]
  /\ UNCHANGED <<signals, adding, recordings, transcribing, tunnels, crashes>>

\* The list is appended to outside the lock, so two requests may both have
\* read it before either writes, and one candidate is lost.
ReadCandidates(c, s) ==
  /\ Known(s)
  /\ adding[c] = None
  /\ adding' = [adding EXCEPT ![c] = [session |-> s, candidates |-> sessions[s].candidates]]
  /\ UNCHANGED <<sessions, signals, recordings, transcribing, tunnels, crashes>>

AddICECandidate(c) ==
  /\ adding[c] \notin {None, Added}
  /\ sessions' = [sessions EXCEPT ![adding[c].session].candidates = adding[c].candidates + 1]
  /\ adding' = [adding EXCEPT ![c] = Added]
  /\ UNCHANGED <<signals, recordings, transcribing, tunnels, crashes>>

---------------------------------------------------------------------------
\* Recordings and transcriptions name a session and never look it up.

StartRecording(r, s) ==
  /\ recordings[r] = None
  /\ recordings' = [recordings EXCEPT ![r] = [session |-> s, ended |-> FALSE]]
  /\ UNCHANGED <<webrtc, transcribing, tunnels, crashes>>

StopRecording(r) ==
  /\ recordings[r] # None
  /\ recordings' = [recordings EXCEPT ![r].ended = TRUE]
  /\ UNCHANGED <<webrtc, transcribing, tunnels, crashes>>

StartTranscription(t, s) ==
  /\ transcriptions[t] = None
  /\ transcriptions' = [transcriptions EXCEPT ![t] =
       [session |-> s, status |-> "pending", segments |-> <<>>, duration |-> 0, transcript |-> None]]
  /\ UNCHANGED <<webrtc, recordings, chunk, stopping, tunnels, crashes>>

\* The callback of the audio subscription: one message at a time.
ReceiveChunk(t) ==
  /\ transcriptions[t] # None
  /\ chunk[t].pc = "idle"
  /\ Len(transcriptions[t].segments) < MaxSegments
  /\ chunk' = [chunk EXCEPT ![t].pc = "found"]
  /\ UNCHANGED <<webrtc, recordings, transcriptions, stopping, tunnels, crashes>>

\* Faulty: start and end swapped; both the end.
SegmentReversed(segments) == [from |-> 5 * (Len(segments) + 1), to |-> 5 * Len(segments)]
SegmentAfterNext(segments) == [from |-> 5 * (Len(segments) + 1), to |-> 5 * (Len(segments) + 1)]

\* Five seconds of speech, placed after the segments there are.
SegmentAfter(segments) == [from |-> 5 * Len(segments), to |-> 5 * (Len(segments) + 1)]

\* Outside the lock: the status is overwritten, a completed one included.
ProcessAudioChunk(t) ==
  /\ chunk[t].pc = "found"
  /\ chunk' = [chunk EXCEPT ![t] = [pc |-> "marked", segment |-> SegmentAfter(transcriptions[t].segments)]]
  /\ transcriptions' = [transcriptions EXCEPT ![t].status = "running"]
  /\ UNCHANGED <<webrtc, recordings, stopping, tunnels, crashes>>

AddSegment(t) ==
  /\ chunk[t].pc = "marked"
  /\ transcriptions' = [transcriptions EXCEPT
       ![t].segments = Append(@, chunk[t].segment),
       ![t].duration = @ + (chunk[t].segment.to - chunk[t].segment.from)]
  /\ chunk' = [chunk EXCEPT ![t] = NoChunk]
  /\ UNCHANGED <<webrtc, recordings, stopping, tunnels, crashes>>

StopTranscription(t) ==
  /\ transcriptions[t] # None
  /\ ~stopping[t]
  /\ transcriptions' = [transcriptions EXCEPT ![t].status = "completed"]
  /\ stopping' = [stopping EXCEPT ![t] = TRUE]
  /\ UNCHANGED <<webrtc, recordings, chunk, tunnels, crashes>>

\* The transcript is put together after the lock is released.
CompileTranscript(t) ==
  /\ stopping[t]
  /\ transcriptions' = [transcriptions EXCEPT ![t].transcript = transcriptions[t].segments]
  /\ stopping' = [stopping EXCEPT ![t] = FALSE]
  /\ UNCHANGED <<webrtc, recordings, chunk, tunnels, crashes>>

---------------------------------------------------------------------------
\* The tunnel gateway: one goroutine per TCP connection.

Handshake(n) ==
  /\ tunnels[n] = None
  /\ tunnels' = [tunnels EXCEPT ![n] = [state |-> "pending", relay |-> FALSE, recording |-> FALSE]]
  /\ UNCHANGED <<webrtc, recordings, transcribing, crashes>>

\* The subscription may be refused; then the connection is dropped.
OpenRelay(n) ==
  /\ tunnels[n] # None
  /\ tunnels[n].state = "pending"
  /\ \/ tunnels' = [tunnels EXCEPT ![n].state = "active", ![n].relay = TRUE]
     \/ tunnels' = [tunnels EXCEPT ![n].state = "failed"]
  /\ UNCHANGED <<webrtc, recordings, transcribing, crashes>>

\* RecordRaw uploads an empty stream, which storage takes or refuses.
RecordRaw(n) ==
  /\ tunnels[n] # None
  /\ tunnels[n].state = "active"
  /\ ~tunnels[n].recording
  /\ tunnels' = [tunnels EXCEPT ![n].recording = TRUE]
  /\ UNCHANGED <<webrtc, recordings, transcribing, crashes>>

\* The client hangs up.  Without a recording the session is closed and its
\* relay released; with one the type assertion panics and the process is gone,
\* with every session, recording and transcription it held.
CloseSession(n) ==
  /\ tunnels[n] # None
  /\ tunnels[n].state = "active"
  /\ ~tunnels[n].recording
  /\ tunnels' = [tunnels EXCEPT ![n].state = "closed", ![n].relay = FALSE]
  /\ UNCHANGED <<webrtc, recordings, transcribing, crashes>>

CloseSessionPanics(n) ==
  /\ tunnels[n] # None
  /\ tunnels[n].state = "active"
  /\ tunnels[n].recording
  /\ crashes < MaxCrashes
  /\ crashes' = crashes + 1
  /\ InMemory(sessions', adding', recordings', transcriptions', chunk', stopping', tunnels')
  /\ UNCHANGED signals

---------------------------------------------------------------------------
\* The handlers.  A request that lacks a required field is refused before its
\* manager is called; given tells whether it has them.

HandleCreateSession(s, given) == given /\ CreateSession(s)
HandleCreateOffer(s, given) == given /\ CreateOffer(s)
HandleHandleAnswer(s, given) == given /\ HandleAnswer(s)
HandleAddICECandidate(c, s, given) == given /\ ReadCandidates(c, s)
HandleEndSession(s) == EndSession(s)
HandleStartRecording(r, s, given) == given /\ StartRecording(r, s)
HandleStopRecording(r) == StopRecording(r)
HandleStartTranscription(t, s, given) == given /\ StartTranscription(t, s)
HandleStopTranscription(t) == StopTranscription(t)

Next ==
  \/ \E s \in Sessions, given \in BOOLEAN :
       \/ HandleCreateSession(s, given)
       \/ HandleCreateOffer(s, given)
       \/ HandleHandleAnswer(s, given)
       \/ \E c \in Candidates : HandleAddICECandidate(c, s, given)
       \/ \E r \in Recordings : HandleStartRecording(r, s, given)
       \/ \E t \in Transcriptions : HandleStartTranscription(t, s, given)
  \/ \E s \in Sessions : HandleEndSession(s)
  \/ \E c \in Candidates : AddICECandidate(c)
  \/ \E r \in Recordings : HandleStopRecording(r)
  \/ \E t \in Transcriptions :
       \/ ReceiveChunk(t)
       \/ ProcessAudioChunk(t)
       \/ AddSegment(t)
       \/ HandleStopTranscription(t)
       \/ CompileTranscript(t)
  \/ \E n \in Tunnels :
       \/ Handshake(n)
       \/ OpenRelay(n)
       \/ RecordRaw(n)
       \/ CloseSession(n)
       \/ CloseSessionPanics(n)

Spec == Init /\ [][Next]_vars

---------------------------------------------------------------------------
\* A transcription's segments are consecutive five-second pieces from zero and
\* its duration is their sum, although the callback places a segment outside
\* the lock; and the transcript a stop compiled, which late audio can outgrow,
\* is a prefix of the segments.
TranscriptIsConsecutive ==
  \A t \in Transcriptions : transcriptions[t] # None =>
    LET tr == transcriptions[t] IN
    /\ \A i \in DOMAIN tr.segments : tr.segments[i] = [from |-> 5 * (i - 1), to |-> 5 * i]
    /\ tr.duration = 5 * Len(tr.segments)
    /\ tr.transcript # None =>
         /\ Len(tr.transcript) <= Len(tr.segments)
         /\ tr.transcript = SubSeq(tr.segments, 1, Len(tr.transcript))
=============================================================================
