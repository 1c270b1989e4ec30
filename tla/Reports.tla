------------------------------- MODULE Reports -------------------------------
(***************************************************************************)
(* The PDF reports of one tenant: the schedules an operator keeps          *)
(* (internal/platform/report_handlers.go), the hourly worker every replica *)
(* runs over the enabled ones (internal/reporting/reports.go), and the two *)
(* requests, "generate now" and "trigger this schedule", that answer 202   *)
(* and leave a goroutine behind.  The goroutine of a request works in the  *)
(* request's own transaction and under the request's own context: once the *)
(* middleware has committed, an insert fails, and once the response is     *)
(* written the context is cancelled.  A report is a file in object storage *)
(* under a key made of the tenant and the second, and a row naming it.     *)
(***************************************************************************)
EXTENDS Integers, FiniteSets

CONSTANTS Schedules,   \* the schedules that can be created
          Replicas,    \* orchestrator processes, each with a worker
          Requests,    \* generate and trigger requests
          MaxTime,     \* last second
          MaxTicks,    \* hourly passes of one worker
          MaxToggles,  \* enable and disable requests
          None

VARIABLES now,        \* the second, which is all that tells two keys apart
          schedules,  \* report_schedules: not yet created, enabled, disabled, deleted
          toggles,
          ticks,
          work,       \* the goroutine of a worker for a schedule: step and key
          request,    \* the request: its kind, schedule, transaction and rows
          task,       \* the goroutine of a request: step and key
          files,      \* object storage: the keys that hold a file
          reports     \* generated_reports: committed rows

vars == <<now, schedules, toggles, ticks, work, request, task, files, reports>>

Idle == [pc |-> "idle", key |-> 0]
Exists(s) == schedules[s] \in {"enabled", "disabled"}

\* A row of generated_reports; by tells the three writers apart, which the
\* table does by the schedule and the name.
Row(by, s, key) == [by |-> by, schedule |-> s, key |-> key]

TypeOK ==
  /\ now \in 0..MaxTime
  /\ schedules \in [Schedules -> {"new", "enabled", "disabled", "deleted"}]
  /\ toggles \in 0..MaxToggles
  /\ ticks \in [Replicas -> 0..MaxTicks]
  /\ \A p \in Replicas, s \in Schedules :
       work[p][s] \in [pc: {"idle", "render", "upload", "record"}, key: 0..MaxTime]
  /\ \A r \in Requests :
       /\ request[r].phase \in {"new", "open", "failed", "committed", "ended"}
       /\ task[r] \in [pc: {"idle", "render", "upload", "record", "done"}, key: 0..MaxTime]
  /\ files \subseteq 0..MaxTime
  /\ \A row \in reports : row.key \in 0..MaxTime

Init ==
  /\ now = 0
  /\ schedules = [s \in Schedules |-> "new"]
  /\ toggles = 0
  /\ ticks = [p \in Replicas |-> 0]
  /\ work = [p \in Replicas |-> [s \in Schedules |-> Idle]]
  /\ request = [r \in Requests |-> [phase |-> "new", kind |-> None, schedule |-> None, rows |-> {}]]
  /\ task = [r \in Requests |-> Idle]
  /\ files = {}
  /\ reports = {}

---------------------------------------------------------------------------
\* The schedules.  A new one is enabled; the frequency is stored and never
\* read by the worker.

CreateSchedule(s) ==
  /\ schedules[s] = "new"
  /\ schedules' = [schedules EXCEPT ![s] = "enabled"]
  /\ UNCHANGED <<now, toggles, ticks, work, request, task, files, reports>>

\* handleUpdateSchedule builds its SET list from the fields given.  The
\* recipients go as JSON text into a TEXT[] column, which Postgres refuses, so
\* an update that names them changes nothing.
UpdateSchedule(s, enabled, recipients) ==
  /\ Exists(s)
  /\ toggles < MaxToggles
  /\ toggles' = toggles + 1
  /\ schedules' = IF recipients THEN schedules
                  ELSE [schedules EXCEPT ![s] = IF enabled THEN "enabled" ELSE "disabled"]
  /\ UNCHANGED <<now, ticks, work, request, task, files, reports>>

ToggleSchedule(s, enabled) ==
  /\ Exists(s)
  /\ toggles < MaxToggles
  /\ toggles' = toggles + 1
  /\ schedules' = [schedules EXCEPT ![s] = IF enabled THEN "enabled" ELSE "disabled"]
  /\ UNCHANGED <<now, ticks, work, request, task, files, reports>>

\* Committed rows keep the report and lose the schedule (ON DELETE SET NULL);
\* an open transaction that inserted a row for the schedule holds it.
DeleteSchedule(s) ==
  /\ Exists(s)
  /\ \A r \in Requests : \A row \in request[r].rows : row.schedule # s
  /\ schedules' = [schedules EXCEPT ![s] = "deleted"]
  /\ reports' = {IF row.schedule = s THEN [row EXCEPT !.schedule = None] ELSE row : row \in reports}
  /\ UNCHANGED <<now, toggles, ticks, work, request, task, files>>

---------------------------------------------------------------------------
\* The worker: every hour one goroutine for each enabled schedule, each with
\* a minute to finish.

ProcessSchedules(p) ==
  /\ ticks[p] < MaxTicks
  /\ \A s \in Schedules : work[p][s].pc = "idle"
  /\ \E s \in Schedules : schedules[s] = "enabled"
  /\ ticks' = [ticks EXCEPT ![p] = @ + 1]
  /\ work' = [work EXCEPT ![p] =
       [s \in Schedules |-> IF schedules[s] = "enabled" THEN [Idle EXCEPT !.pc = "render"] ELSE Idle]]
  /\ UNCHANGED <<now, schedules, toggles, request, task, files, reports>>

WorkGoes(p, s, pc, key) == work' = [work EXCEPT ![p][s] = [pc |-> pc, key |-> key]]

\* GenerateReport ignores the errors of its counting queries, so it always
\* returns a document, under the key of this second.
Rendered(pc) == [pc |-> pc, key |-> now]

WorkerGenerates(p, s) ==
  /\ work[p][s].pc = "render"
  /\ work' = [work EXCEPT ![p][s] = Rendered("upload")]
  /\ UNCHANGED <<now, schedules, toggles, ticks, request, task, files, reports>>

\* A worker that goes on after a refused upload.
WorkerUploadsOrNot(p, s) ==
  /\ work[p][s].pc = "upload"
  /\ \/ files' = files \cup {work[p][s].key}
     \/ files' = files
  /\ WorkGoes(p, s, "record", work[p][s].key)
  /\ UNCHANGED <<now, schedules, toggles, ticks, request, task, reports>>

\* Storage may refuse; then the goroutine returns and nothing is recorded.
WorkerUploads(p, s) ==
  /\ work[p][s].pc = "upload"
  /\ \/ /\ files' = files \cup {work[p][s].key}
        /\ WorkGoes(p, s, "record", work[p][s].key)
     \/ /\ files' = files
        /\ WorkGoes(p, s, "idle", 0)
  /\ UNCHANGED <<now, schedules, toggles, ticks, request, task, reports>>

\* The foreign key refuses the row of a deleted schedule; a fault or the
\* expired minute may refuse any.  Both are ignored.
WorkerRecords(p, s) ==
  /\ work[p][s].pc = "record"
  /\ \/ /\ Exists(s)
        /\ reports' = reports \cup {Row("worker", s, work[p][s].key)}
     \/ reports' = reports
  /\ WorkGoes(p, s, "idle", 0)
  /\ UNCHANGED <<now, schedules, toggles, ticks, request, task, files>>

---------------------------------------------------------------------------
\* The requests.  The answer is 202 in both cases, and the goroutine starts.

Begin(r, kind, s) ==
  /\ request[r].phase = "new"
  /\ request' = [request EXCEPT ![r] = [phase |-> "open", kind |-> kind, schedule |-> s, rows |-> {}]]
  /\ task' = [task EXCEPT ![r] = [Idle EXCEPT !.pc = "render"]]
  /\ UNCHANGED <<now, schedules, toggles, ticks, work, files, reports>>

GenerateReport(r) == Begin(r, "generate", None)

TriggerSchedule(r, s) == Exists(s) /\ Begin(r, "trigger", s)

\* The middleware commits as soon as the handler has returned; a transaction
\* a statement failed in cannot commit.
CommitRequest(r) ==
  /\ \/ /\ request[r].phase = "open"
        /\ reports' = reports \cup request[r].rows
        /\ request' = [request EXCEPT ![r].phase = "committed", ![r].rows = {}]
     \/ /\ request[r].phase = "failed"
        /\ reports' = reports
        /\ request' = [request EXCEPT ![r].phase = "ended", ![r].rows = {}]
  /\ UNCHANGED <<now, schedules, toggles, ticks, work, task, files>>

\* The response is written and the server cancels the request's context; or
\* the client goes away first, which cancels it and rolls the transaction back.
ContextEnds(r) ==
  /\ request[r].phase \in {"open", "failed", "committed"}
  /\ request' = [request EXCEPT ![r].phase = "ended", ![r].rows = {}]
  /\ UNCHANGED <<now, schedules, toggles, ticks, work, task, files, reports>>

TaskGoes(r, pc) == task' = [task EXCEPT ![r].pc = pc]

TaskGenerates(r) ==
  /\ task[r].pc = "render"
  /\ task' = [task EXCEPT ![r] =
       Rendered(IF request[r].kind = "generate" THEN "record" ELSE "upload")]
  /\ UNCHANGED <<now, schedules, toggles, ticks, work, request, files, reports>>

\* Local storage does not look at the context and an object store does, so
\* after the context ended both outcomes remain.
TaskUploads(r) ==
  /\ task[r].pc = "upload"
  /\ \/ /\ files' = files \cup {task[r].key}
        /\ TaskGoes(r, IF request[r].kind = "generate" THEN "done" ELSE "record")
     \/ files' = files /\ TaskGoes(r, "done")
  /\ UNCHANGED <<now, schedules, toggles, ticks, work, request, reports>>

\* The row goes into the request's transaction while that is open.  A row for
\* a schedule deleted since breaks the transaction.
InsertRow(r) ==
  IF request[r].phase # "open" THEN request' = request
  ELSE IF request[r].kind = "trigger" /\ ~Exists(request[r].schedule)
       THEN request' = [request EXCEPT ![r].phase = "failed", ![r].rows = {}]
       ELSE request' = [request EXCEPT ![r].rows =
              @ \cup {Row(request[r].kind, request[r].schedule, task[r].key)}]

\* "Generate now" records first and uploads then; an insert that fails ends it.
GenerateRecords(r) ==
  /\ task[r].pc = "record"
  /\ request[r].kind = "generate"
  /\ InsertRow(r)
  /\ TaskGoes(r, IF request[r].phase = "open" THEN "upload" ELSE "done")
  /\ UNCHANGED <<now, schedules, toggles, ticks, work, files, reports>>

\* A trigger uploads first and ignores the insert's error.  Its mail goes to
\* the recipients, whose array text is not JSON, so to nobody.
TriggerRecords(r) ==
  /\ task[r].pc = "record"
  /\ request[r].kind = "trigger"
  /\ InsertRow(r)
  /\ TaskGoes(r, "done")
  /\ UNCHANGED <<now, schedules, toggles, ticks, work, files, reports>>

Tick ==
  /\ now < MaxTime
  /\ now' = now + 1
  /\ UNCHANGED <<schedules, toggles, ticks, work, request, task, files, reports>>

Next ==
  \/ \E s \in Schedules :
       \/ CreateSchedule(s)
       \/ DeleteSchedule(s)
       \/ \E enabled \in BOOLEAN :
            \/ ToggleSchedule(s, enabled)
            \/ \E recipients \in BOOLEAN : UpdateSchedule(s, enabled, recipients)
       \/ \E p \in Replicas : WorkerGenerates(p, s) \/ WorkerUploads(p, s) \/ WorkerRecords(p, s)
  \/ \E p \in Replicas : ProcessSchedules(p)
  \/ \E r \in Requests :
       \/ GenerateReport(r)
       \/ \E s \in Schedules : TriggerSchedule(r, s)
       \/ CommitRequest(r)
       \/ ContextEnds(r)
       \/ TaskGenerates(r)
       \/ TaskUploads(r)
       \/ GenerateRecords(r)
       \/ TriggerRecords(r)
  \/ Tick

Spec == Init /\ [][Next]_vars

---------------------------------------------------------------------------
\* A report the worker or a trigger has recorded can be downloaded: its file
\* is in storage, whatever was deleted, cancelled or refused on the way and
\* whichever other report of the tenant took the same key in the same second.
\* ("Generate now" records first, and promises no such thing.)
ReportHasFile ==
  \A row \in reports : row.by \in {"worker", "trigger"} => row.key \in files
=============================================================================
