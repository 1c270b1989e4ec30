---------------------------- MODULE ScriptSchedule ----------------------------
(***************************************************************************)
(* One script schedule: the runner every orchestrator replica starts       *)
(* (script_schedule_runner.go), the ScheduleOrchestrator that dispatches   *)
(* to devices and takes in their results (jobs.go), and the API that       *)
(* changes the schedule meanwhile (script_schedule_handlers.go).           *)
(*                                                                         *)
(* Runner and result handler work without a transaction: every statement   *)
(* is a step of its own.  Commands and results travel over core NATS, and  *)
(* every replica subscribes to all results.  The tables are taken to have  *)
(* the unique key (schedule_id, device_id) the ON CONFLICT clauses name.   *)
(***************************************************************************)
EXTENDS Naturals

CONSTANTS Replicas,
          DeviceCount,    \* devices 1..DeviceCount, targets or group members
          MaxRetries,     \* max_retries of the schedule
          Recurring,      \* hourly, daily, weekly, monthly against now
          Bound,          \* a smart group is bound to the schedule
          Answers,        \* statuses the agents report
          MaxRuns,        \* bound on execution ids
          MaxRequests,    \* bound on API requests
          MaxCrashes      \* bound on the crashes of replicas

VARIABLES sched,    \* the row of schedules; next: has next_run_at passed?
          exec,     \* the rows of schedule_device_executions by device
          runner,   \* where the runner of each replica is
          handler,  \* where the result subscription of each replica is
          cmds,     \* commands that were published
          results,  \* results that were published
          seen,     \* results each replica has received
          used,     \* execution ids handed out
          requests, crashes

vars == <<sched, exec, runner, handler, cmds, results, seen, used, requests, crashes>>
rows == <<sched, exec>>
mail == <<cmds, results, seen, used>>
bounds == <<requests, crashes>>

Devices == 1 .. DeviceCount
\* A group member has a row only once it was dispatched to.
Rows == {d \in Devices : Bound => exec[d].id # 0}
Failures == {"failed", "timeout"}
Terminal == Failures \cup {"completed", "success"}
Requestable == {"active", "paused", "completed", "failed"}

IdleRunner == [pc |-> "idle", next |-> 0, id |-> 0]
NoResult == [device |-> 0, id |-> 0, status |-> "success"]
IdleHandler == [pc |-> "idle", m |-> NoResult]

\* The rows and records as a statement leaves them.
NewRow(id) == [status |-> "pending", id |-> id, retries |-> 0]
Marked(e, status) == [e EXCEPT !.status = status]
Retried(e) == [e EXCEPT !.status = "pending", !.retries = e.retries + 1]
Begun(q, pc, id) == [q EXCEPT !.pc = pc, !.id = id]

Init ==
    /\ sched = [status |-> "none", next |-> "ahead"]
    /\ exec = [d \in Devices |-> NewRow(0)]
    /\ runner = [r \in Replicas |-> IdleRunner]
    /\ handler = [r \in Replicas |-> IdleHandler]
    /\ cmds = {} /\ results = {} /\ seen = [r \in Replicas |-> {}]
    /\ used = 0 /\ requests = 0 /\ crashes = 0

-----------------------------------------------------------------------------
(* The API.  A request is one transaction and is taken as one step.        *)

\* A one-time schedule is due, the next run of a recurring one lies ahead.
FirstRun == IF Recurring THEN "ahead" ELSE "due"

HandleCreateScriptSchedule ==
    /\ sched.status = "none" /\ used = 0
    /\ sched' = [status |-> "active", next |-> FirstRun]
    /\ UNCHANGED <<exec, runner, handler>> /\ UNCHANGED mail /\ UNCHANGED bounds

Requested == requests < MaxRequests /\ requests' = requests + 1
                /\ UNCHANGED <<runner, handler, crashes>> /\ UNCHANGED mail

\* Activating computes the next run and starts finished devices over; ending
\* the schedule ends the executions with it.
Reset(e) == IF e.status \in {"completed", "failed"}
            THEN [e EXCEPT !.status = "pending", !.retries = 0] ELSE e

HandleUpdateScriptSchedule(status) ==
    /\ Requested
    /\ sched.status \notin {"none", status}
    /\ sched' = [status |-> status, next |-> IF status = "active" THEN FirstRun ELSE sched.next]
    /\ exec' = [d \in Devices |->
                  CASE status = "paused" \/ d \notin Rows -> exec[d]
                    [] status = "active" -> Reset(exec[d])
                    [] OTHER -> Marked(exec[d], status)]

HandleDeleteScriptSchedule ==
    /\ Requested
    /\ sched.status \notin {"none", "active"}
    /\ sched' = [sched EXCEPT !.status = "none"]
    /\ UNCHANGED exec

HandleRetryScriptScheduleDevice(d) ==
    /\ Requested
    /\ d \in Rows /\ exec[d].status \in {"failed", "pending"} /\ exec[d].retries < MaxRetries
    /\ sched.status = "active"
    /\ exec' = [exec EXCEPT ![d] = Retried(exec[d])]
    /\ UNCHANGED sched

-----------------------------------------------------------------------------
(* The runner of a replica.                                                *)

RunnerAt(r, pc) == runner[r].pc = pc /\ UNCHANGED <<handler, results, seen>> /\ UNCHANGED bounds
Gone(pc, next) == [pc |-> pc, next |-> next, id |-> 0]
Go(r, pc, next) == runner' = [runner EXCEPT ![r] = Gone(pc, next)]

\* getDueSchedules, then one look at the bindings of the schedule.
EvaluateSchedules(r) ==
    /\ RunnerAt(r, "idle")
    /\ sched.status = "active" /\ sched.next = "due"
    /\ Go(r, IF Bound THEN "member" ELSE "start", 1)
    /\ UNCHANGED rows /\ UNCHANGED <<cmds, used>>

\* ExecuteSchedule reads the schedule once, dispatches to every device ...
ExecuteSchedule(r) ==
    /\ RunnerAt(r, "start")
    /\ IF sched.status = "active" THEN Go(r, "each", 1) ELSE Go(r, "idle", 0)
    /\ UNCHANGED rows /\ UNCHANGED <<cmds, used>>

\* The row of the device gets a new execution id and starts over.
InsertExecution(r, pc) ==
    /\ used < MaxRuns /\ used' = used + 1
    /\ runner' = [runner EXCEPT ![r] = Begun(runner[r], pc, used + 1)]
    /\ exec' = [exec EXCEPT ![runner[r].next] = NewRow(used + 1)]
    /\ UNCHANGED cmds

\* The command goes out, or the row is failed if it still has this id.
PublishCommand(r) ==
    LET d == runner[r].next IN
    \/ cmds' = cmds \cup {[device |-> d, id |-> runner[r].id]} /\ UNCHANGED exec
    \/ /\ exec' = IF exec[d].id = runner[r].id /\ sched.status # "none"
                  THEN [exec EXCEPT ![d] = Marked(exec[d], "failed")] ELSE exec
       /\ UNCHANGED cmds

ExecuteEach(r) ==
    /\ RunnerAt(r, "each") /\ runner[r].next \in Devices
    /\ InsertExecution(r, "publish")
    /\ UNCHANGED sched

PublishEach(r) ==
    /\ RunnerAt(r, "publish")
    /\ PublishCommand(r) /\ Go(r, "each", runner[r].next + 1)
    /\ UNCHANGED <<sched, used>>

\* ... and marks the schedule running, whatever its status is by then.
SetRunning == sched' = [sched EXCEPT !.status = IF @ = "none" THEN @ ELSE "running"]

MarkRunning(r) ==
    /\ RunnerAt(r, "each") /\ runner[r].next \notin Devices
    /\ SetRunning /\ Go(r, "idle", 0)
    /\ UNCHANGED <<exec, cmds, used>>

\* For a group every member goes through ExecuteScheduleDevice, which reads the
\* schedule again, needs it active and marks it running.
NextMember(r) ==
    IF runner[r].next < DeviceCount THEN Go(r, "member", runner[r].next + 1) ELSE Go(r, "idle", 0)

ExecuteScheduleDevice(r) ==
    /\ RunnerAt(r, "member")
    /\ IF sched.status = "active"
       THEN InsertExecution(r, "send")
       ELSE NextMember(r) /\ UNCHANGED <<exec, cmds, used>>
    /\ UNCHANGED sched

PublishMember(r) ==
    /\ RunnerAt(r, "send")
    /\ PublishCommand(r) /\ Go(r, "mark", runner[r].next)
    /\ UNCHANGED <<sched, used>>

MarkMemberRunning(r) ==
    /\ RunnerAt(r, "mark")
    /\ SetRunning /\ NextMember(r)
    /\ UNCHANGED <<exec, cmds, used>>

-----------------------------------------------------------------------------
(* Results.                                                                *)

\* The agent's script executor runs a command that reached it and reports.
AgentAnswers(c, status) ==
    /\ \A s \in Answers : [device |-> c.device, id |-> c.id, status |-> s] \notin results
    /\ results' = results \cup {[device |-> c.device, id |-> c.id, status |-> status]}
    /\ UNCHANGED rows /\ UNCHANGED <<runner, handler, cmds, seen, used>> /\ UNCHANGED bounds

HandlerAt(r, pc) == handler[r].pc = pc
                       /\ UNCHANGED <<runner, cmds, results, used>> /\ UNCHANGED bounds
At(h, pc) == [h EXCEPT !.pc = pc]
Then(r, pc) == handler' = [handler EXCEPT ![r] = At(handler[r], pc)]

\* handleScriptResultNATS: the row with this id must be open or agree.
Expects(m) ==
    /\ exec[m.device].id = m.id /\ sched.status # "none"
    /\ exec[m.device].status \in {"pending", "running", m.status}

Taken(pc, m) == [pc |-> pc, m |-> m]

HandleScriptResult(r, m) ==
    /\ HandlerAt(r, "idle") /\ m \notin seen[r]
    /\ seen' = [seen EXCEPT ![r] = @ \cup {m}]
    /\ handler' = [handler EXCEPT ![r] = Taken(IF Expects(m) THEN "apply" ELSE "idle", m)]
    /\ UNCHANGED rows

\* Faulty variant: the UPDATE names schedule and device.
CurrentDevice(m) == sched.status # "none"

\* The UPDATEs name the execution id: a row that was dispatched again meanwhile
\* is left alone.
Current(m) == exec[m.device].id = m.id /\ sched.status # "none"

\* ProcessScheduleDeviceResult: write the row, look at the schedule, look at the
\* row again and either ask for a retry or count.
ApplyResult(r) ==
    LET m == handler[r].m IN
    /\ HandlerAt(r, "apply")
    /\ exec' = IF Current(m) THEN [exec EXCEPT ![m.device] = Marked(exec[m.device], m.status)] ELSE exec
    /\ Then(r, IF Current(m) THEN "status" ELSE "idle")
    /\ UNCHANGED <<sched, seen>>

ReadSchedule(r) ==
    /\ HandlerAt(r, "status")
    /\ Then(r, IF Current(handler[r].m) /\ sched.status \in {"running", "active"} THEN "decide" ELSE "idle")
    /\ UNCHANGED rows /\ UNCHANGED seen

DecideRetry(r) ==
    LET e == exec[handler[r].m.device] IN
    /\ HandlerAt(r, "decide")
    /\ Then(r, IF ~ Current(handler[r].m) THEN "idle"
               ELSE IF e.status \in Failures /\ e.retries < MaxRetries THEN "retry"
               ELSE IF e.status \in Terminal THEN "count" ELSE "idle")
    /\ UNCHANGED rows /\ UNCHANGED seen

\* Faulty variant: the retry is written to whatever runs on the device now.
ScheduleRetryOfDevice(r) ==
    LET d == handler[r].m.device IN
    /\ HandlerAt(r, "retry")
    /\ exec' = [exec EXCEPT ![d] = Retried(exec[d])]
    /\ Then(r, "idle")
    /\ UNCHANGED <<sched, seen>>

ScheduleRetry(r) ==
    LET d == handler[r].m.device IN
    /\ HandlerAt(r, "retry")
    /\ exec' = IF Current(handler[r].m)
               THEN [exec EXCEPT ![d] = Retried(exec[d])] ELSE exec
    /\ Then(r, "idle")
    /\ UNCHANGED <<sched, seen>>

\* checkScheduleCompletion counts, then writes.
CountExecutions(r) ==
    /\ HandlerAt(r, "count")
    /\ Then(r, IF \A d \in Rows : exec[d].status \in Terminal THEN "finish" ELSE "idle")
    /\ UNCHANGED rows /\ UNCHANGED seen

FinishSchedule(r) ==
    /\ HandlerAt(r, "finish")
    /\ sched' = CASE sched.status = "none" -> sched
                  [] Recurring -> [status |-> "active", next |-> "ahead"]
                  [] OTHER -> [sched EXCEPT !.status = "completed"]
    /\ Then(r, "idle")
    /\ UNCHANGED exec /\ UNCHANGED seen

-----------------------------------------------------------------------------
BecomesDue ==
    /\ sched.status # "none" /\ sched.next = "ahead"
    /\ sched' = [sched EXCEPT !.next = "due"]
    /\ UNCHANGED <<exec, runner, handler>> /\ UNCHANGED mail /\ UNCHANGED bounds

\* A replica ends in the middle; the results it has not received are lost to it.
Crash(r) ==
    /\ crashes < MaxCrashes /\ crashes' = crashes + 1
    /\ runner' = [runner EXCEPT ![r] = IdleRunner]
    /\ handler' = [handler EXCEPT ![r] = IdleHandler]
    /\ seen' = [seen EXCEPT ![r] = results]
    /\ UNCHANGED rows /\ UNCHANGED <<cmds, results, used, requests>>

Runner(r) ==
    \/ EvaluateSchedules(r) \/ ExecuteSchedule(r) \/ ExecuteEach(r) \/ PublishEach(r) \/ MarkRunning(r)
    \/ ExecuteScheduleDevice(r) \/ PublishMember(r) \/ MarkMemberRunning(r)

Handler(r) ==
    \/ \E m \in results : HandleScriptResult(r, m)
    \/ ApplyResult(r) \/ ReadSchedule(r) \/ DecideRetry(r) \/ ScheduleRetry(r) \/ CountExecutions(r) \/ FinishSchedule(r)

API ==
    \/ HandleCreateScriptSchedule \/ HandleDeleteScriptSchedule
    \/ \E s \in Requestable : HandleUpdateScriptSchedule(s)
    \/ \E d \in Devices : HandleRetryScriptScheduleDevice(d)

Next ==
    \/ API
    \/ \E r \in Replicas : Runner(r) \/ Handler(r) \/ Crash(r)
    \/ \E c \in cmds, s \in Answers : AgentAnswers(c, s)
    \/ BecomesDue

Spec == Init /\ [][Next]_vars

\* Runners tick, result callbacks run, agents answer and time passes.
FairSpec ==
    /\ Spec /\ WF_vars(BecomesDue)
    /\ \A r \in Replicas : WF_vars(Runner(r)) /\ WF_vars(Handler(r))
    /\ \A d \in Devices, i \in 1 .. MaxRuns :
         WF_vars(\E c \in cmds, s \in Answers : c.device = d /\ c.id = i /\ AgentAnswers(c, s))

-----------------------------------------------------------------------------
Row == [status : Terminal \cup {"pending"}, id : 0 .. MaxRuns, retries : Nat]
Runs == [pc : {"idle", "start", "each", "publish", "member", "send", "mark"},
         next : 0 .. DeviceCount + 1, id : 0 .. MaxRuns]
Command == [device : Devices, id : 1 .. MaxRuns]
Result == [device : Devices, id : 1 .. MaxRuns, status : Answers]
Handles == [pc : {"idle", "apply", "status", "decide", "retry", "count", "finish"},
            m : Result \cup {NoResult}]

TypeOK ==
    /\ sched \in [status : Requestable \cup {"none", "running"}, next : {"due", "ahead"}]
    /\ exec \in [Devices -> Row]
    /\ runner \in [Replicas -> Runs]
    /\ handler \in [Replicas -> Handles]
    /\ cmds \subseteq Command
    /\ results \subseteq Result /\ seen \in [Replicas -> SUBSET results]
    /\ used \in 0 .. MaxRuns /\ requests \in 0 .. MaxRequests /\ crashes \in 0 .. MaxCrashes

\* ProcessScheduleDeviceResult, resetScheduleExecutionOnConflict: an execution
\* shows the agent's outcome only for the command dispatched last, however
\* replicas, redispatches and late results interleave.
OutcomeIsCurrent ==
    \A d \in Devices : exec[d].status \in {"success", "timeout"} =>
        [device |-> d, id |-> exec[d].id, status |-> exec[d].status] \in results

\* handleScriptResultNATS and ProcessScheduleDeviceResult: once an agent has
\* reported success, only a new dispatch takes it back, as long as no request
\* of the API has written the executions over.
LosesSuccess ==
    \E d \in Devices : /\ exec[d].status = "success" /\ exec'[d].status # "success"
                       /\ exec'[d].id = exec[d].id /\ requests' = 0

\* Why they hold: an execution id is published by the one runner that drew it, an
\* agent answers a command once, and a row fails without an answer only if its
\* command was never sent.
Answer(d, e) == [device |-> d, id |-> e.id, status |-> e.status]
Unsent(id) ==
    /\ id # 0
    /\ \A c \in cmds : c.id # id
    /\ \A r \in Replicas : runner[r].id # id
Explained(d) == exec[d].status = "failed" => Answer(d, exec[d]) \in results \/ Unsent(exec[d].id)

RunnerInv(r) ==
    LET q == runner[r] IN
    /\ q.id <= used
    /\ q.pc # "idle" => q.next # 0
    /\ q.pc # "each" => q.next <= DeviceCount
    /\ q.pc \in {"publish", "send"} => q.id # 0
    /\ q.id # 0 => /\ \A c \in cmds : c.id # q.id
                   /\ \A o \in Replicas : runner[o].id = q.id => o = r

ResultsInv ==
    /\ \A m \in results : \E c \in cmds : c.device = m.device /\ c.id = m.id
    /\ \A m, o \in results : m.device = o.device /\ m.id = o.id => m = o

HandlerInv(r) ==
    /\ handler[r].pc # "idle" => handler[r].m \in results
    /\ requests = 0 /\ handler[r].pc = "retry" => handler[r].m.status \in Failures

ScheduleInv ==
    /\ TypeOK
    /\ OutcomeIsCurrent
    /\ \A d \in Devices : exec[d].id <= used /\ (requests = 0 => Explained(d))
    /\ \A c \in cmds : c.id <= used
    /\ ResultsInv
    /\ \A r \in Replicas : RunnerInv(r) /\ HandlerInv(r)
===============================================================================
