------------------------------- MODULE PatchWindow -------------------------------
(***************************************************************************)
(* The maintenance window of a patch policy (internal/patch,               *)
(* canary_control.go and maintenance_window.go): a time of day from start  *)
(* to end, perhaps over midnight.  The scheduler asks maintenanceWindow-   *)
(* Allows with the server's local clock; the queue transaction asks        *)
(* maintenanceWindowDeadline with the UTC clock, and the job it creates    *)
(* expires at that deadline.                                               *)
(*                                                                         *)
(* now counts minutes of UTC; a day has Day of them.                       *)
(***************************************************************************)
EXTENDS Integers

CONSTANTS
    Day,         \* minutes of a day
    Horizon,     \* minutes that are looked at
    Offsets,     \* possible offsets of local time from UTC
    Unrestricted \* minutes of the expiry without a window (72 hours)

None == -1
Minutes == 0 .. Day - 1
\* kind: no window, a malformed one, or start - end.
Windows == {[kind |-> "empty"], [kind |-> "malformed"]}
           \cup [kind : {"clock"}, start : Minutes, end : Minutes]

VARIABLES
    now,    \* minutes since the first midnight, in UTC
    window, \* maintenance_window of the policy
    offset, \* of the server's local time
    job     \* the job queued, if any: when, and its expires_at

vars == <<now, window, offset, job>>

NoJob == [at |-> None, expires |-> None]

Init ==
    /\ now \in Minutes /\ window \in Windows /\ offset \in Offsets
    /\ job = NoJob

\* Faulty variant: the last minute belongs to the window.
InsideClosed(w, minute) ==
    IF w.start < w.end THEN w.start <= minute /\ minute <= w.end
                       ELSE w.start <= minute \/ minute <= w.end

Inside(w, minute) ==
    IF w.start < w.end THEN w.start <= minute /\ minute < w.end
                       ELSE w.start <= minute \/ minute < w.end

Always(w) == w.kind = "empty" \/ (w.kind = "clock" /\ w.start = w.end)

\* maintenanceWindowAllows.
Allows(w, time) == Always(w) \/ (w.kind = "clock" /\ Inside(w, time % Day))

Midnight(time) == time - (time % Day)

\* The end of the active window, the next day if the window began today and
\* runs over midnight.
End(w, time) ==
    Midnight(time) + w.end + (IF w.start > w.end /\ time % Day >= w.start THEN Day ELSE 0)

\* maintenanceWindowDeadline; None is an error.
Deadline(w, time) ==
    IF Always(w) THEN time + Unrestricted
    ELSE IF Allows(w, time) /\ End(w, time) > time THEN End(w, time) ELSE None

\* executeDeployment, advance...Deployment and then QueuePatchRolloutDevice.
Queue ==
    /\ job = NoJob
    /\ Allows(window, now + offset)
    /\ Deadline(window, now) # None
    /\ job' = [at |-> now, expires |-> Deadline(window, now)]
    /\ UNCHANGED <<now, window, offset>>

Tick ==
    /\ now < Horizon
    /\ now' = now + 1
    /\ UNCHANGED <<window, offset, job>>

Next == Queue \/ Tick

Spec == Init /\ [][Next]_vars

--------------------------------------------------------------------------------

\* A job queued in a window expires exactly at the end of that window as the
\* queue transaction's clock has it: the window holds at every minute before the
\* expiry and not at the expiry, also over midnight (maintenanceWindowDeadline
\* against maintenanceWindowAllows).
DeadlineIsBoundary ==
    job # NoJob /\ ~Always(window) =>
        /\ \A t \in job.at .. job.expires - 1 : Allows(window, t)
        /\ ~Allows(window, job.expires)
================================================================================
