---------------------------- MODULE AgentUpdate ----------------------------
(***************************************************************************)
(* The agent replaces its own executable.                                  *)
(*                                                                         *)
(* One goroutine checks the release manifest at start, when a check is     *)
(* due, and at every tick: it downloads the release, renames the running   *)
(* executable to .bak and the new one into its place, runs the new one     *)
(* with "version", and then removes the backup or rolls back.  A NATS      *)
(* callback changes the rollout configuration and can roll back at any     *)
(* time.  The two share the files and the stored state without a lock.     *)
(* The agent may stop between any two steps; a supervisor starts whatever  *)
(* is at the executable's path.                                            *)
(*                                                                         *)
(* An executable is the version it was built from.                         *)
(***************************************************************************)
EXTENDS Integers

CONSTANTS MaxVersion,  \* releases are numbered from 1
          Works,       \* versions whose executable runs
          MaxStops, MaxCommands, MaxChecks,
          None
Versions == 1 .. MaxVersion

VARIABLES exe, bak, fetched,  \* the files: None or a version
          stored,             \* update bucket: current, rollback version, status
          manifest,           \* the version the release manifest names
          running,            \* version of the running process, or None
          due,                \* the check at start is due and not made yet
          updater,            \* the update goroutine: step, version, first check
          rolling,            \* steps of Rollback: by the updater, by a command
          rollout,            \* RolloutConfig, in memory
          stops, commands, checks,
          skipped,            \* a first check left an executable that does not run
          raced               \* a rollback command overlapped the updater
vars == <<exe, bak, fetched, stored, manifest, running, due, updater, rolling,
          rollout, stops, commands, checks, skipped, raced>>

Callers == {"updater", "command"}
Default == [paused |-> FALSE, approved |-> None, blocked |-> {}, included |-> TRUE]
NoUpdate == [at |-> "idle", version |-> None, first |-> FALSE]

Init ==
    /\ exe = 1 /\ bak = None /\ fetched = None
    /\ stored = [current |-> None, rollback |-> None, status |-> "up_to_date"]
    /\ manifest = 1 /\ running = 1 /\ due = FALSE
    /\ updater = NoUpdate /\ rolling = [c \in Callers |-> "idle"]
    /\ rollout = Default
    /\ stops = 0 /\ commands = 0 /\ checks = 0 /\ skipped = FALSE /\ raced = FALSE

files == <<exe, bak, fetched>>
budget == <<stops, commands, checks>>

-----------------------------------------------------------------------------
(* Deciding. *)

\* RolloutManager.ShouldApply.
ShouldApply(v) ==
    /\ ~rollout.paused
    /\ v \notin rollout.blocked
    /\ rollout.approved \in {None, v}
    /\ rollout.included

\* Client.Check and the goroutine's loop: nothing to do for the stored
\* version or one the rollout holds back.  ShouldCheck decides at start whether
\* a check is due before the first tick.
Check ==
    /\ running # None /\ updater.at = "idle" /\ rolling["updater"] = "idle"
    /\ checks < MaxChecks /\ checks' = checks + 1
    /\ updater' = IF manifest # stored.current /\ ShouldApply(manifest)
                  THEN [at |-> "download", version |-> manifest, first |-> due]
                  ELSE NoUpdate
    /\ due' = FALSE
    /\ raced' = (raced \/ rolling["command"] # "idle")
    /\ UNCHANGED <<files, stored, manifest, running, rolling, rollout, stops, commands, skipped>>

\* Download: SetPendingVersion, then the body is written and its size and
\* checksum compared; a mismatch removes the file.
Download ==
    /\ updater.at = "download"
    /\ stored' = [stored EXCEPT !.rollback = stored.current, !.status = "pending"]
    /\ \/ /\ fetched' = updater.version
          /\ updater' = [updater EXCEPT !.at = "apply"]
       \/ fetched' = None /\ updater' = NoUpdate
    /\ UNCHANGED <<exe, bak, manifest, running, due, rolling, rollout, budget, skipped, raced>>

-----------------------------------------------------------------------------
(* Applying: one state write and two renames. *)

\* SetState replaces the whole record: the versions are forgotten.
ApplySetsState ==
    /\ updater.at = "apply"
    /\ stored' = [current |-> None, rollback |-> None, status |-> "applying"]
    /\ updater' = [updater EXCEPT !.at = "backup"]
    /\ UNCHANGED <<files, manifest, running, due, rolling, rollout, budget, skipped, raced>>

ApplyBacksUp ==
    /\ updater.at = "backup"
    /\ IF exe = None
       THEN updater' = NoUpdate /\ UNCHANGED <<exe, bak>>
       ELSE /\ bak' = exe /\ exe' = None
            /\ updater' = [updater EXCEPT !.at = "replace"]
    /\ UNCHANGED <<fetched, stored, manifest, running, due, rolling, rollout, budget, skipped, raced>>

\* The second rename; when it fails the backup is put back.
ApplyReplaces ==
    /\ updater.at = "replace"
    /\ \/ /\ exe' = fetched /\ fetched' = None
          /\ updater' = [updater EXCEPT !.at = "verify"]
          /\ UNCHANGED bak
       \/ /\ updater' = NoUpdate
          /\ exe' = IF bak = None THEN exe ELSE bak
          /\ bak' = None
          /\ UNCHANGED fetched
    /\ UNCHANGED <<stored, manifest, running, due, rolling, rollout, budget, skipped, raced>>

-----------------------------------------------------------------------------
(* Verifying. *)

\* VerifyAndSwitch runs "<exe> version" and reads its output.
RunsAnything(v) == v # None
Runs(v) == v \in Works

\* Success stores the version.  A failure rolls back at a tick; the first
\* check ignores it.
Verify ==
    /\ updater.at = "verify"
    /\ IF Runs(exe)
       THEN /\ stored' = [stored EXCEPT !.current = exe, !.status = "up_to_date"]
            /\ updater' = [updater EXCEPT !.at = "clean"]
            /\ UNCHANGED <<rolling, skipped>>
       ELSE /\ updater' = NoUpdate
            /\ IF updater.first
               THEN skipped' = TRUE /\ UNCHANGED rolling
               ELSE /\ rolling' = [rolling EXCEPT !["updater"] = "stat"]
                    /\ UNCHANGED skipped
            /\ UNCHANGED stored
    /\ UNCHANGED <<files, manifest, running, due, rollout, budget, raced>>

\* ... and removes the backup.
Clean ==
    /\ updater.at = "clean"
    /\ bak' = None /\ updater' = NoUpdate
    /\ UNCHANGED <<exe, fetched, stored, manifest, running, due, rolling, rollout, budget, skipped, raced>>

-----------------------------------------------------------------------------
(* Rolling back, from the goroutine or from a command. *)

RollbackStat(c) ==
    /\ rolling[c] = "stat"
    /\ rolling' = [rolling EXCEPT ![c] = IF bak = None THEN "idle" ELSE "aside"]
    /\ UNCHANGED <<files, stored, manifest, running, due, updater, rollout, budget, skipped, raced>>

\* The executable is moved to .failed ...
RollbackMovesAside(c) ==
    /\ rolling[c] = "aside"
    /\ rolling' = [rolling EXCEPT ![c] = IF exe = None THEN "idle" ELSE "restore"]
    /\ exe' = None
    /\ UNCHANGED <<bak, fetched, stored, manifest, running, due, updater, rollout, budget, skipped, raced>>

\* ... and the backup into its place.
RollbackRestores(c) ==
    /\ rolling[c] = "restore"
    /\ rolling' = [rolling EXCEPT ![c] = IF bak = None THEN "idle" ELSE "record"]
    /\ exe' = IF bak = None THEN exe ELSE bak
    /\ bak' = None
    /\ UNCHANGED <<fetched, stored, manifest, running, due, updater, rollout, budget, skipped, raced>>

RollbackRecords(c) ==
    /\ rolling[c] = "record"
    /\ rolling' = [rolling EXCEPT ![c] = "idle"]
    /\ stored' = [stored EXCEPT !.status = "rolled_back",
                                !.current = IF stored.rollback = None THEN @
                                            ELSE stored.rollback]
    /\ UNCHANGED <<files, manifest, running, due, updater, rollout, budget, skipped, raced>>

-----------------------------------------------------------------------------
(* Rollout commands.  An "update" command builds a manifest that names no    *)
(* artifact, so its download fails before anything is stored.                *)

Configure ==
    /\ running # None /\ commands < MaxCommands /\ commands' = commands + 1
    /\ rolling["command"] = "idle"
    /\ \/ \E b \in BOOLEAN : rollout' = [rollout EXCEPT !.paused = b]
       \/ \E v \in Versions :
             rollout' \in {[Default EXCEPT !.approved = v], [Default EXCEPT !.blocked = {v}],
                           [Default EXCEPT !.included = FALSE]}
    /\ UNCHANGED <<files, stored, manifest, running, due, updater, rolling, stops, checks, skipped, raced>>

CommandRollback ==
    /\ running # None /\ commands < MaxCommands /\ commands' = commands + 1
    /\ rolling["command"] = "idle"
    /\ rolling' = [rolling EXCEPT !["command"] = "stat"]
    /\ raced' = (raced \/ updater.at # "idle" \/ rolling["updater"] # "idle")
    /\ UNCHANGED <<files, stored, manifest, running, due, updater, rollout, stops, checks, skipped>>

-----------------------------------------------------------------------------
(* The environment. *)

Release ==
    /\ manifest < MaxVersion /\ manifest' = manifest + 1
    /\ UNCHANGED <<files, stored, running, due, updater, rolling, rollout, budget, skipped, raced>>

StopOrCrash ==
    /\ running # None /\ stops < MaxStops /\ stops' = stops + 1
    /\ running' = None /\ due' = FALSE /\ updater' = NoUpdate
    /\ rolling' = [c \in Callers |-> "idle"] /\ rollout' = Default
    /\ UNCHANGED <<files, stored, manifest, commands, checks, skipped, raced>>

Restart ==
    /\ running = None /\ exe \in Works
    /\ running' = exe /\ due' \in BOOLEAN
    /\ UNCHANGED <<files, stored, manifest, updater, rolling, rollout, budget, skipped, raced>>

Next ==
    \/ Check \/ Download \/ ApplySetsState \/ ApplyBacksUp \/ ApplyReplaces \/ Verify \/ Clean
    \/ \E c \in Callers : \/ RollbackStat(c) \/ RollbackMovesAside(c)
                          \/ RollbackRestores(c) \/ RollbackRecords(c)
    \/ Configure \/ CommandRollback \/ Release \/ StopOrCrash \/ Restart

Spec == Init /\ [][Next]_vars

-----------------------------------------------------------------------------
\* The shape of the files, the stored state and the two goroutines.
TypeOK ==
    /\ {exe, bak, fetched, running} \subseteq Versions \cup {None}
    /\ stored.status \in {"up_to_date", "pending", "applying", "rolled_back"}
    /\ updater.at \in {"idle", "download", "apply", "backup", "replace", "verify", "clean"}
    /\ \A c \in Callers : rolling[c] \in {"idle", "stat", "aside", "restore", "record"}

\* However often releases that do not run are installed, and wherever the
\* agent stops, an executable that runs is at its path or in the backup, and
\* the version stored as current is one that ran; unless a first check
\* ignored a failed verification, or a rollback command ran beside an update
\* (Apply, VerifyAndSwitch, Rollback and their order).
GoodBinaryKept ==
    ~skipped /\ ~raced => /\ exe \in Works \/ bak \in Works
                          /\ stored.current \in Works \cup {None}
=============================================================================
