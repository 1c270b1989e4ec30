---------------------------- MODULE DockerUpgrade ----------------------------
(***************************************************************************)
(* The host-side Docker upgrade transaction: docker-update-host plans a    *)
(* release, DockerUpgradeExecutor.Apply replaces the orchestrator image    *)
(* under a journal, and Reconcile resolves the journal a crash left        *)
(* behind.  The durable state is three things: the journal file, the       *)
(* image named by the protected Compose environment, and the image of the  *)
(* running container.  Every step changes at most one of them, and the     *)
(* utility may die between any two steps.                                  *)
(*                                                                         *)
(* A release is its position in the order of versions.  A write that fails *)
(* and makes Apply or Reconcile return at once leaves the state a crash at *)
(* that point leaves, so Crash stands for both.                            *)
(***************************************************************************)
EXTENDS Naturals, TLAPS

CONSTANTS
    Hosts,        \* invocations of the one-shot utility that may run at once
    MaxImage,     \* releases are 1..MaxImage; the installed one is 1
    MaxAttempt    \* reconciliations Validate admits (10 in the code)

Images == 1..MaxImage
Missing == 0      \* no STRATA_ORCHESTRATOR_IMAGE line / no running container

NoJournal == [state |-> "none", current |-> 0, candidate |-> 0, attempt |-> 0]

States == {"prepared", "pulled", "applying", "verifying", "rollback",
           "rolled_back", "complete", "recovery_required"}

VARIABLES
    journal,      \* the journal file, NoJournal when it does not exist
    env,          \* image in the protected Compose environment
    live,         \* image of the running orchestrator container
    handoff,      \* the database recovery handoff file exists
    pc,           \* next step of each invocation
    tx,           \* each invocation's in-memory copy of the journal
    verified      \* images that have answered the readiness probe

vars == <<journal, env, live, handoff, pc, tx, verified>>

Journal == [state: States, current: Images, candidate: Images, attempt: 0..MaxAttempt]

\* There is an installed release.
Sensible == MaxImage \in Nat \ {0} /\ MaxAttempt \in Nat

TypeOK ==
    /\ Sensible
    /\ journal \in {NoJournal} \cup Journal
    /\ env \in Images \cup {Missing}
    /\ live \in Images \cup {Missing}
    /\ handoff \in BOOLEAN
    /\ pc \in [Hosts -> {"idle", "plan", "inspect", "prepare", "pull", "swap",
                         "config", "undo", "up", "verify", "health", "complete",
                         "remove", "rollback", "restore", "reup", "rehealth",
                         "rolledback", "giveup", "load", "compare", "unswap"}]
    /\ tx \in [Hosts -> [state: States \cup {"none"}, current: Images \cup {0},
                         candidate: Images \cup {0}, attempt: 0..MaxAttempt]]
    /\ verified \subseteq Images

Init ==
    /\ journal = NoJournal
    /\ env \in {Missing, 1}
    /\ live = 1
    /\ handoff = FALSE
    /\ pc = [h \in Hosts |-> "idle"]
    /\ tx = [h \in Hosts |-> NoJournal]
    /\ verified = {1}

Goto(h, step) == pc' = [pc EXCEPT ![h] = step]

\* The invocation returns; what it held in memory is gone.
Return(h) == Goto(h, "idle") /\ tx' = [tx EXCEPT ![h] = NoJournal]

\* setState: the in-memory journal takes the state and replaces the file.
SetState(h, s) ==
    /\ tx' = [tx EXCEPT ![h].state = s]
    /\ journal' = tx'[h]

-----------------------------------------------------------------------------
(* docker-update-host *)

\* A retained journal is reconciled before anything else.
Invoke(h) ==
    /\ pc[h] = "idle"
    /\ Goto(h, IF journal = NoJournal THEN "plan" ELSE "load")
    /\ tx' = [tx EXCEPT ![h] = NoJournal]
    /\ UNCHANGED <<journal, env, live, handoff, verified>>

\* PlanDocker with its preflight: the pre-upgrade database backup refuses to
\* run over an existing handoff and publishes one when it succeeds.
Plan(h) ==
    /\ pc[h] = "plan"
    /\ \/ /\ ~ handoff
          /\ handoff' = TRUE
          /\ \E c \in Images :
                /\ c > (IF env = Missing THEN live ELSE env)
                /\ tx' = [tx EXCEPT ![h].candidate = c]
          /\ Goto(h, "inspect")
       \/ Return(h) /\ UNCHANGED handoff
    /\ UNCHANGED <<journal, env, live, verified>>

-----------------------------------------------------------------------------
(* DockerUpgradeExecutor.Apply *)

\* The live image must be the configured one; an installation without a
\* configured image adopts the live one before the candidate is touched.
Inspect(h) ==
    /\ pc[h] = "inspect"
    /\ IF \/ journal # NoJournal
          \/ live = Missing
          \/ env # Missing /\ env # live
       THEN Return(h) /\ UNCHANGED env
       ELSE /\ env' = live
            /\ IF tx[h].candidate = live
               THEN Return(h)
               ELSE /\ tx' = [tx EXCEPT ![h].current = live]
                    /\ Goto(h, "prepare")
    /\ UNCHANGED <<journal, live, handoff, verified>>

Prepare(h) ==
    /\ pc[h] = "prepare"
    /\ SetState(h, "prepared")
    /\ Goto(h, "pull")
    /\ UNCHANGED <<env, live, handoff, verified>>

Pull(h) ==
    /\ pc[h] = "pull"
    /\ \/ SetState(h, "pulled") /\ Goto(h, "swap")
       \/ Goto(h, "rolledback") /\ UNCHANGED <<journal, tx>>
    /\ UNCHANGED <<env, live, handoff, verified>>

Swap(h) ==
    /\ pc[h] = "swap"
    /\ env' = tx[h].candidate
    /\ Goto(h, "config")
    /\ UNCHANGED <<journal, live, handoff, tx, verified>>

\* compose config --quiet
Config(h) ==
    /\ pc[h] = "config"
    /\ \/ SetState(h, "applying") /\ Goto(h, "up")
       \/ Goto(h, "undo") /\ UNCHANGED <<journal, tx>>
    /\ UNCHANGED <<env, live, handoff, verified>>

\* Faulty variant: the environment keeps the candidate.
UndoForgetsEnv(h) ==
    /\ pc[h] = "undo"
    /\ Goto(h, "rolledback")
    /\ UNCHANGED <<journal, env, live, handoff, tx, verified>>

Undo(h) ==
    /\ pc[h] = "undo"
    /\ \/ env' = tx[h].current /\ Goto(h, "rolledback")
       \/ UNCHANGED env /\ Goto(h, "giveup")
    /\ UNCHANGED <<journal, live, handoff, tx, verified>>

\* compose up -d: Compose recreates the container from the configured image;
\* when the command fails the old container, the new one or none is running.
Up(h) ==
    /\ pc[h] = "up"
    /\ \/ live' = env /\ Goto(h, "verify")
       \/ live' \in {live, env, Missing} /\ Goto(h, "rollback")
    /\ UNCHANGED <<journal, env, handoff, tx, verified>>

Verify(h) ==
    /\ pc[h] = "verify"
    /\ SetState(h, "verifying")
    /\ Goto(h, "health")
    /\ UNCHANGED <<env, live, handoff, verified>>

\* The readiness probe runs in whatever container is live.
Health(h) ==
    /\ pc[h] = "health"
    /\ \/ /\ live # Missing
          /\ verified' = verified \cup {live}
          /\ Goto(h, "complete")
       \/ Goto(h, "rollback") /\ UNCHANGED verified
    /\ UNCHANGED <<journal, env, live, handoff, tx>>

Complete(h) ==
    /\ pc[h] = "complete"
    /\ SetState(h, "complete")
    /\ Goto(h, "remove")
    /\ UNCHANGED <<env, live, handoff, verified>>

Remove(h) ==
    /\ pc[h] = "remove"
    /\ journal' = NoJournal
    /\ Return(h)
    /\ UNCHANGED <<env, live, handoff, verified>>

Rollback(h) ==
    /\ pc[h] = "rollback"
    /\ SetState(h, "rollback")
    /\ Goto(h, "restore")
    /\ UNCHANGED <<env, live, handoff, verified>>

Restore(h) ==
    /\ pc[h] = "restore"
    /\ \/ env' = tx[h].current /\ Goto(h, "reup")
       \/ UNCHANGED env /\ Goto(h, "giveup")
    /\ UNCHANGED <<journal, live, handoff, tx, verified>>

Reup(h) ==
    /\ pc[h] = "reup"
    /\ \/ live' = env /\ Goto(h, "rehealth")
       \/ live' \in {live, env, Missing} /\ Goto(h, "giveup")
    /\ UNCHANGED <<journal, env, handoff, tx, verified>>

Rehealth(h) ==
    /\ pc[h] = "rehealth"
    /\ \/ /\ live # Missing
          /\ verified' = verified \cup {live}
          /\ Goto(h, "rolledback")
       \/ Goto(h, "giveup") /\ UNCHANGED verified
    /\ UNCHANGED <<journal, env, live, handoff, tx>>

\* finishResolvedRollback
RolledBack(h) ==
    /\ pc[h] = "rolledback"
    /\ SetState(h, "rolled_back")
    /\ Goto(h, "remove")
    /\ UNCHANGED <<env, live, handoff, verified>>

\* The journal stays, marked for recovery; a failed write is ignored.
GiveUp(h) ==
    /\ pc[h] = "giveup"
    /\ journal' = [tx[h] EXCEPT !.state = "recovery_required"]
    /\ Return(h)
    /\ UNCHANGED <<env, live, handoff, verified>>

-----------------------------------------------------------------------------
(* DockerUpgradeExecutor.Reconcile *)

\* Faulty variant: Validate does not bound the attempts.
LoadUnbounded(h) ==
    /\ pc[h] = "load"
    /\ IF journal = NoJournal
       THEN Return(h) /\ UNCHANGED journal
       ELSE /\ journal' = [journal EXCEPT !.attempt = @ + 1]
            /\ tx' = [tx EXCEPT ![h] = journal']
            /\ Goto(h, "compare")
    /\ UNCHANGED <<env, live, handoff, verified>>

Load(h) ==
    /\ pc[h] = "load"
    /\ IF journal = NoJournal \/ journal.attempt = MaxAttempt
       THEN Return(h) /\ UNCHANGED journal
       ELSE /\ journal' = [journal EXCEPT !.attempt = @ + 1]
            /\ tx' = [tx EXCEPT ![h] = journal']
            /\ Goto(h, "compare")
    /\ UNCHANGED <<env, live, handoff, verified>>

\* The five cases of Reconcile's switch, in terms of the tails of Apply.
Resolution(h) ==
    LET current == tx[h].current
        candidate == tx[h].candidate
    IN CASE env = candidate /\ live = candidate -> "health"
         [] env = current /\ live = current -> "rehealth"
         [] env = candidate /\ live = current -> "unswap"
         [] env = current /\ live = candidate
              /\ tx[h].state \in {"rollback", "recovery_required"} -> "rollback"
         [] OTHER -> "giveup"

Compare(h) ==
    /\ pc[h] = "compare"
    /\ IF env = Missing \/ live = Missing
       THEN Return(h)
       ELSE Goto(h, Resolution(h)) /\ UNCHANGED tx
    /\ UNCHANGED <<journal, env, live, handoff, verified>>

\* The candidate was configured and never started.
Unswap(h) ==
    /\ pc[h] = "unswap"
    /\ \/ env' = tx[h].current /\ Goto(h, "rehealth")
       \/ UNCHANGED env /\ Goto(h, "giveup")
    /\ UNCHANGED <<journal, live, handoff, tx, verified>>

-----------------------------------------------------------------------------
(* The host *)

\* The utility dies, or a write fails and it returns the error.
Crash(h) ==
    /\ pc[h] # "idle"
    /\ Return(h)
    /\ UNCHANGED <<journal, env, live, handoff, verified>>

\* An operator starts the stopped container; Compose uses the configured image.
OperatorStarts ==
    /\ live = Missing
    /\ \A h \in Hosts : pc[h] = "idle"
    /\ live' = env
    /\ UNCHANGED <<journal, env, handoff, pc, tx, verified>>

\* "operator recovery or cleanup is required": nothing else removes the file.
OperatorClearsHandoff ==
    /\ handoff
    /\ journal = NoJournal
    /\ \A h \in Hosts : pc[h] = "idle"
    /\ handoff' = FALSE
    /\ UNCHANGED <<journal, env, live, pc, tx, verified>>

Step(h) ==
    \/ Invoke(h) \/ Plan(h) \/ Inspect(h) \/ Prepare(h) \/ Pull(h) \/ Swap(h)
    \/ Config(h) \/ Undo(h) \/ Up(h) \/ Verify(h) \/ Health(h) \/ Complete(h)
    \/ Remove(h) \/ Rollback(h) \/ Restore(h) \/ Reup(h) \/ Rehealth(h)
    \/ RolledBack(h) \/ GiveUp(h) \/ Load(h) \/ Compare(h) \/ Unswap(h)

Next ==
    \/ \E h \in Hosts : Step(h) \/ Crash(h)
    \/ OperatorStarts
    \/ OperatorClearsHandoff

Spec == Init /\ [][Next]_vars

-----------------------------------------------------------------------------
(* Properties *)

\* There is always a proven release to return to.  Without a journal the
\* container runs an image that has been ready, and the environment names it;
\* with one, the journal's current image has been ready and both places name
\* one of its two images, so that Reconcile knows every case it meets.
\* (Apply's comment: "The previous immutable digest is retained until
\* candidate health is durably confirmed.")
KnownGoodRetained ==
    IF journal = NoJournal
    THEN env \in {Missing, live} /\ live \in verified
    ELSE /\ journal.current \in verified
         /\ env \in {journal.current, journal.candidate}
         /\ live \in {journal.current, journal.candidate, Missing}

-----------------------------------------------------------------------------
(* Proof, for any number of releases and of attempts. *)

\* The documents require one operator, who runs one invocation at a time.
Alone == \A h, k \in Hosts : h = k

\* What an invocation knows at each of its steps.  Until it has prepared there
\* is no journal; then its copy and the file agree, and where the environment
\* and the container stand follows from the step.
Knows(h) ==
    LET current == tx[h].current
        candidate == tx[h].candidate
    IN /\ pc[h] \in {"plan", "inspect", "prepare"} => journal = NoJournal
       /\ pc[h] = "plan" => tx[h] = NoJournal
       /\ pc[h] = "inspect" => /\ tx[h].state = "none" /\ tx[h].attempt = 0
                               /\ candidate \in Images
       /\ pc[h] = "prepare" =>
            /\ tx[h].state = "none" /\ tx[h].attempt = 0 /\ candidate \in Images
            /\ env = current /\ live = current /\ current \in Images
       /\ pc[h] \notin {"idle", "plan", "inspect", "prepare", "load"} =>
            journal = tx[h] /\ journal \in Journal
       /\ pc[h] \in {"pull", "swap", "rolledback", "rehealth"} =>
            env = current /\ live = current
       /\ pc[h] \in {"config", "undo", "up", "unswap"} =>
            env = candidate /\ live = current
       /\ pc[h] \in {"verify", "health", "complete"} =>
            env = candidate /\ live = candidate
       /\ pc[h] = "reup" => env = current
       /\ pc[h] \in {"complete", "remove"} => live \in verified /\ env = live

UpgradeInv == TypeOK /\ KnownGoodRetained /\ \A h \in Hosts : Knows(h)

LEMMA UpgradeStep ==
    ASSUME Alone, UpgradeInv, [Next]_vars
    PROVE  UpgradeInv'
<1> USE DEF UpgradeInv
<1>1. NoJournal \notin Journal
  BY DEF NoJournal, Journal, States
<1>2. ASSUME NEW h \in Hosts, Invoke(h) PROVE UpgradeInv'
  <2>1. TypeOK'
    BY <1>2 DEF Invoke, Knows, Goto, Return, SetState, TypeOK, Journal, Images, Missing, NoJournal, States, Sensible
  <2>2. KnownGoodRetained' /\ Knows(h)'
    BY <1>2, <2>1 DEF Invoke, KnownGoodRetained, Knows, Goto, Return, SetState, TypeOK, Journal, Images, Missing, NoJournal, States, Sensible
  <2> QED BY <2>1, <2>2 DEF Alone
<1>3. ASSUME NEW h \in Hosts, Plan(h) PROVE UpgradeInv'
  <2>1. TypeOK'
    <3>1. CASE Return(h) /\ UNCHANGED handoff
      BY <1>3, <3>1 DEF Plan, Return, Goto, TypeOK, NoJournal, Sensible
    <3>2. CASE pc' = [pc EXCEPT ![h] = "inspect"] /\ handoff' = TRUE
               /\ \E c \in Images : tx' = [tx EXCEPT ![h].candidate = c]
      BY <1>3, <3>2 DEF Plan, TypeOK
    <3> QED BY <1>3, <3>1, <3>2 DEF Plan, Goto
  <2>2. KnownGoodRetained' /\ Knows(h)'
    BY <1>3, <2>1 DEF Plan, KnownGoodRetained, Knows, Goto, Return, SetState, TypeOK, Journal, Images, Missing, NoJournal, States, Sensible
  <2> QED BY <2>1, <2>2 DEF Alone
<1>4. ASSUME NEW h \in Hosts, Inspect(h) PROVE UpgradeInv'
  <2>1. TypeOK'
    BY <1>4 DEF Inspect, Knows, Goto, Return, SetState, TypeOK, Journal, Images, Missing, NoJournal, States, Sensible
  <2>2. KnownGoodRetained' /\ Knows(h)'
    BY <1>4, <2>1 DEF Inspect, KnownGoodRetained, Knows, Goto, Return, SetState, TypeOK, Journal, Images, Missing, NoJournal, States, Sensible
  <2> QED BY <2>1, <2>2 DEF Alone
<1>5. ASSUME NEW h \in Hosts, Prepare(h) PROVE UpgradeInv'
  <2>1. TypeOK'
    BY <1>5 DEF Prepare, Knows, Goto, Return, SetState, TypeOK, Journal, Images, Missing, NoJournal, States, Sensible
  <2>2. KnownGoodRetained' /\ Knows(h)'
    BY <1>5, <2>1 DEF Prepare, KnownGoodRetained, Knows, Goto, Return, SetState, TypeOK, Journal, Images, Missing, NoJournal, States, Sensible
  <2> QED BY <2>1, <2>2 DEF Alone
<1>6. ASSUME NEW h \in Hosts, Pull(h) PROVE UpgradeInv'
  <2>1. TypeOK'
    BY <1>6 DEF Pull, Knows, Goto, Return, SetState, TypeOK, Journal, Images, Missing, NoJournal, States, Sensible
  <2>2. KnownGoodRetained' /\ Knows(h)'
    BY <1>6, <2>1 DEF Pull, KnownGoodRetained, Knows, Goto, Return, SetState, TypeOK, Journal, Images, Missing, NoJournal, States, Sensible
  <2> QED BY <2>1, <2>2 DEF Alone
<1>7. ASSUME NEW h \in Hosts, Swap(h) PROVE UpgradeInv'
  <2>1. TypeOK'
    BY <1>7 DEF Swap, Knows, Goto, Return, SetState, TypeOK, Journal, Images, Missing, NoJournal, States, Sensible
  <2>2. KnownGoodRetained' /\ Knows(h)'
    BY <1>7, <2>1 DEF Swap, KnownGoodRetained, Knows, Goto, Return, SetState, TypeOK, Journal, Images, Missing, NoJournal, States, Sensible
  <2> QED BY <2>1, <2>2 DEF Alone
<1>8. ASSUME NEW h \in Hosts, Config(h) PROVE UpgradeInv'
  <2>1. TypeOK'
    BY <1>8 DEF Config, Knows, Goto, Return, SetState, TypeOK, Journal, Images, Missing, NoJournal, States, Sensible
  <2>2. KnownGoodRetained' /\ Knows(h)'
    BY <1>8, <2>1 DEF Config, KnownGoodRetained, Knows, Goto, Return, SetState, TypeOK, Journal, Images, Missing, NoJournal, States, Sensible
  <2> QED BY <2>1, <2>2 DEF Alone
<1>9. ASSUME NEW h \in Hosts, Undo(h) PROVE UpgradeInv'
  <2>1. TypeOK'
    BY <1>9 DEF Undo, Knows, Goto, Return, SetState, TypeOK, Journal, Images, Missing, NoJournal, States, Sensible
  <2>2. KnownGoodRetained' /\ Knows(h)'
    BY <1>9, <2>1 DEF Undo, KnownGoodRetained, Knows, Goto, Return, SetState, TypeOK, Journal, Images, Missing, NoJournal, States, Sensible
  <2> QED BY <2>1, <2>2 DEF Alone
<1>10. ASSUME NEW h \in Hosts, Up(h) PROVE UpgradeInv'
  <2>1. TypeOK'
    BY <1>10 DEF Up, Knows, Goto, Return, SetState, TypeOK, Journal, Images, Missing, NoJournal, States, Sensible
  <2>2. KnownGoodRetained' /\ Knows(h)'
    BY <1>10, <2>1 DEF Up, KnownGoodRetained, Knows, Goto, Return, SetState, TypeOK, Journal, Images, Missing, NoJournal, States, Sensible
  <2> QED BY <2>1, <2>2 DEF Alone
<1>11. ASSUME NEW h \in Hosts, Verify(h) PROVE UpgradeInv'
  <2>1. TypeOK'
    BY <1>11 DEF Verify, Knows, Goto, Return, SetState, TypeOK, Journal, Images, Missing, NoJournal, States, Sensible
  <2>2. KnownGoodRetained' /\ Knows(h)'
    BY <1>11, <2>1 DEF Verify, KnownGoodRetained, Knows, Goto, Return, SetState, TypeOK, Journal, Images, Missing, NoJournal, States, Sensible
  <2> QED BY <2>1, <2>2 DEF Alone
<1>12. ASSUME NEW h \in Hosts, Health(h) PROVE UpgradeInv'
  <2>1. TypeOK'
    BY <1>12 DEF Health, Knows, Goto, Return, SetState, TypeOK, Journal, Images, Missing, NoJournal, States, Sensible
  <2>2. KnownGoodRetained' /\ Knows(h)'
    BY <1>12, <2>1 DEF Health, KnownGoodRetained, Knows, Goto, Return, SetState, TypeOK, Journal, Images, Missing, NoJournal, States, Sensible
  <2> QED BY <2>1, <2>2 DEF Alone
<1>13. ASSUME NEW h \in Hosts, Complete(h) PROVE UpgradeInv'
  <2>1. TypeOK'
    BY <1>13 DEF Complete, Knows, Goto, Return, SetState, TypeOK, Journal, Images, Missing, NoJournal, States, Sensible
  <2>2. KnownGoodRetained' /\ Knows(h)'
    BY <1>13, <2>1 DEF Complete, KnownGoodRetained, Knows, Goto, Return, SetState, TypeOK, Journal, Images, Missing, NoJournal, States, Sensible
  <2> QED BY <2>1, <2>2 DEF Alone
<1>14. ASSUME NEW h \in Hosts, Remove(h) PROVE UpgradeInv'
  <2>1. TypeOK'
    BY <1>14 DEF Remove, Knows, Goto, Return, SetState, TypeOK, Journal, Images, Missing, NoJournal, States, Sensible
  <2>2. KnownGoodRetained' /\ Knows(h)'
    BY <1>14, <2>1 DEF Remove, KnownGoodRetained, Knows, Goto, Return, SetState, TypeOK, Journal, Images, Missing, NoJournal, States, Sensible
  <2> QED BY <2>1, <2>2 DEF Alone
<1>15. ASSUME NEW h \in Hosts, Rollback(h) PROVE UpgradeInv'
  <2>1. TypeOK'
    BY <1>15 DEF Rollback, Knows, Goto, Return, SetState, TypeOK, Journal, Images, Missing, NoJournal, States, Sensible
  <2>2. KnownGoodRetained' /\ Knows(h)'
    BY <1>15, <2>1 DEF Rollback, KnownGoodRetained, Knows, Goto, Return, SetState, TypeOK, Journal, Images, Missing, NoJournal, States, Sensible
  <2> QED BY <2>1, <2>2 DEF Alone
<1>16. ASSUME NEW h \in Hosts, Restore(h) PROVE UpgradeInv'
  <2>1. TypeOK'
    BY <1>16 DEF Restore, Knows, Goto, Return, SetState, TypeOK, Journal, Images, Missing, NoJournal, States, Sensible
  <2>2. KnownGoodRetained' /\ Knows(h)'
    BY <1>16, <2>1 DEF Restore, KnownGoodRetained, Knows, Goto, Return, SetState, TypeOK, Journal, Images, Missing, NoJournal, States, Sensible
  <2> QED BY <2>1, <2>2 DEF Alone
<1>17. ASSUME NEW h \in Hosts, Reup(h) PROVE UpgradeInv'
  <2>1. TypeOK'
    BY <1>17 DEF Reup, Knows, Goto, Return, SetState, TypeOK, Journal, Images, Missing, NoJournal, States, Sensible
  <2>2. KnownGoodRetained' /\ Knows(h)'
    BY <1>17, <2>1 DEF Reup, KnownGoodRetained, Knows, Goto, Return, SetState, TypeOK, Journal, Images, Missing, NoJournal, States, Sensible
  <2> QED BY <2>1, <2>2 DEF Alone
<1>18. ASSUME NEW h \in Hosts, Rehealth(h) PROVE UpgradeInv'
  <2>1. TypeOK'
    BY <1>18 DEF Rehealth, Knows, Goto, Return, SetState, TypeOK, Journal, Images, Missing, NoJournal, States, Sensible
  <2>2. KnownGoodRetained' /\ Knows(h)'
    BY <1>18, <2>1 DEF Rehealth, KnownGoodRetained, Knows, Goto, Return, SetState, TypeOK, Journal, Images, Missing, NoJournal, States, Sensible
  <2> QED BY <2>1, <2>2 DEF Alone
<1>19. ASSUME NEW h \in Hosts, RolledBack(h) PROVE UpgradeInv'
  <2>1. TypeOK'
    BY <1>19 DEF RolledBack, Knows, Goto, Return, SetState, TypeOK, Journal, Images, Missing, NoJournal, States, Sensible
  <2>2. KnownGoodRetained' /\ Knows(h)'
    BY <1>19, <2>1 DEF RolledBack, KnownGoodRetained, Knows, Goto, Return, SetState, TypeOK, Journal, Images, Missing, NoJournal, States, Sensible
  <2> QED BY <2>1, <2>2 DEF Alone
<1>20. ASSUME NEW h \in Hosts, GiveUp(h) PROVE UpgradeInv'
  <2>1. TypeOK'
    BY <1>20 DEF GiveUp, Knows, Goto, Return, SetState, TypeOK, Journal, Images, Missing, NoJournal, States, Sensible
  <2>2. KnownGoodRetained' /\ Knows(h)'
    BY <1>20, <2>1 DEF GiveUp, KnownGoodRetained, Knows, Goto, Return, SetState, TypeOK, Journal, Images, Missing, NoJournal, States, Sensible
  <2> QED BY <2>1, <2>2 DEF Alone
<1>21. ASSUME NEW h \in Hosts, Load(h) PROVE UpgradeInv'
  <2>1. TypeOK'
    <3>1. CASE Return(h) /\ UNCHANGED journal
      BY <1>21, <3>1 DEF Load, Return, Goto, TypeOK, NoJournal, Sensible
    <3>2. CASE ~(journal = NoJournal \/ journal.attempt = MaxAttempt)
      <4> DEFINE J(k) == [journal EXCEPT !.attempt = k]
      <4>1. journal \in Journal
        BY <3>2 DEF TypeOK
      <4>2. journal.attempt \in 0..MaxAttempt /\ journal.attempt # MaxAttempt
        BY <3>2, <4>1 DEF Journal
      <4>3. MaxAttempt \in Nat
        BY DEF TypeOK, Sensible
      <4>4. \A m \in Nat : \A n \in 0..m : n # m => n + 1 \in 0..m
        OBVIOUS
      <4>5. journal.attempt + 1 \in 0..MaxAttempt
        BY <4>4, <4>2, <4>3
      <4>6. \A k \in 0..MaxAttempt : J(k) \in Journal
        BY <4>1 DEF Journal
      <4>7. journal' = J(journal.attempt + 1) /\ tx' = [tx EXCEPT ![h] = journal']
            /\ pc' = [pc EXCEPT ![h] = "compare"]
        BY <1>21, <3>2 DEF Load, Goto
      <4> HIDE DEF J
      <4>8. journal' \in Journal
        BY <4>6, <4>7, <4>5
      <4> QED BY <1>21, <4>7, <4>8 DEF Load, TypeOK, Journal
    <3> QED BY <1>21, <3>1, <3>2 DEF Load
  <2>2. KnownGoodRetained' /\ Knows(h)'
    BY <1>21, <2>1 DEF Load, KnownGoodRetained, Knows, Goto, Return, SetState, TypeOK, Journal, Images, Missing, NoJournal, States, Sensible
  <2> QED BY <2>1, <2>2 DEF Alone
<1>22. ASSUME NEW h \in Hosts, Compare(h) PROVE UpgradeInv'
  <2>1. TypeOK'
    BY <1>22 DEF Compare, Resolution, Knows, Goto, Return, SetState, TypeOK, Journal, Images, Missing, NoJournal, States, Sensible
  <2>2. KnownGoodRetained' /\ Knows(h)'
    BY <1>22, <2>1 DEF Compare, Resolution, KnownGoodRetained, Knows, Goto, Return, SetState, TypeOK, Journal, Images, Missing, NoJournal, States, Sensible
  <2> QED BY <2>1, <2>2 DEF Alone
<1>23. ASSUME NEW h \in Hosts, Unswap(h) PROVE UpgradeInv'
  <2>1. TypeOK'
    BY <1>23 DEF Unswap, Knows, Goto, Return, SetState, TypeOK, Journal, Images, Missing, NoJournal, States, Sensible
  <2>2. KnownGoodRetained' /\ Knows(h)'
    BY <1>23, <2>1 DEF Unswap, KnownGoodRetained, Knows, Goto, Return, SetState, TypeOK, Journal, Images, Missing, NoJournal, States, Sensible
  <2> QED BY <2>1, <2>2 DEF Alone
<1>24. ASSUME NEW h \in Hosts, Crash(h) PROVE UpgradeInv'
  <2>1. TypeOK'
    BY <1>24 DEF Crash, Knows, Goto, Return, SetState, TypeOK, Journal, Images, Missing, NoJournal, States, Sensible
  <2>2. KnownGoodRetained' /\ Knows(h)'
    BY <1>24, <2>1 DEF Crash, KnownGoodRetained, Knows, Goto, Return, SetState, TypeOK, Journal, Images, Missing, NoJournal, States, Sensible
  <2> QED BY <2>1, <2>2 DEF Alone
<1>25. CASE OperatorStarts
  <2>1. TypeOK'
    BY <1>25 DEF OperatorStarts, TypeOK
  <2>2. KnownGoodRetained' /\ \A h \in Hosts : Knows(h)'
    BY <1>25 DEF OperatorStarts, KnownGoodRetained, Knows, TypeOK, Missing, Images
  <2> QED BY <2>1, <2>2
<1>26. CASE OperatorClearsHandoff
  BY <1>26 DEF OperatorClearsHandoff, KnownGoodRetained, Knows, TypeOK
<1>27. CASE UNCHANGED vars
  BY <1>27 DEF vars, KnownGoodRetained, Knows, TypeOK
<1> QED
  BY <1>2, <1>3, <1>4, <1>5, <1>6, <1>7, <1>8, <1>9, <1>10, <1>11, <1>12, <1>13,
     <1>14, <1>15, <1>16, <1>17, <1>18, <1>19, <1>20, <1>21, <1>22, <1>23, <1>24, <1>25, <1>26, <1>27 DEF Next, Step

\* Wherever Apply or Reconcile dies, and however often, there is a release that
\* has been ready to return to and the journal names every state that Reconcile
\* can meet (docker_executor.go), for a host on which one invocation runs at a
\* time.
THEOREM GoodReleaseIsKept == Sensible /\ Alone => (Spec => []KnownGoodRetained)
<1> SUFFICES ASSUME Sensible, Alone PROVE Spec => []KnownGoodRetained
  OBVIOUS
<1>1. Init => UpgradeInv
  <2> SUFFICES ASSUME Init PROVE UpgradeInv
    OBVIOUS
  <2>1. 1 \in Images /\ 0 \in 0..MaxAttempt
    BY DEF Images, Sensible
  <2>2. TypeOK
    BY <2>1 DEF Init, TypeOK, NoJournal, Missing
  <2> QED BY <2>2 DEF Init, UpgradeInv, KnownGoodRetained, Knows
<1>2. UpgradeInv /\ [Next]_vars => UpgradeInv'
  BY UpgradeStep
<1>3. UpgradeInv => KnownGoodRetained
  BY DEF UpgradeInv
<1> QED BY <1>1, <1>2, <1>3, PTL DEF Spec
=============================================================================
