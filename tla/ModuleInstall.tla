---------------------------- MODULE ModuleInstall ----------------------------
(***************************************************************************)
(* Materialization of one version of an add-on module when several         *)
(* installs of it run at once, in one orchestrator or in several that      *)
(* share the install root, and any of them may die (materialize.go,        *)
(* materialize_retry.go).  ModuleLifecycle treats it as one step; here     *)
(* every file operation that others can see is a step of its own.          *)
(*                                                                         *)
(* The lock file of a version carries no owner.  One older than the grace  *)
(* period is taken for abandoned: it is inspected, inspected again and     *)
(* removed, by path, and whoever finishes removes the path as well.        *)
(***************************************************************************)
EXTENDS TLAPS

CONSTANTS
  Installs,      \* calls of MaterializePayloadRetrySafe
  Packages,      \* signed packages that carry this version number
  Files,         \* the paths of their payloads
  None

VARIABLES
  pkg,           \* the package each call was given
  pc,            \* what each call does next
  stage,         \* the files in its staging directory
  target,        \* the version's directory: path -> package, or None
  lock,          \* the lock file: [of, old], or None
  seen,          \* the lock file a call found to be old
  metadata       \* the signed release metadata beside the directory

vars == <<pkg, pc, stage, target, lock, seen, metadata>>

(* Every payload has the same paths; the bytes and modes are the package's *)
(* own (validateMaterializeIdentity has tied payload and package).         *)
Payload(p) == [f \in Files |-> p]

(* None stands for a file or directory that does not exist.                *)
Sensible ==
  /\ None \notin Packages \cup Installs
  /\ None \notin [Files -> Packages]
  /\ None \notin [of : Installs, old : BOOLEAN]

TypeOK ==
  /\ Sensible
  /\ pkg \in [Installs -> Packages]
  /\ pc \in [Installs -> {"look", "open", "inspect", "guard", "reinspect",
                          "unlink", "reopen", "write", "recheck", "rename",
                          "promoted", "beaten", "broken", "verify", "sign",
                          "made", "failed", "dead"}]
  /\ stage \in [Installs -> SUBSET Files]
  /\ target \in [Files -> Packages] \cup {None}
  /\ lock = None \/ lock \in [of : Installs, old : BOOLEAN]
  /\ seen \in [Installs -> Installs \cup {None}]
  /\ metadata \in Packages \cup {None}

Init ==
  /\ pkg \in [Installs -> Packages]
  /\ pc = [i \in Installs |-> "look"]
  /\ stage = [i \in Installs |-> {}]
  /\ target = None
  /\ lock = None
  /\ seen = [i \in Installs |-> None]
  /\ metadata = None

Goes(i, from, to) == pc[i] = from /\ pc' = [pc EXCEPT ![i] = to]

-----------------------------------------------------------------------------
(* MaterializePayload looks for the version before it asks for the lock. *)
Looks(i) ==
  /\ Goes(i, "look", IF target = None THEN "open" ELSE "verify")
  /\ UNCHANGED <<pkg, stage, target, lock, seen, metadata>>

(* O_CREATE|O_EXCL *)
Creates(i, otherwise) ==
  IF lock = None
  THEN /\ lock' = [of |-> i, old |-> FALSE]
       /\ pc' = [pc EXCEPT ![i] = "write"]
  ELSE /\ pc' = [pc EXCEPT ![i] = otherwise]
       /\ UNCHANGED lock

(* acquireInstallLock: once, and once more after a stale lock was removed. *)
Opens(i) ==
  /\ \/ pc[i] = "open" /\ Creates(i, "inspect")
     \/ pc[i] = "reopen" /\ Creates(i, "failed")
  /\ UNCHANGED <<pkg, stage, target, seen, metadata>>

(* reclaimStaleInstallLock, one system call at a time: the lock's age ...  *)
Inspects(i) ==
  /\ Goes(i, "inspect", IF lock = None THEN "reopen"
                        ELSE IF lock.old THEN "guard" ELSE "failed")
  /\ seen' = [seen EXCEPT ![i] = IF lock # None THEN lock.of ELSE None]
  /\ UNCHANGED <<pkg, stage, target, lock, metadata>>

(* ... the version, which may have been published ... *)
Guards(i) ==
  /\ Goes(i, "guard", IF target = None THEN "reinspect" ELSE "verify")
  /\ UNCHANGED <<pkg, stage, target, lock, seen, metadata>>

(* ... whether the path still names the same file ... *)
Reinspects(i) ==
  /\ Goes(i, "reinspect", IF lock = None THEN "reopen"
                          ELSE IF lock.of = seen[i] THEN "unlink"
                          ELSE "failed")
  /\ UNCHANGED <<pkg, stage, target, lock, seen, metadata>>

(* ... and the removal, of whatever the path names by then. *)
Unlinks(i) ==
  /\ Goes(i, "unlink", "reopen")
  /\ lock' = None
  /\ UNCHANGED <<pkg, stage, target, seen, metadata>>

(* createMaterializedFile, in a directory of the call's own (MkdirTemp). *)
Writes(i, f) ==
  /\ f \notin stage[i]
  /\ stage' = [stage EXCEPT ![i] = @ \cup {f}]
  /\ Goes(i, "write", IF stage'[i] = Files THEN "recheck" ELSE "write")
  /\ UNCHANGED <<pkg, target, lock, seen, metadata>>

(* A file, a mode or an owner cannot be set: the staging directory goes. *)
WriteFails(i) ==
  /\ Goes(i, "write", "broken")
  /\ stage' = [stage EXCEPT ![i] = {}]
  /\ UNCHANGED <<pkg, target, lock, seen, metadata>>

Rechecks(i) ==
  /\ Goes(i, "recheck", IF target = None THEN "rename" ELSE "beaten")
  /\ stage' = [stage EXCEPT ![i] = IF target = None THEN @ ELSE {}]
  /\ UNCHANGED <<pkg, target, lock, seen, metadata>>

(* Faulty: the rename replaces a version that is there.                     *)
ReplacesAny == TRUE

(* rename(2) does not replace a directory that holds files. *)
Promotable == target = None

Renames(i) ==
  /\ Goes(i, "rename", IF Promotable THEN "promoted" ELSE "broken")
  /\ target' = IF Promotable THEN [f \in stage[i] |-> pkg[i]] ELSE target
  /\ stage' = [stage EXCEPT ![i] = {}]
  /\ UNCHANGED <<pkg, lock, seen, metadata>>

(* The deferred removal of the lock path, then what the outcome calls for. *)
Releases(i) ==
  /\ \/ Goes(i, "promoted", "sign")
     \/ Goes(i, "beaten", "verify")
     \/ Goes(i, "broken", "failed")
  /\ lock' = None
  /\ UNCHANGED <<pkg, stage, target, seen, metadata>>

(* verifyExistingMaterializedPayload: same files, same modes, same bytes. *)
Verifies(i) ==
  /\ Goes(i, "verify", IF target = Payload(pkg[i]) THEN "sign" ELSE "failed")
  /\ UNCHANGED <<pkg, stage, target, lock, seen, metadata>>

(* finalizeRetrySafeMaterialization: the metadata is written once, and an  *)
(* existing one must be this package's.                                    *)
Signs(i) ==
  /\ Goes(i, "sign", IF metadata \in {None, pkg[i]} THEN "made" ELSE "failed")
  /\ metadata' = IF metadata = None THEN pkg[i] ELSE metadata
  /\ UNCHANGED <<pkg, stage, target, lock, seen>>

-----------------------------------------------------------------------------
(* The grace period of the lock passes, its holder alive or not. *)
Ages ==
  /\ lock # None /\ ~ lock.old
  /\ lock' = [lock EXCEPT !.old = TRUE]
  /\ UNCHANGED <<pkg, pc, stage, target, seen, metadata>>

(* A process dies; its staging directory and its lock stay. *)
Dies(i) ==
  /\ pc[i] \notin {"made", "failed", "dead"}
  /\ pc' = [pc EXCEPT ![i] = "dead"]
  /\ UNCHANGED <<pkg, stage, target, lock, seen, metadata>>

Next ==
  \/ \E i \in Installs :
       \/ Looks(i) \/ Opens(i) \/ Inspects(i) \/ Guards(i) \/ Reinspects(i)
       \/ Unlinks(i) \/ WriteFails(i) \/ Rechecks(i) \/ Renames(i)
       \/ Releases(i) \/ Verifies(i) \/ Signs(i) \/ Dies(i)
       \/ \E f \in Files : Writes(i, f)
  \/ Ages

Spec == Init /\ [][Next]_vars

-----------------------------------------------------------------------------
(* An install that reported success is true for ever: the version's        *)
(* directory is exactly the package it was given and the release metadata  *)
(* is that package's, and a directory that exists is always one whole      *)
(* payload.  The lock does not ensure this (two calls that find the same   *)
(* old lock can both end up holding it); the private staging directory,    *)
(* the rename that refuses to replace and the comparison with an existing  *)
(* version do (materialize.go:102-160, materialize_retry.go:20-141).       *)
InstallIsTrue ==
  /\ \A i \in Installs : pc[i] = "made" =>
       target = Payload(pkg[i]) /\ metadata = pkg[i]
  /\ target # None => \E p \in Packages : target = Payload(p)
-----------------------------------------------------------------------------
(* Proofs, for any number of calls, packages and files. *)

(* Why the property holds.  A call renames only a staging directory it has  *)
(* filled, the directory that exists is never replaced, and between the     *)
(* moment a call compared it or put it there and the moment the metadata is *)
(* signed nothing can change it.                                            *)
InstallInv ==
  /\ TypeOK
  /\ InstallIsTrue
  /\ \A i \in Installs :
       /\ pc[i] \in {"recheck", "rename"} => stage[i] = Files
       /\ pc[i] \in {"promoted", "sign"} => target = Payload(pkg[i])

LEMMA PayloadExists ==
  ASSUME Sensible, NEW p \in Packages
  PROVE  Payload(p) \in [Files -> Packages] /\ Payload(p) # None
  BY Zenon DEF Sensible, Payload

(* The step of a call that touches neither the directory nor the metadata   *)
(* and comes to no place where one of them matters.                         *)
Elsewhere(i) ==
  /\ pc'[i] \notin {"recheck", "rename", "promoted", "sign", "made"}
  /\ pc' = [pc EXCEPT ![i] = pc'[i]]
  /\ \A j \in Installs \ {i} : stage'[j] = stage[j]
  /\ UNCHANGED <<pkg, target, metadata>>

LEMMA ElsewhereKeeps ==
  ASSUME InstallInv, TypeOK', NEW i \in Installs, Elsewhere(i)
  PROVE  InstallInv'
  BY DEF InstallInv, TypeOK, InstallIsTrue, Elsewhere, Payload

LEMMA InstallStep ==
  ASSUME InstallInv, [Next]_vars
  PROVE  InstallInv'
<1> USE DEF InstallInv
<1>1. ASSUME NEW i \in Installs, Looks(i) PROVE InstallInv'
  BY Zenon, <1>1, ElsewhereKeeps DEF Looks, Goes, TypeOK, Elsewhere
<1>2. ASSUME NEW i \in Installs, Opens(i) PROVE InstallInv'
  <2>1. lock' = None \/ lock' \in [of : Installs, old : BOOLEAN]
    <3>1. lock' \in {lock, [of |-> i, old |-> FALSE]}
      BY Zenon, <1>2 DEF Opens, Creates
    <3>2. [of |-> i, old |-> FALSE] \in [of : Installs, old : BOOLEAN]
      BY Zenon
    <3> QED BY Zenon, <3>1, <3>2 DEF TypeOK
  <2>2. pc' = [pc EXCEPT ![i] = pc'[i]]
        /\ pc'[i] \in {"inspect", "failed", "write"}
    BY Zenon, <1>2 DEF Opens, Creates, TypeOK
  <2>3. TypeOK'
    BY <1>2, <2>1, <2>2 DEF Opens, TypeOK
  <2> QED BY Zenon, <1>2, <2>2, <2>3, ElsewhereKeeps DEF Opens, Elsewhere
<1>3. ASSUME NEW i \in Installs, Inspects(i) PROVE InstallInv'
  <2>1. TypeOK'
    BY Zenon, <1>3 DEF Inspects, Goes, TypeOK
  <2> QED BY Zenon, <1>3, <2>1, ElsewhereKeeps DEF Inspects, Goes, TypeOK, Elsewhere
<1>4. ASSUME NEW i \in Installs, Guards(i) PROVE InstallInv'
  BY Zenon, <1>4, ElsewhereKeeps DEF Guards, Goes, TypeOK, Elsewhere
<1>5. ASSUME NEW i \in Installs, Reinspects(i) PROVE InstallInv'
  BY Zenon, <1>5, ElsewhereKeeps DEF Reinspects, Goes, TypeOK, Elsewhere
<1>6. ASSUME NEW i \in Installs, Unlinks(i) PROVE InstallInv'
  BY Zenon, <1>6, ElsewhereKeeps DEF Unlinks, Goes, TypeOK, Elsewhere
<1>7. ASSUME NEW i \in Installs, NEW f \in Files, Writes(i, f) PROVE InstallInv'
  <2>1. TypeOK'
    BY <1>7 DEF Writes, Goes, TypeOK
  <2>2. InstallIsTrue'
    BY Zenon, <1>7 DEF Writes, Goes, TypeOK, InstallIsTrue, Payload
  <2> QED BY <1>7, <2>1, <2>2 DEF Writes, Goes, TypeOK, Payload
<1>8. ASSUME NEW i \in Installs, WriteFails(i) PROVE InstallInv'
  <2>1. TypeOK'
    BY Zenon, <1>8 DEF WriteFails, Goes, TypeOK
  <2> QED BY <1>8, <2>1, ElsewhereKeeps DEF WriteFails, Goes, TypeOK, Elsewhere
<1>9. ASSUME NEW i \in Installs, Rechecks(i) PROVE InstallInv'
  <2>1. TypeOK'
    BY Zenon, <1>9 DEF Rechecks, Goes, TypeOK
  <2>2. InstallIsTrue'
    BY <1>9 DEF Rechecks, Goes, TypeOK, InstallIsTrue, Payload
  <2> QED BY <1>9, <2>1, <2>2 DEF Rechecks, Goes, TypeOK, Payload
<1>10. ASSUME NEW i \in Installs, Renames(i) PROVE InstallInv'
  <2>1. CASE target = None
    <3>1. target' = Payload(pkg[i])
      BY Zenon, <1>10, <2>1 DEF Renames, Goes, Promotable, Payload, TypeOK
    <3>2. \A j \in Installs : pc[j] \notin {"promoted", "sign", "made"}
      BY Zenon, <2>1, PayloadExists DEF InstallIsTrue, TypeOK
    <3>3. TypeOK'
      BY <1>10, <2>1, <3>1, PayloadExists DEF Renames, Goes, Promotable, TypeOK
    <3>4. InstallIsTrue'
      BY Zenon, <1>10, <3>1, <3>2 DEF Renames, Goes, TypeOK, InstallIsTrue
    <3> QED
      BY <1>10, <2>1, <3>1, <3>2, <3>3, <3>4
      DEF Renames, Goes, Promotable, TypeOK, Payload
  <2>2. CASE target # None
    <3>1. TypeOK'
      BY Zenon, <1>10, <2>2 DEF Renames, Goes, Promotable, TypeOK
    <3> QED
      BY <1>10, <2>2, <3>1, ElsewhereKeeps
      DEF Renames, Goes, Promotable, TypeOK, Elsewhere
  <2> QED BY Zenon, <2>1, <2>2
<1>11. ASSUME NEW i \in Installs, Releases(i) PROVE InstallInv'
  <2>1. TypeOK'
    BY Zenon, <1>11 DEF Releases, Goes, TypeOK
  <2>2. InstallIsTrue'
    BY Zenon, <1>11 DEF Releases, Goes, TypeOK, InstallIsTrue, Payload
  <2> QED BY <1>11, <2>1, <2>2 DEF Releases, Goes, TypeOK, Payload
<1>12. ASSUME NEW i \in Installs, Verifies(i) PROVE InstallInv'
  <2>1. TypeOK'
    BY Zenon, <1>12 DEF Verifies, Goes, TypeOK
  <2>2. InstallIsTrue'
    BY <1>12 DEF Verifies, Goes, TypeOK, InstallIsTrue, Payload
  <2> QED BY <1>12, <2>1, <2>2 DEF Verifies, Goes, TypeOK, Payload
<1>13. ASSUME NEW i \in Installs, Signs(i) PROVE InstallInv'
  <2>1. TypeOK'
    BY Zenon, <1>13 DEF Signs, Goes, TypeOK
  <2>2. InstallIsTrue'
    BY <1>13 DEF Signs, Goes, TypeOK, Sensible, InstallIsTrue, Payload
  <2> QED BY <1>13, <2>1, <2>2 DEF Signs, Goes, TypeOK, Payload
<1>14. ASSUME NEW i \in Installs, Dies(i) PROVE InstallInv'
  BY Zenon, <1>14, ElsewhereKeeps DEF Dies, TypeOK, Elsewhere
<1>15. CASE Ages \/ UNCHANGED vars
  <2>1. TypeOK'
    BY Zenon, <1>15 DEF Ages, vars, TypeOK
  <2> QED BY Zenon, <1>15, <2>1 DEF Ages, vars, InstallIsTrue, Payload
<1> QED
  BY Zenon, <1>1, <1>2, <1>3, <1>4, <1>5, <1>6, <1>7, <1>8, <1>9, <1>10, <1>11, <1>12,
     <1>13, <1>14, <1>15 DEF Next

(* An install that reported success is true for ever, whatever calls of     *)
(* MaterializePayloadRetrySafe overlap, take over an old lock and die: the  *)
(* proof nowhere relies on the lock to exclude another call.                *)
THEOREM InstallsAreTrue == Sensible => (Spec => []InstallIsTrue)
<1>1. Sensible /\ Init => InstallInv
  BY Zenon DEF Sensible, Init, InstallInv, TypeOK, InstallIsTrue
<1>2. InstallInv /\ [Next]_vars => InstallInv'
  BY Zenon, InstallStep
<1>3. InstallInv => InstallIsTrue
  BY Zenon DEF InstallInv
<1> QED BY <1>1, <1>2, <1>3, PTL DEF Spec
=============================================================================
