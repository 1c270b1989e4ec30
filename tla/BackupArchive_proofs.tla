------------------------- MODULE BackupArchive_proofs -------------------------
(***************************************************************************)
(* Proofs about BackupArchive, for any numbers of keys, commands,          *)
(* components and damages.                                                 *)
(*                                                                         *)
(* A key that was ever active stays active and its file stays, since       *)
(* RotateKey removes only files of the key that it has drawn itself and    *)
(* has not made active; and every key that is used was active when it was  *)
(* loaded.                                                                 *)
(***************************************************************************)
EXTENDS BackupArchive, TLAPS

OwnsKey == {"meta", "activate", "unmeta", "unmaterial"}

\* The key directory and the commands that write it.
KeysKept ==
    /\ \A k \in Keys : meta[k] = "active" => k \in material
    /\ \A k \in Keys \ drawn : meta[k] = "none"
    /\ \A i \in Inits : proc[i].pc \in OwnsKey =>
          /\ proc[i].key \in drawn /\ meta[proc[i].key] # "active"
          /\ proc[i].pc \in {"meta", "activate"} => proc[i].key \in material
    /\ \A i, j \in Inits : i # j /\ proc[i].pc \in OwnsKey /\ proc[j].pc \in OwnsKey
                           => proc[i].key # proc[j].key

\* Who uses a key.
UsedIsActive ==
    /\ \A p \in Processes, k \in Keys : proc[p].view[k] = "active" => meta[k] = "active"
    /\ \A b \in Backups : proc[b].pc \in {"write", "finalize"} =>
          proc[b].key \in Keys /\ meta[proc[b].key] = "active"
    /\ \A b \in Backups : manifests[b] # None =>
          meta[manifests[b]] = "active" /\ proc[b].pc = "end"

Intact(b, c, k) == <<b, c>> \in damaged \/ artifacts[<<b, c>>] = Sealed(b, c, k)

\* What a backup command has written so far, and what stands under a manifest.
WrittenSet(b) ==
    /\ proc[b].pc \in {"write", "finalize"} =>
          \A c \in 1 .. Parts : c < proc[b].next =>
              <<b, c>> \in statuses /\ Intact(b, c, proc[b].key)
    /\ proc[b].pc = "finalize" =>
          proc[b].next \in 1 .. Parts /\ Intact(b, proc[b].next, proc[b].key)
    /\ manifests[b] # None =>
          \A c \in 1 .. Parts : <<b, c>> \in statuses /\ Intact(b, c, manifests[b])

Written == \A b \in Backups : WrittenSet(b)

Verifying == {"check", "read", "refused", "verified"}

\* What a verification has seen.
SeenIsTrueOf(v) ==
    proc[v].pc \in Verifying =>
        /\ proc[v].set \in ListBackupSets /\ proc[v].key = manifests[proc[v].set]
        /\ proc[v].pc \in {"read", "refused"} => proc[v].next \in 1 .. Parts
        /\ proc[v].pc = "refused" => Place(v) \in damaged
        /\ proc[v].pc = "verified" => proc[v].next = Parts + 1
        /\ proc[v].opened = {Sealed(proc[v].set, c, proc[v].key) : c \in 1 .. (proc[v].next - 1)}

SeenIsTrue == \A v \in Verifiers : SeenIsTrueOf(v)

Early == {"idle", "load", "loaded", "built"}

\* No component is behind a command that has no set yet.
Unstarted ==
    \A p \in Processes : proc[p].pc \in Early => proc[p].next = 1 /\ proc[p].opened = {}

ArchiveInv == KeysKept /\ UsedIsActive /\ Written /\ SeenIsTrue /\ Unstarted

-----------------------------------------------------------------------------
\* A step of one process.
Moved(p) ==
    /\ proc' \in [Processes -> Process]
    /\ \A q \in Processes \ {p} : proc'[q] = proc[q]

\* A new record for one process.
LEMMA Replaced ==
    ASSUME TypeOK, NEW p \in Processes, NEW r \in Process, proc' = [proc EXCEPT ![p] = r]
    PROVE  Moved(p) /\ proc'[p] = r
BY Zenon DEF TypeOK, Moved

LEMMA ExitsStep ==
    ASSUME TypeOK, NEW p \in Processes, Exits(p)
    PROVE  /\ Moved(p) /\ proc'[p].pc = "end" /\ proc'[p].view = NoView
<1>1. [Fresh EXCEPT !.pc = "end"] \in Process
  BY DEF Fresh, Process, NoView, States, Pcs, TypeOK, Distinct
<1>2. Moved(p) /\ proc'[p] = [Fresh EXCEPT !.pc = "end"]
  BY Zenon, <1>1, Replaced DEF Exits
<1> QED BY Zenon, <1>2 DEF Fresh

LEMMA GoesStep ==
    ASSUME TypeOK, NEW p \in Processes, NEW pc \in Pcs, Goes(p, pc)
    PROVE  Moved(p) /\ proc'[p] = [proc[p] EXCEPT !.pc = pc]
<1>1. [proc[p] EXCEPT !.pc = pc] \in Process
  BY DEF TypeOK, Process
<1>2. proc' = [proc EXCEPT ![p] = [proc[p] EXCEPT !.pc = pc]]
  BY Zenon DEF Goes, TypeOK
<1> QED BY Zenon, <1>1, <1>2, Replaced

LEMMA KeysFrame ==
    ASSUME TypeOK, KeysKept, NEW p \in Processes, Moved(p), UNCHANGED keyFiles,
           p \in Inits => proc'[p].pc \notin OwnsKey
    PROVE  KeysKept'
BY Zenon DEF TypeOK, KeysKept, Moved, keyFiles, Processes

LEMMA UsedFrame ==
    ASSUME TypeOK, UsedIsActive, NEW p \in Processes, Moved(p), UNCHANGED manifests,
           \A k \in Keys : meta[k] = "active" => meta'[k] = "active",
           \A k \in Keys : proc'[p].view[k] = "active" => meta'[k] = "active",
           p \in Backups => /\ proc'[p].pc \notin {"write", "finalize"}
                            /\ proc[p].pc = "end" => proc'[p].pc = "end"
    PROVE  UsedIsActive'
BY DEF TypeOK, UsedIsActive, Moved, Processes

LEMMA WrittenFrame ==
    ASSUME TypeOK, Written, NEW p \in Processes, Moved(p), UNCHANGED repository,
           p \in Backups => proc'[p].pc \notin {"write", "finalize"}
    PROVE  Written'
BY DEF TypeOK, Written, Moved, Processes, repository, Intact, WrittenSet

LEMMA SeenFrame ==
    ASSUME TypeOK, SeenIsTrue, NEW p \in Processes, Moved(p),
           \A b \in ListBackupSets : manifests'[b] = manifests[b], damaged \subseteq damaged',
           p \in Verifiers => proc'[p].pc \notin Verifying
    PROVE  SeenIsTrue'
<1>1. \A v \in Verifiers : proc'[v].pc \in Verifying => v # p /\ proc'[v] = proc[v]
  BY Zenon DEF Moved, Processes
<1>2. ListBackupSets \subseteq ListBackupSets'
  BY Zenon DEF ListBackupSets
<1> QED BY <1>1, <1>2 DEF SeenIsTrue, SeenIsTrueOf, Place

ArchiveIInv == TypeOK /\ ArchiveInv

\* A step that writes no file, and after which the process neither owns a key nor
\* reads or writes the repository.
LEMMA QuietStep ==
    ASSUME ArchiveIInv, NEW p \in Processes, Moved(p), UNCHANGED <<keyFiles, repository>>,
           proc'[p].pc \notin OwnsKey \cup {"write", "finalize"} \cup Verifying,
           proc[p].pc = "end" => proc'[p].pc = "end",
           proc'[p].pc \in Early => /\ proc[p].pc \in Early /\ proc'[p].next = proc[p].next
                                    /\ proc'[p].opened = proc[p].opened,
           \A k \in Keys : proc'[p].view[k] = "active" => meta[k] = "active"
    PROVE  ArchiveIInv'
<1>1. TypeOK'
  BY Zenon DEF ArchiveIInv, TypeOK, Moved, keyFiles, repository
<1>2. KeysKept'
  BY Zenon, KeysFrame DEF ArchiveIInv, ArchiveInv
<1>3. UsedIsActive'
  BY Zenon, UsedFrame DEF ArchiveIInv, ArchiveInv, keyFiles, repository
<1>4. Written'
  BY Zenon, WrittenFrame DEF ArchiveIInv, ArchiveInv
<1>5. SeenIsTrue'
  BY Zenon, SeenFrame DEF ArchiveIInv, ArchiveInv, repository
<1>6. Unstarted'
  BY Zenon DEF ArchiveIInv, ArchiveInv, Unstarted, Moved
<1> QED BY Zenon, <1>1, <1>2, <1>3, <1>4, <1>5, <1>6 DEF ArchiveIInv, ArchiveInv

LEMMA CommonSteps ==
    ASSUME ArchiveIInv, NEW p \in Processes,
           ListKeys(p) \/ Loaded(p) \/ Ends(p) \/ \E k \in Keys : LoadKey(p, k)
    PROVE  ArchiveIInv'
<1> USE DEF OwnsKey, Verifying, Early
<1>0. TypeOK /\ proc[p] \in Process /\ \A k \in Keys : proc[p].view[k] = "active" => meta[k] = "active"
  BY Zenon DEF ArchiveIInv, ArchiveInv, TypeOK, UsedIsActive
<1>1. CASE ListKeys(p)
  <2> DEFINE r == [proc[p] EXCEPT !.pc = "load", !.list = {k \in Keys : meta[k] # "none"}]
  <2>1. r \in Process
    BY Zenon, <1>0 DEF Process, Pcs
  <2>2. proc' = [proc EXCEPT ![p] = r]
    BY Zenon, <1>1, <1>0 DEF ListKeys, TypeOK
  <2>3. Moved(p) /\ proc'[p] = r
    BY Zenon, <1>0, <2>1, <2>2, Replaced
  <2>4. r.pc = "load" /\ r.view = proc[p].view /\ r.next = proc[p].next /\ r.opened = proc[p].opened
    BY Zenon, <1>0 DEF Process
  <2>5. proc[p].pc = "idle" /\ UNCHANGED <<keyFiles, repository>>
    BY Zenon, <1>1 DEF ListKeys
  <2> HIDE DEF r
  <2> QED BY Zenon, <1>0, <2>3, <2>4, <2>5, QuietStep
<1>2. CASE Loaded(p)
  <2>1. Moved(p) /\ proc'[p] = [proc[p] EXCEPT !.pc = "loaded"]
    BY Zenon, <1>0, <1>2, GoesStep DEF Loaded, Pcs
  <2>2. proc'[p].pc = "loaded" /\ proc'[p].view = proc[p].view
        /\ proc'[p].next = proc[p].next /\ proc'[p].opened = proc[p].opened
    BY Zenon, <1>0, <2>1 DEF Process
  <2>3. proc[p].pc = "load" /\ UNCHANGED <<keyFiles, repository>>
    BY Zenon, <1>2 DEF Loaded
  <2> QED BY Zenon, <1>0, <2>1, <2>2, <2>3, QuietStep
<1>3. CASE Ends(p)
  <2>1. Moved(p) /\ proc'[p].pc = "end" /\ proc'[p].view = NoView
    BY Zenon, <1>0, <1>3, ExitsStep DEF Ends
  <2>2. \A k \in Keys : proc'[p].view[k] # "active"
    BY Zenon, <2>1 DEF NoView
  <2>3. proc[p].pc # "end" /\ UNCHANGED <<keyFiles, repository>>
    BY Zenon, <1>3 DEF Ends
  <2> QED BY Zenon, <2>1, <2>2, <2>3, QuietStep
<1>4. ASSUME NEW k \in Keys, LoadKey(p, k) PROVE ArchiveIInv'
  <2> DEFINE r == [proc[p] EXCEPT !.view = [proc[p].view EXCEPT ![k] = meta[k]],
                                  !.list = proc[p].list \ {k}]
  <2>1. r \in Process
    BY Zenon, <1>0 DEF Process, TypeOK
  <2>2. proc' = [proc EXCEPT ![p] = r]
    BY Zenon, <1>4, <1>0 DEF LoadKey, TypeOK
  <2>3. Moved(p) /\ proc'[p] = r
    BY Zenon, <1>0, <2>1, <2>2, Replaced
  <2>4. r.pc = "load" /\ r.view = [proc[p].view EXCEPT ![k] = meta[k]]
        /\ r.next = proc[p].next /\ r.opened = proc[p].opened
    BY Zenon, <1>0, <1>4 DEF Process, LoadKey
  <2>5. \A x \in Keys : r.view[x] = "active" => meta[x] = "active"
    BY Zenon, <1>0, <2>4 DEF Process
  <2>6. proc[p].pc = "load" /\ UNCHANGED <<keyFiles, repository>>
    BY Zenon, <1>4 DEF LoadKey
  <2> HIDE DEF r
  <2> QED BY Zenon, <2>3, <2>4, <2>5, <2>6, QuietStep
<1> QED BY Zenon, <1>1, <1>2, <1>3, <1>4

\* The steps of a key-init command that write the key directory.
LEMMA InitFrame ==
    ASSUME ArchiveIInv, NEW i \in Inits, Moved(i), UNCHANGED repository,
           material' \subseteq Keys, drawn' \subseteq Keys, meta' \in [Keys -> States],
           \A k \in Keys : meta[k] = "active" => meta'[k] = "active",
           \A k \in Keys : proc'[i].view[k] = "active" => meta[k] = "active", KeysKept',
           proc'[i].pc \notin Early
    PROVE  ArchiveIInv'
<1> USE DEF Processes
<1>0. i \notin Backups /\ i \notin Verifiers
  BY Zenon DEF ArchiveIInv, TypeOK, Distinct
<1>1. TypeOK'
  BY Zenon DEF ArchiveIInv, TypeOK, Moved, repository
<1>3. UsedIsActive'
  BY Zenon, <1>0, UsedFrame DEF ArchiveIInv, ArchiveInv, repository
<1>4. Written'
  BY Zenon, <1>0, WrittenFrame DEF ArchiveIInv, ArchiveInv
<1>5. SeenIsTrue'
  BY Zenon, <1>0, SeenFrame DEF ArchiveIInv, ArchiveInv, repository
<1>6. Unstarted'
  BY Zenon DEF ArchiveIInv, ArchiveInv, Unstarted, Moved
<1> QED BY Zenon, <1>1, <1>3, <1>4, <1>5, <1>6 DEF ArchiveIInv, ArchiveInv

LEMMA KeyInitSteps ==
    ASSUME ArchiveIInv, NEW i \in Inits,
           \/ InitDecides(i) \/ WriteMeta(i) \/ Activate(i)
           \/ RemoveMeta(i) \/ RemoveMaterial(i)
           \/ \E k \in Keys : WriteMaterial(i, k)
    PROVE  ArchiveIInv'
<1>0. TypeOK /\ KeysKept /\ i \in Processes /\ proc[i] \in Process
      /\ \A k \in Keys : proc[i].view[k] = "active" => meta[k] = "active"
  BY Zenon DEF ArchiveIInv, ArchiveInv, TypeOK, UsedIsActive, Processes
<1>a. ASSUME Exits(i)
      PROVE  Moved(i) /\ proc'[i].pc = "end" /\ \A k \in Keys : proc'[i].view[k] # "active"
  <2>1. Moved(i) /\ proc'[i].pc = "end" /\ proc'[i].view = NoView
    BY Zenon, <1>0, <1>a, ExitsStep
  <2> QED BY Zenon, <2>1 DEF NoView
<1>b. ASSUME NEW pc \in Pcs, Goes(i, pc)
      PROVE  Moved(i) /\ proc'[i].pc = pc /\ proc'[i].key = proc[i].key /\ proc'[i].view = proc[i].view
  <2>1. Moved(i) /\ proc'[i] = [proc[i] EXCEPT !.pc = pc]
    BY Zenon, <1>0, <1>b, GoesStep
  <2> QED BY Zenon, <1>0, <2>1 DEF Process
<1>1. CASE InitDecides(i)
  <2>1. proc[i].pc = "loaded" /\ UNCHANGED <<keyFiles, repository>>
        /\ (Goes(i, "material") \/ Exits(i))
    BY Zenon, <1>1 DEF InitDecides
  <2>2. CASE Goes(i, "material")
    BY Zenon, <1>0, <1>b, <2>1, <2>2, QuietStep DEF Pcs, OwnsKey, Verifying, Early
  <2>3. CASE Exits(i)
    BY Zenon, <1>0, <1>a, <2>1, <2>3, QuietStep DEF OwnsKey, Verifying, Early
  <2> QED BY Zenon, <2>1, <2>2, <2>3
<1>2. CASE WriteMeta(i)
  <2>1. proc[i].pc = "meta" /\ UNCHANGED <<material, drawn, repository>>
    BY Zenon, <1>2 DEF WriteMeta
  <2>2. proc[i].key \in Keys /\ proc[i].key \in material /\ proc[i].key \in drawn
        /\ meta[proc[i].key] # "active"
    BY Zenon, <1>0, <2>1 DEF KeysKept, OwnsKey, TypeOK
  <2>3. CASE SetMeta(proc[i].key, "inactive") /\ Goes(i, "activate")
    <3>1. Moved(i) /\ proc'[i].pc = "activate" /\ proc'[i].key = proc[i].key /\ proc'[i].view = proc[i].view
      BY Zenon, <1>b, <2>3 DEF Pcs
    <3>2. meta' = [meta EXCEPT ![proc[i].key] = "inactive"] /\ meta' \in [Keys -> States]
      BY Zenon, <1>0, <2>2, <2>3 DEF SetMeta, TypeOK, States
    <3>3. KeysKept'
      BY <1>0, <2>1, <2>2, <3>1, <3>2 DEF KeysKept, OwnsKey, TypeOK, Moved, Processes
    <3>4. \A k \in Keys : meta[k] = "active" => meta'[k] = "active"
      BY Zenon, <1>0, <2>2, <3>2 DEF TypeOK
    <3> QED BY Zenon, <1>0, <2>1, <3>1, <3>2, <3>3, <3>4, InitFrame DEF TypeOK, Early
  <2>4. CASE Goes(i, "unmaterial") /\ UNCHANGED meta
    <3>1. Moved(i) /\ proc'[i].pc = "unmaterial" /\ proc'[i].key = proc[i].key /\ proc'[i].view = proc[i].view
      BY Zenon, <1>b, <2>4 DEF Pcs
    <3>3. KeysKept'
      BY <1>0, <2>1, <2>2, <2>4, <3>1 DEF KeysKept, OwnsKey, TypeOK, Moved, Processes
    <3> QED BY Zenon, <1>0, <2>1, <2>4, <3>1, <3>3, InitFrame DEF TypeOK, Early
  <2> QED BY Zenon, <1>2, <2>3, <2>4 DEF WriteMeta
<1>3. CASE Activate(i)
  <2>1. proc[i].pc = "activate" /\ UNCHANGED <<material, drawn, repository>>
    BY Zenon, <1>3 DEF Activate
  <2>2. proc[i].key \in Keys /\ proc[i].key \in material /\ proc[i].key \in drawn
        /\ meta[proc[i].key] # "active"
    BY Zenon, <1>0, <2>1 DEF KeysKept, OwnsKey, TypeOK
  <2>3. CASE SetMeta(proc[i].key, "active") /\ Exits(i)
    <3>1. Moved(i) /\ proc'[i].pc = "end" /\ \A k \in Keys : proc'[i].view[k] # "active"
      BY Zenon, <1>a, <2>3
    <3>2. meta' = [meta EXCEPT ![proc[i].key] = "active"] /\ meta' \in [Keys -> States]
      BY Zenon, <1>0, <2>2, <2>3 DEF SetMeta, TypeOK, States
    <3>3. KeysKept'
      BY <1>0, <2>1, <2>2, <3>1, <3>2 DEF KeysKept, OwnsKey, TypeOK, Moved, Processes
    <3>4. \A k \in Keys : meta[k] = "active" => meta'[k] = "active"
      BY Zenon, <1>0, <2>2, <3>2 DEF TypeOK
    <3> QED BY Zenon, <1>0, <2>1, <3>1, <3>2, <3>3, <3>4, InitFrame DEF TypeOK, Early
  <2>4. CASE Goes(i, "unmeta") /\ UNCHANGED meta
    <3>1. Moved(i) /\ proc'[i].pc = "unmeta" /\ proc'[i].key = proc[i].key /\ proc'[i].view = proc[i].view
      BY Zenon, <1>b, <2>4 DEF Pcs
    <3>3. KeysKept'
      BY <1>0, <2>1, <2>2, <2>4, <3>1 DEF KeysKept, OwnsKey, TypeOK, Moved, Processes
    <3> QED BY Zenon, <1>0, <2>1, <2>4, <3>1, <3>3, InitFrame DEF TypeOK, Early
  <2> QED BY Zenon, <1>3, <2>3, <2>4 DEF Activate
<1>4. CASE RemoveMeta(i)
  <2>1. proc[i].pc = "unmeta" /\ UNCHANGED <<material, drawn, repository>> /\ Goes(i, "unmaterial")
    BY Zenon, <1>4 DEF RemoveMeta
  <2>2. proc[i].key \in Keys /\ proc[i].key \in drawn /\ meta[proc[i].key] # "active"
    BY Zenon, <1>0, <2>1 DEF KeysKept, OwnsKey, TypeOK
  <2>3. Moved(i) /\ proc'[i].pc = "unmaterial" /\ proc'[i].key = proc[i].key /\ proc'[i].view = proc[i].view
    BY Zenon, <1>b, <2>1 DEF Pcs
  <2>4. meta' \in [Keys -> States] /\ meta'[proc[i].key] # "active"
        /\ \A k \in Keys \ {proc[i].key} : meta'[k] = meta[k]
    BY Zenon, <1>0, <1>4, <2>2 DEF RemoveMeta, SetMeta, TypeOK, States
  <2>5. \A k \in Keys : meta'[k] = "active" <=> meta[k] = "active"
    BY Zenon, <2>2, <2>4
  <2>6. KeysKept'
    BY <1>0, <2>1, <2>2, <2>3, <2>4, <2>5 DEF KeysKept, OwnsKey, TypeOK, Moved, Processes
  <2> QED BY Zenon, <1>0, <2>1, <2>3, <2>4, <2>5, <2>6, InitFrame DEF TypeOK, Early
<1>5. CASE RemoveMaterial(i)
  <2>1. proc[i].pc = "unmaterial" /\ UNCHANGED <<meta, drawn, repository>> /\ Exits(i)
        /\ material' \in {material, material \ {proc[i].key}}
    BY Zenon, <1>5 DEF RemoveMaterial
  <2>2. meta[proc[i].key] # "active"
    BY Zenon, <1>0, <2>1 DEF KeysKept, OwnsKey
  <2>3. Moved(i) /\ proc'[i].pc = "end" /\ \A k \in Keys : proc'[i].view[k] # "active"
    BY Zenon, <1>a, <2>1
  <2>4. \A j \in Inits : proc'[j].pc \in OwnsKey =>
            j # i /\ proc'[j] = proc[j] /\ proc[j].key # proc[i].key
    BY Zenon, <1>0, <2>1, <2>3 DEF KeysKept, OwnsKey, Moved, Processes
  <2>5. KeysKept'
    BY <1>0, <2>1, <2>2, <2>4 DEF KeysKept, TypeOK
  <2> QED BY Zenon, <1>0, <2>1, <2>3, <2>5, InitFrame DEF TypeOK, Early
<1>6. ASSUME NEW k \in Keys, WriteMaterial(i, k) PROVE ArchiveIInv'
  <2>1. proc[i].pc = "material" /\ k \notin drawn /\ drawn' = drawn \cup {k}
        /\ UNCHANGED <<meta, repository>>
    BY Zenon, <1>6 DEF WriteMaterial, NewKeyID
  <2>2. meta[k] = "none" /\ \A j \in Inits : proc[j].pc \in OwnsKey => proc[j].key # k
    BY Zenon, <1>0, <2>1 DEF KeysKept
  <2>3. CASE material' = material \cup {k} /\ proc' = [proc EXCEPT ![i].key = k, ![i].pc = "meta"]
    <3> DEFINE r == [proc[i] EXCEPT !.key = k, !.pc = "meta"]
    <3>1. r \in Process /\ r.pc = "meta" /\ r.key = k /\ r.view = proc[i].view
      BY Zenon, <1>0 DEF Process, Pcs
    <3>2. proc' = [proc EXCEPT ![i] = r]
      BY Zenon, <1>0, <2>3 DEF TypeOK
    <3>3. Moved(i) /\ proc'[i] = r
      BY Zenon, <1>0, <3>1, <3>2, Replaced
    <3> HIDE DEF r
    <3>4. KeysKept'
      BY <1>0, <2>1, <2>2, <2>3, <3>1, <3>3 DEF KeysKept, TypeOK, Moved, Processes
    <3> QED BY <1>0, <2>1, <2>3, <3>1, <3>3, <3>4, InitFrame DEF TypeOK, Early
  <2>4. CASE Exits(i) /\ UNCHANGED material
    <3>1. Moved(i) /\ proc'[i].pc = "end" /\ \A x \in Keys : proc'[i].view[x] # "active"
      BY Zenon, <1>a, <2>4
    <3>2. KeysKept'
      BY <1>0, <2>1, <2>2, <2>4, <3>1 DEF KeysKept, OwnsKey, TypeOK, Moved, Processes
    <3> QED BY Zenon, <1>0, <2>1, <2>4, <3>1, <3>2, InitFrame DEF TypeOK, Early
  <2> QED BY Zenon, <1>6, <2>3, <2>4 DEF WriteMaterial
<1> QED BY Zenon, <1>1, <1>2, <1>3, <1>4, <1>5, <1>6

LEMMA BackupFrame ==
    ASSUME ArchiveIInv, NEW b \in Backups, Moved(b), UNCHANGED keyFiles,
           artifacts' \in [Places -> Envelopes \cup {None}], statuses' \subseteq Places,
           manifests' \in [Backups -> Keys \cup {None}], UNCHANGED damaged,
           \A x \in ListBackupSets : manifests'[x] = manifests[x],
           proc'[b].pc \notin Early, Written', UsedIsActive'
    PROVE  ArchiveIInv'
<1> USE DEF Processes
<1>0. b \notin Inits /\ b \notin Verifiers
  BY Zenon DEF ArchiveIInv, TypeOK, Distinct
<1>1. TypeOK'
  BY Zenon DEF ArchiveIInv, TypeOK, Moved, keyFiles
<1>2. KeysKept'
  BY Zenon, <1>0, KeysFrame DEF ArchiveIInv, ArchiveInv
<1>5. SeenIsTrue'
  BY Zenon, <1>0, SeenFrame DEF ArchiveIInv, ArchiveInv
<1>6. Unstarted'
  BY Zenon DEF ArchiveIInv, ArchiveInv, Unstarted, Moved
<1> QED BY Zenon, <1>1, <1>2, <1>5, <1>6 DEF ArchiveIInv, ArchiveInv

LEMMA BackupSteps ==
    ASSUME ArchiveIInv, NEW b \in Backups,
           \/ WriteComponent(b) \/ FinalizeComponent(b) \/ FinalizeBackupSet(b)
           \/ \E k \in Keys : BuildRuntime(b, k) \/ TakeKey(b, k)
    PROVE  ArchiveIInv'
<1>0. TypeOK /\ b \in Processes /\ proc[b] \in Process /\ b \notin Inits /\ b \notin Verifiers
      /\ Parts \in Nat /\ KeysKept /\ UsedIsActive /\ Written /\ SeenIsTrue
      /\ \A k \in Keys : proc[b].view[k] = "active" => meta[k] = "active"
  BY Zenon DEF ArchiveIInv, ArchiveInv, TypeOK, UsedIsActive, Processes, Distinct
<1>1. ASSUME NEW k \in Keys, BuildRuntime(b, k) PROVE ArchiveIInv'
  <2> DEFINE r == [proc[b] EXCEPT !.pc = "built", !.held = {k}]
  <2>1. r \in Process /\ r.pc = "built" /\ r.view = proc[b].view
        /\ r.next = proc[b].next /\ r.opened = proc[b].opened
    BY Zenon, <1>0 DEF Process, Pcs
  <2>2. proc' = [proc EXCEPT ![b] = r]
    BY Zenon, <1>1, <1>0 DEF BuildRuntime, TypeOK
  <2>3. Moved(b) /\ proc'[b] = r
    BY Zenon, <1>0, <2>1, <2>2, Replaced
  <2>4. proc[b].pc = "loaded" /\ UNCHANGED <<keyFiles, repository>>
    BY Zenon, <1>1 DEF BuildRuntime
  <2> HIDE DEF r
  <2> QED BY Zenon, <1>0, <2>1, <2>3, <2>4, QuietStep DEF OwnsKey, Verifying, Early
<1>2. ASSUME NEW k \in Keys, TakeKey(b, k) PROVE ArchiveIInv'
  <2> DEFINE r == [proc[b] EXCEPT !.pc = "write", !.key = k, !.held = proc[b].held \cup {k},
                                  !.set = b]
  <2>1. r \in Process /\ r.pc = "write" /\ r.key = k /\ r.view = proc[b].view /\ r.next = proc[b].next
    BY Zenon, <1>0 DEF Process, Pcs
  <2>2. proc' = [proc EXCEPT ![b] = r]
    BY Zenon, <1>2, <1>0 DEF TakeKey, TypeOK
  <2>3. Moved(b) /\ proc'[b] = r
    BY Zenon, <1>0, <2>1, <2>2, Replaced
  <2>4. proc[b].pc = "built" /\ UNCHANGED <<keyFiles, repository>> /\ proc[b].view[k] = "active"
    BY Zenon, <1>2 DEF TakeKey, CurrentKeys
  <2>5. manifests[b] = None /\ r.next = 1
    BY Zenon, <1>0, <2>1, <2>4 DEF UsedIsActive, Unstarted, Early, ArchiveIInv, ArchiveInv
  <2> HIDE DEF r
  <2>6. Written'
    BY <1>0, <2>1, <2>3, <2>4, <2>5 DEF Written, Moved, Processes, repository, Intact, WrittenSet
  <2>7. UsedIsActive'
    BY <1>0, <2>1, <2>3, <2>4, <2>5 DEF UsedIsActive, Moved, Processes, repository, keyFiles
  <2> QED BY Zenon, <1>0, <2>1, <2>3, <2>4, <2>6, <2>7, BackupFrame DEF repository, Early, TypeOK
<1>3. CASE WriteComponent(b)
  <2> DEFINE n == proc[b].next
  <2>1. proc[b].pc = "write" /\ n \in 1 .. Parts /\ UNCHANGED <<keyFiles, statuses, manifests, damaged>>
        /\ artifacts' = [artifacts EXCEPT ![<<b, n>>] = Sealed(b, n, proc[b].key)]
        /\ Goes(b, "finalize")
    BY <1>0, <1>3 DEF WriteComponent, Process
  <2>2. Moved(b) /\ proc'[b].pc = "finalize" /\ proc'[b].key = proc[b].key
        /\ proc'[b].view = proc[b].view /\ proc'[b].next = n
    <3>1. Moved(b) /\ proc'[b] = [proc[b] EXCEPT !.pc = "finalize"]
      BY Zenon, <1>0, <2>1, GoesStep DEF Pcs
    <3> QED BY Zenon, <1>0, <3>1 DEF Process
  <2>3. manifests[b] = None /\ proc[b].key \in Keys
    BY Zenon, <1>0, <2>1 DEF UsedIsActive
  <2> HIDE DEF n
  <2>4. <<b, n>> \in Places /\ Sealed(b, n, proc[b].key) \in Envelopes
    BY Zenon, <2>1, <2>3 DEF Places, Sealed, Envelopes
  <2>5. artifacts' \in [Places -> Envelopes \cup {None}]
        /\ artifacts'[<<b, n>>] = Sealed(b, n, proc[b].key)
        /\ \A x \in Backups, c \in 1 .. Parts :
              x # b \/ c # n => artifacts'[<<x, c>>] = artifacts[<<x, c>>]
    BY Zenon, <1>0, <2>1, <2>4 DEF TypeOK, Places
  <2>6. Written'
    <3>1. \A x \in Backups : x # b => proc'[x] = proc[x]
      BY Zenon, <2>2 DEF Moved, Processes
    <3>2. \A x \in Backups : x # b => \A c \in 1 .. Parts : artifacts'[<<x, c>>] = artifacts[<<x, c>>]
      BY Zenon, <2>5
    <3>3. \A x \in Backups : x # b => WrittenSet(x)'
      BY <1>0, <2>1, <3>1, <3>2 DEF Written, WrittenSet, Intact
    <3>4. \A c \in 1 .. Parts : c < n => <<b, c>> \in statuses /\ Intact(b, c, proc[b].key)
      BY Zenon, <1>0, <2>1 DEF Written, WrittenSet, n
    <3>5. WrittenSet(b)'
      BY Zenon, <2>1, <2>2, <2>3, <2>5, <3>4 DEF WrittenSet, Intact
    <3> QED BY Zenon, <3>3, <3>5 DEF Written
  <2>7. UsedIsActive'
    BY <1>0, <2>1, <2>2, <2>3 DEF UsedIsActive, Moved, Processes, keyFiles
  <2> QED BY Zenon, <1>0, <2>1, <2>2, <2>5, <2>6, <2>7, BackupFrame DEF Early, TypeOK
<1>4. CASE FinalizeComponent(b)
  <2> DEFINE n == proc[b].next
             r == [proc[b] EXCEPT !.pc = "write", !.next = n + 1]
  <2>1. proc[b].pc = "finalize" /\ UNCHANGED <<keyFiles, artifacts, manifests, damaged>>
        /\ statuses' = statuses \cup {<<b, n>>}
    BY Zenon, <1>4 DEF FinalizeComponent
  <2>2. n \in 1 .. Parts /\ Intact(b, n, proc[b].key)
    BY Zenon, <1>0, <2>1 DEF Written, WrittenSet
  <2>3. r \in Process /\ r.pc = "write" /\ r.key = proc[b].key /\ r.view = proc[b].view /\ r.next = n + 1
    <3>1. n + 1 \in 1 .. (Parts + 1)
      BY <1>0, <2>2
    <3> HIDE DEF n
    <3> QED BY Zenon, <1>0, <3>1 DEF Process, Pcs
  <2>4. proc' = [proc EXCEPT ![b] = r]
    BY Zenon, <1>4, <1>0 DEF FinalizeComponent, TypeOK
  <2>5. Moved(b) /\ proc'[b] = r
    BY Zenon, <1>0, <2>3, <2>4, Replaced
  <2>6. manifests[b] = None /\ <<b, n>> \in Places
    BY Zenon, <1>0, <2>1, <2>2 DEF UsedIsActive, Places
  <2> HIDE DEF n, r
  <2>7. Written'
    <3>1. \A x \in Backups : x # b => proc'[x] = proc[x]
      BY Zenon, <2>5 DEF Moved, Processes
    <3>2. \A x \in Backups : x # b => WrittenSet(x)'
      BY <1>0, <2>1, <3>1 DEF Written, WrittenSet, Intact
    <3>3. \A c \in 1 .. Parts : c < n => <<b, c>> \in statuses /\ Intact(b, c, proc[b].key)
      BY Zenon, <1>0, <2>1 DEF Written, WrittenSet, n
    <3>4. \A c \in 1 .. Parts : c < n + 1 => <<b, c>> \in statuses' /\ Intact(b, c, proc[b].key)
      BY <1>0, <2>1, <2>2, <3>3
    <3>5. WrittenSet(b)'
      BY Zenon, <2>1, <2>3, <2>5, <2>6, <3>4 DEF WrittenSet, Intact
    <3> QED BY Zenon, <3>2, <3>5 DEF Written
  <2>8. UsedIsActive'
    BY <1>0, <2>1, <2>3, <2>5, <2>6 DEF UsedIsActive, Moved, Processes, keyFiles
  <2> QED BY Zenon, <1>0, <2>1, <2>3, <2>5, <2>6, <2>7, <2>8, BackupFrame DEF Early, TypeOK
<1>5. CASE FinalizeBackupSet(b)
  <2>1. proc[b].pc = "write" /\ proc[b].next > Parts /\ UNCHANGED <<keyFiles, artifacts, statuses, damaged>>
        /\ manifests' = [manifests EXCEPT ![b] = proc[b].key] /\ Exits(b)
    BY Zenon, <1>5 DEF FinalizeBackupSet
  <2>2. Moved(b) /\ proc'[b].pc = "end" /\ proc'[b].view = NoView
    BY Zenon, <1>0, <2>1, ExitsStep
  <2>3. manifests[b] = None /\ proc[b].key \in Keys /\ meta[proc[b].key] = "active"
    BY Zenon, <1>0, <2>1 DEF UsedIsActive
  <2>4. manifests' \in [Backups -> Keys \cup {None}] /\ manifests'[b] = proc[b].key
        /\ \A x \in Backups : x # b => manifests'[x] = manifests[x]
    BY Zenon, <1>0, <2>1, <2>3 DEF TypeOK
  <2>5. Written'
    <3>1. \A x \in Backups : x # b => proc'[x] = proc[x]
      BY Zenon, <2>2 DEF Moved, Processes
    <3>2. \A x \in Backups : x # b => WrittenSet(x)'
      BY <1>0, <2>1, <2>4, <3>1 DEF Written, WrittenSet, Intact
    <3>3. \A c \in 1 .. Parts : <<b, c>> \in statuses /\ Intact(b, c, proc[b].key)
      BY <1>0, <2>1 DEF Written, WrittenSet, Process
    <3>4. WrittenSet(b)'
      BY Zenon, <2>1, <2>2, <2>4, <3>3 DEF WrittenSet, Intact
    <3> QED BY Zenon, <3>2, <3>4 DEF Written
  <2>6. \A k \in Keys : proc'[b].view[k] # "active"
    BY Zenon, <2>2 DEF NoView
  <2>7. UsedIsActive'
    BY <1>0, <2>1, <2>2, <2>3, <2>4, <2>6 DEF UsedIsActive, Moved, Processes, keyFiles
  <2>8. \A x \in ListBackupSets : manifests'[x] = manifests[x]
    BY Zenon, <2>3, <2>4 DEF ListBackupSets
  <2> QED BY Zenon, <1>0, <2>1, <2>2, <2>4, <2>5, <2>7, <2>8, BackupFrame DEF Early, TypeOK
<1> QED BY Zenon, <1>1, <1>2, <1>3, <1>4, <1>5

\* The steps of a verification write no file, and what it has seen is its own.
LEMMA VerifierFrame ==
    ASSUME ArchiveIInv, NEW v \in Verifiers, Moved(v), UNCHANGED <<keyFiles, repository>>,
           proc'[v].view = proc[v].view, proc'[v].pc \notin Early, SeenIsTrueOf(v)'
    PROVE  ArchiveIInv'
<1> USE DEF Processes
<1>0. v \notin Inits /\ v \notin Backups
  BY Zenon DEF ArchiveIInv, TypeOK, Distinct
<1>1. TypeOK'
  BY Zenon DEF ArchiveIInv, TypeOK, Moved, keyFiles, repository
<1>2. KeysKept'
  BY Zenon, <1>0, KeysFrame DEF ArchiveIInv, ArchiveInv
<1>3. UsedIsActive'
  <2>1. \A k \in Keys : proc'[v].view[k] = "active" => meta[k] = "active"
    BY Zenon DEF ArchiveIInv, ArchiveInv, UsedIsActive
  <2> QED BY Zenon, <1>0, <2>1, UsedFrame DEF ArchiveIInv, ArchiveInv, keyFiles, repository
<1>4. Written'
  BY Zenon, <1>0, WrittenFrame DEF ArchiveIInv, ArchiveInv
<1>5. SeenIsTrue'
  <2>1. \A x \in Verifiers : x # v => proc'[x] = proc[x]
    BY Zenon DEF Moved
  <2>2. \A x \in Verifiers : x # v => SeenIsTrueOf(x)'
    BY <2>1 DEF ArchiveIInv, ArchiveInv, SeenIsTrue, SeenIsTrueOf, Place, ListBackupSets, repository
  <2> QED BY Zenon, <2>2 DEF SeenIsTrue
<1>6. Unstarted'
  BY Zenon DEF ArchiveIInv, ArchiveInv, Unstarted, Moved
<1> QED BY Zenon, <1>1, <1>2, <1>3, <1>4, <1>5, <1>6 DEF ArchiveIInv, ArchiveInv

\* A component of a finalized set that is not as it was sealed was damaged.
LEMMA ChangedIsDamaged ==
    ASSUME ArchiveIInv, NEW v \in Verifiers, proc[v].pc \in Verifying, proc[v].next \in 1 .. Parts,
           Place(v) \notin damaged
    PROVE  Place(v) \in statuses /\ artifacts[Place(v)] = Digested(v) /\ Opens(v)
<1>1. proc[v].set \in Backups /\ manifests[proc[v].set] # None /\ proc[v].key = manifests[proc[v].set]
  BY Zenon DEF ArchiveIInv, ArchiveInv, SeenIsTrue, SeenIsTrueOf, ListBackupSets
<1>2. Place(v) \in statuses /\ artifacts[Place(v)] = Digested(v)
  <2>1. WrittenSet(proc[v].set)
    BY Zenon, <1>1 DEF ArchiveIInv, ArchiveInv, Written
  <2>2. Place(v) \in statuses /\ Intact(proc[v].set, proc[v].next, proc[v].key)
    BY Zenon, <1>1, <2>1 DEF WrittenSet, Place
  <2> QED BY Zenon, <2>2 DEF Intact, Place, Digested
<1>3. proc[v].key \in Keys /\ meta[proc[v].key] = "active" /\ proc[v].key \in material
  BY <1>1 DEF ArchiveIInv, ArchiveInv, TypeOK, UsedIsActive, KeysKept
<1>4. Resolves(v, proc[v].key)
  BY Zenon, <1>3 DEF Resolves
<1>5. None \notin Backups
  BY Zenon DEF ArchiveIInv, TypeOK, Distinct
<1>6. Decrypts(Digested(v), proc[v].set, proc[v].next, proc[v].key)
  BY Zenon, <1>1, <1>5 DEF Decrypts, Digested, Sealed, Garbage
<1> QED BY Zenon, <1>2, <1>4, <1>6 DEF Opens

LEMMA VerifierSteps ==
    ASSUME ArchiveIInv, NEW v \in Verifiers,
           \/ VerifyIntegrity(v) \/ ReadComponent(v) \/ Verified(v)
           \/ \E b \in Backups : ReadManifest(v, b)
    PROVE  ArchiveIInv'
<1> USE DEF Verifying
<1>0. TypeOK /\ v \in Processes /\ proc[v] \in Process /\ Parts \in Nat /\ SeenIsTrueOf(v)
  BY Zenon DEF ArchiveIInv, ArchiveInv, TypeOK, Processes, Distinct, SeenIsTrue
<1>1. ASSUME NEW pc \in Pcs, Goes(v, pc)
      PROVE  /\ Moved(v) /\ proc'[v].pc = pc /\ proc'[v].key = proc[v].key
             /\ proc'[v].view = proc[v].view /\ proc'[v].next = proc[v].next
             /\ proc'[v].set = proc[v].set /\ proc'[v].opened = proc[v].opened
  <2>1. Moved(v) /\ proc'[v] = [proc[v] EXCEPT !.pc = pc]
    BY Zenon, <1>0, <1>1, GoesStep
  <2> QED BY Zenon, <1>0, <2>1 DEF Process
<1>2. CASE VerifyIntegrity(v)
  <2> DEFINE pc == IF Place(v) \in statuses /\ artifacts[Place(v)] = Digested(v)
                   THEN "read" ELSE "refused"
  <2>1. proc[v].pc = "check" /\ proc[v].next \in 1 .. Parts /\ UNCHANGED <<keyFiles, repository>>
        /\ Goes(v, pc)
    BY <1>0, <1>2 DEF VerifyIntegrity, Process
  <2>2. pc \in {"read", "refused"} /\ (pc = "refused" => Place(v) \in damaged)
    BY Zenon, <2>1, ChangedIsDamaged
  <2> HIDE DEF pc
  <2>3. /\ Moved(v) /\ proc'[v].pc = pc /\ proc'[v].key = proc[v].key
        /\ proc'[v].view = proc[v].view /\ proc'[v].next = proc[v].next
        /\ proc'[v].set = proc[v].set /\ proc'[v].opened = proc[v].opened
    BY Zenon, <1>1, <2>1, <2>2 DEF Pcs
  <2>4. SeenIsTrueOf(v)'
    BY Zenon, <1>0, <2>1, <2>2, <2>3 DEF SeenIsTrueOf, Place, ListBackupSets, repository
  <2> QED BY Zenon, <2>1, <2>2, <2>3, <2>4, VerifierFrame DEF Early
<1>3. CASE Verified(v)
  <2>1. proc[v].pc = "check" /\ proc[v].next = Parts + 1 /\ UNCHANGED <<keyFiles, repository>>
        /\ Goes(v, "verified")
    BY <1>0, <1>3 DEF Verified, Process
  <2>3. /\ Moved(v) /\ proc'[v].pc = "verified" /\ proc'[v].key = proc[v].key
        /\ proc'[v].view = proc[v].view /\ proc'[v].next = proc[v].next
        /\ proc'[v].set = proc[v].set /\ proc'[v].opened = proc[v].opened
    BY Zenon, <1>1, <2>1 DEF Pcs
  <2>4. SeenIsTrueOf(v)'
    BY Zenon, <1>0, <2>1, <2>3 DEF SeenIsTrueOf, Place, ListBackupSets, repository
  <2> QED BY Zenon, <2>1, <2>3, <2>4, VerifierFrame DEF Early
<1>4. ASSUME NEW b \in Backups, ReadManifest(v, b) PROVE ArchiveIInv'
  <2> DEFINE r == [proc[v] EXCEPT !.pc = "check", !.set = b, !.key = manifests[b]]
  <2>1. proc[v].pc = "loaded" /\ b \in ListBackupSets /\ UNCHANGED <<keyFiles, repository>>
    BY Zenon, <1>4 DEF ReadManifest
  <2>2. r \in Process /\ r.pc = "check" /\ r.set = b /\ r.key = manifests[b]
        /\ r.view = proc[v].view /\ r.next = proc[v].next /\ r.opened = proc[v].opened
    <3>1. manifests[b] \in Keys \cup {None}
      BY Zenon, <1>0 DEF TypeOK
    <3> QED BY Zenon, <1>0, <3>1 DEF Process, Pcs
  <2>3. proc' = [proc EXCEPT ![v] = r]
    BY Zenon, <1>4, <1>0 DEF ReadManifest, TypeOK
  <2>4. Moved(v) /\ proc'[v] = r
    BY Zenon, <1>0, <2>2, <2>3, Replaced
  <2>5. proc[v].next = 1 /\ proc[v].opened = {}
    BY Zenon, <1>0, <2>1 DEF ArchiveIInv, ArchiveInv, Unstarted, Early
  <2> HIDE DEF r
  <2>6. SeenIsTrueOf(v)'
    <3>1. 1 .. (proc'[v].next - 1) = {}
      BY <2>2, <2>4, <2>5
    <3> QED BY Zenon, <2>1, <2>2, <2>4, <2>5, <3>1 DEF SeenIsTrueOf, ListBackupSets, repository
  <2> QED BY Zenon, <2>1, <2>2, <2>4, <2>6, VerifierFrame DEF Early
<1>5. CASE ReadComponent(v)
  <2> DEFINE n == proc[v].next
             e == artifacts[Place(v)]
             r == [proc[v] EXCEPT !.pc = "check", !.next = n + 1,
                                  !.held = proc[v].held \cup {proc[v].key},
                                  !.opened = proc[v].opened \cup {e}]
  <2>1. proc[v].pc = "read" /\ UNCHANGED <<keyFiles, repository>>
    BY Zenon, <1>5 DEF ReadComponent
  <2>2. n \in 1 .. Parts /\ proc[v].set \in ListBackupSets /\ proc[v].key = manifests[proc[v].set]
        /\ proc[v].opened = {Sealed(proc[v].set, c, proc[v].key) : c \in 1 .. (n - 1)}
    BY Zenon, <1>0, <2>1 DEF SeenIsTrueOf
  <2>3. proc[v].set \in Backups /\ proc[v].key \in Keys
    BY Zenon, <1>0, <2>2 DEF ListBackupSets, TypeOK
  <2>4. CASE Opens(v)
    <3>1. e = Sealed(proc[v].set, n, proc[v].key) /\ e \in Envelopes
      BY <2>2, <2>3, <2>4 DEF Opens, Digested, Sealed, Envelopes
    <3>2. n + 1 \in 1 .. (Parts + 1)
      BY <1>0, <2>2
    <3>3. proc' = [proc EXCEPT ![v] = r]
      BY Zenon, <1>0, <1>5, <2>4 DEF ReadComponent, TypeOK, Process
    <3> HIDE DEF n, e
    <3>4. r \in Process /\ r.pc = "check" /\ r.next = n + 1 /\ r.view = proc[v].view
          /\ r.set = proc[v].set /\ r.key = proc[v].key /\ r.opened = proc[v].opened \cup {e}
      BY Zenon, <1>0, <2>3, <3>1, <3>2 DEF Process, Pcs
    <3>5. Moved(v) /\ proc'[v] = r
      BY Zenon, <1>0, <3>3, <3>4, Replaced
    <3> HIDE DEF r
    <3>6. 1 .. ((n + 1) - 1) = (1 .. (n - 1)) \cup {n}
      BY <2>2
    <3>7. r.opened = {Sealed(proc[v].set, c, proc[v].key) : c \in 1 .. ((n + 1) - 1)}
      BY Zenon, <2>2, <3>1, <3>4, <3>6
    <3>8. SeenIsTrueOf(v)'
      BY Zenon, <2>1, <2>2, <3>4, <3>5, <3>7 DEF SeenIsTrueOf, ListBackupSets, repository
    <3> QED BY Zenon, <2>1, <3>4, <3>5, <3>8, VerifierFrame DEF Early
  <2>5. CASE ~Opens(v)
    <3>1. Goes(v, "refused")
      BY Zenon, <1>0, <1>5, <2>5 DEF ReadComponent, Goes, TypeOK
    <3>2. Place(v) \in damaged
      BY Zenon, <2>1, <2>2, <2>5, ChangedIsDamaged
    <3>3. /\ Moved(v) /\ proc'[v].pc = "refused" /\ proc'[v].key = proc[v].key
          /\ proc'[v].view = proc[v].view /\ proc'[v].next = proc[v].next
          /\ proc'[v].set = proc[v].set /\ proc'[v].opened = proc[v].opened
      BY Zenon, <1>1, <3>1 DEF Pcs
    <3>4. SeenIsTrueOf(v)'
      BY Zenon, <1>0, <2>1, <2>2, <3>2, <3>3 DEF SeenIsTrueOf, Place, ListBackupSets, repository
    <3> QED BY Zenon, <2>1, <3>3, <3>4, VerifierFrame DEF Early
  <2> QED BY Zenon, <2>4, <2>5
<1> QED BY Zenon, <1>2, <1>3, <1>4, <1>5

LEMMA DamageStep ==
    ASSUME ArchiveIInv, NEW p \in Places, NEW e \in Envelopes, Damage(p, e)
    PROVE  ArchiveIInv'
<1>1. artifacts' = [artifacts EXCEPT ![p] = e] /\ damaged' = damaged \cup {p}
      /\ UNCHANGED <<keyFiles, statuses, manifests, proc>>
  BY Zenon DEF Damage
<1>2. TypeOK'
  BY Zenon, <1>1 DEF ArchiveIInv, TypeOK, keyFiles
<1>3. KeysKept' /\ UsedIsActive' /\ Unstarted'
  BY Zenon, <1>1 DEF ArchiveIInv, ArchiveInv, keyFiles, KeysKept, UsedIsActive, Unstarted
<1>4. \A b \in Backups, c \in 1 .. Parts, k \in Keys \cup {None} : Intact(b, c, k) => Intact(b, c, k)'
  <2> SUFFICES ASSUME NEW b \in Backups, NEW c \in 1 .. Parts, NEW k \in Keys \cup {None},
                      Intact(b, c, k)
               PROVE  Intact(b, c, k)'
    BY Zenon
  <2>1. <<b, c>> \in Places
    BY Zenon DEF Places
  <2>2. CASE <<b, c>> = p
    BY Zenon, <1>1, <2>2 DEF Intact
  <2>3. CASE <<b, c>> # p
    BY Zenon, <1>1, <2>1, <2>3 DEF Intact, ArchiveIInv, TypeOK
  <2> QED BY Zenon, <2>2, <2>3
<1>5. Written'
  <2> SUFFICES ASSUME NEW b \in Backups PROVE WrittenSet(b)'
    BY Zenon DEF Written
  <2>1. WrittenSet(b) /\ proc[b].key \in Keys \cup {None} /\ manifests[b] \in Keys \cup {None}
    BY Zenon DEF ArchiveIInv, ArchiveInv, Written, TypeOK, Process, Processes
  <2> QED BY Zenon, <1>1, <1>4, <2>1 DEF WrittenSet
<1>6. SeenIsTrue'
  BY Zenon, <1>1 DEF ArchiveIInv, ArchiveInv, SeenIsTrue, SeenIsTrueOf, Place, ListBackupSets
<1> QED BY Zenon, <1>2, <1>3, <1>5, <1>6 DEF ArchiveIInv, ArchiveInv

LEMMA ArchiveInitially ==
    ASSUME Distinct, Init
    PROVE  ArchiveIInv
<1>1. Fresh \in Process /\ Fresh.pc = "idle" /\ Fresh.view = NoView /\ Fresh.next = 1 /\ Fresh.opened = {}
  BY DEF Fresh, Process, Pcs, NoView, States, Distinct
<1>2. \A p \in Processes : proc[p] = Fresh
  BY Zenon DEF Init
<1>3. TypeOK
  BY Zenon, <1>1 DEF Init, TypeOK, NoView, States
<1> HIDE DEF Fresh
<1>4. KeysKept
  BY Zenon, <1>1, <1>2 DEF Init, KeysKept, NoView, OwnsKey, Processes
<1>5. UsedIsActive
  <2>1. \A k \in Keys : NoView[k] # "active"
    BY Zenon DEF NoView
  <2> QED BY Zenon, <1>1, <1>2, <2>1 DEF Init, UsedIsActive, Processes
<1>6. Written
  BY Zenon, <1>1, <1>2 DEF Init, Written, WrittenSet, Processes
<1>7. SeenIsTrue
  BY Zenon, <1>1, <1>2 DEF SeenIsTrue, SeenIsTrueOf, Verifying, Processes
<1>8. Unstarted
  BY Zenon, <1>1, <1>2 DEF Unstarted
<1> QED BY Zenon, <1>3, <1>4, <1>5, <1>6, <1>7, <1>8 DEF ArchiveIInv, ArchiveInv

LEMMA ArchivePreserved ==
    ASSUME ArchiveIInv, [Next]_vars
    PROVE  ArchiveIInv'
<1>1. CASE UNCHANGED vars
  BY <1>1 DEF vars, keyFiles, repository, ArchiveIInv, ArchiveInv, TypeOK, KeysKept, UsedIsActive,
              Written, WrittenSet, Intact, SeenIsTrue, SeenIsTrueOf, Place, ListBackupSets, Unstarted
<1>2. CASE Next
  BY Zenon, <1>2, CommonSteps, KeyInitSteps, BackupSteps, VerifierSteps, DamageStep DEF Next
<1> QED BY Zenon, <1>1, <1>2

\* For any numbers of keys, commands, components and damages: what key-init has
\* written, what a backup has sealed and finalized, and what a verification has seen
\* stay related through every failure and death (key_provider.go, filesystem.go).
THEOREM ArchiveInvariance == Distinct => (Spec => []ArchiveIInv)
<1> SUFFICES ASSUME Distinct PROVE Spec => []ArchiveIInv
  BY Zenon
<1> QED BY ArchiveInitially, ArchivePreserved, PTL DEF Spec

\* recovery key-init never takes the key of a finalized set away: whatever commands
\* run, fail or die beside each other, it is on disk, and every component that storage
\* has left alone is the one sealed with it.
THEOREM BackupsStayReadable == Distinct => (Spec => []FinalizedIsReadable)
<1> SUFFICES ASSUME Distinct PROVE Spec => []FinalizedIsReadable
  BY Zenon
<1>1. ArchiveIInv => FinalizedIsReadable
  <2> SUFFICES ASSUME ArchiveIInv, NEW b \in Backups, manifests[b] # None
               PROVE  /\ manifests[b] \in material /\ meta[manifests[b]] # "none"
                      /\ \A c \in 1 .. Parts :
                            <<b, c>> \in damaged \/ ( /\ <<b, c>> \in statuses
                                  /\ artifacts[<<b, c>>] = Sealed(b, c, manifests[b]))
    BY Zenon DEF FinalizedIsReadable, ListBackupSets
  <2>1. manifests[b] \in Keys /\ meta[manifests[b]] = "active" /\ manifests[b] \in material
    BY Zenon DEF ArchiveIInv, ArchiveInv, TypeOK, UsedIsActive, KeysKept
  <2>2. WrittenSet(b)
    BY Zenon DEF ArchiveIInv, ArchiveInv, Written
  <2> QED BY Zenon, <2>1, <2>2 DEF WrittenSet, Intact
<1> QED BY <1>1, ArchiveInvariance, PTL

\* recovery verify and restore refuse a set only when storage has changed it.
THEOREM RefusalIsDamage == Distinct => (Spec => []RefusedIsDamaged)
<1> SUFFICES ASSUME Distinct PROVE Spec => []RefusedIsDamaged
  BY Zenon
<1>1. ArchiveIInv => RefusedIsDamaged
  BY Zenon DEF ArchiveIInv, ArchiveInv, SeenIsTrue, SeenIsTrueOf, RefusedIsDamaged, Verifying
<1> QED BY <1>1, ArchiveInvariance, PTL

\* What recovery verify accepts is what the backup command sealed, whatever storage
\* does between VerifyIntegrity and the read that follows it.
THEOREM AcceptedIsGenuine == Distinct => (Spec => []VerifiedIsGenuine)
<1> SUFFICES ASSUME Distinct PROVE Spec => []VerifiedIsGenuine
  BY Zenon
<1>1. ArchiveIInv => VerifiedIsGenuine
  <2> SUFFICES ASSUME ArchiveIInv, NEW v \in Verifiers, proc[v].pc = "verified"
               PROVE  proc[v].opened = {Sealed(proc[v].set, c, manifests[proc[v].set]) : c \in 1 .. Parts}
    BY Zenon DEF VerifiedIsGenuine
  <2>1. Parts \in Nat /\ SeenIsTrueOf(v)
    BY Zenon DEF ArchiveIInv, ArchiveInv, TypeOK, Distinct, SeenIsTrue
  <2>2. (Parts + 1) - 1 = Parts
    BY <2>1
  <2> QED BY Zenon, <2>1, <2>2 DEF SeenIsTrueOf, Verifying
<1> QED BY <1>1, ArchiveInvariance, PTL
===============================================================================
