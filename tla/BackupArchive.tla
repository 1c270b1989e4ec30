---------------------------- MODULE BackupArchive ----------------------------
(***************************************************************************)
(* The artifacts of backup sets and the keys they are encrypted with: the  *)
(* directory of the file key provider (pkg/recovery/key_provider.go), the  *)
(* filesystem repository (pkg/repository) and the commands that use both,  *)
(* each a process of its own: recovery key-init, backup and recovery       *)
(* verify (cmd/orchestrator/recovery.go).                                  *)
(*                                                                         *)
(* A file is written under a temporary name and renamed, so a write is one *)
(* step that happens or fails.  No lock spans the key directory, and a     *)
(* process may die between any two steps.  What a backup captures, and the *)
(* lock it holds, is in BackupSet.                                         *)
(***************************************************************************)
EXTENDS Naturals, FiniteSets

CONSTANTS Keys,       \* key ids that newKeyID may draw
          Inits,      \* recovery key-init commands
          Backups,    \* backup commands, and the ids of their sets
          Verifiers,  \* recovery verify commands
          Parts,      \* number of components of a set
          MaxDamage,  \* bound on damaged artifacts
          None

\* What the names stand for is distinct.
Distinct ==
    /\ Inits \cap Backups = {} /\ Inits \cap Verifiers = {} /\ Backups \cap Verifiers = {}
    /\ None \notin Keys \cup Backups
    /\ Parts \in Nat /\ MaxDamage \in Nat

VARIABLES
    material,   \* keys with a .key file
    meta,       \* the .meta.json file of each key: "none", "inactive", "active"
    drawn,      \* key ids drawn so far
    artifacts,  \* the file of each component: None or an envelope
    statuses,   \* components with a .status.json file
    manifests,  \* the key each set's manifest names, None without a manifest
    damaged,    \* places where storage has changed an artifact
    proc        \* the processes

keyFiles == <<material, meta, drawn>>
repository == <<artifacts, statuses, manifests, damaged>>
vars == <<keyFiles, repository, proc>>

Processes == Inits \cup Backups \cup Verifiers
Places == Backups \X (1 .. Parts)

\* Encrypt: an envelope opens with the key that sealed it, for the set, the
\* component and the key that its associated data name.
Sealed(b, c, k) == [set |-> b, part |-> c, key |-> k]

\* What does not decode as an envelope.
Garbage == [set |-> None, part |-> 0, key |-> None]
Envelopes == [set : Backups, part : 1 .. Parts, key : Keys] \cup {Garbage}

\* A process: its step, the key files still to load, the keys it knows and those
\* whose material it holds in memory, the key and the set it works with, its next
\* component and the envelopes it has opened.
NoView == [k \in Keys |-> "none"]
Fresh == [pc |-> "idle", list |-> {}, view |-> NoView, held |-> {},
          key |-> None, set |-> None, next |-> 1, opened |-> {}]

Init ==
    /\ material = {} /\ meta = NoView /\ drawn = {}
    /\ artifacts = [p \in Places |-> None] /\ statuses = {}
    /\ manifests = [b \in Backups |-> None] /\ damaged = {}
    /\ proc = [p \in Processes |-> Fresh]

Goes(p, pc) == proc' = [proc EXCEPT ![p].pc = pc]

\* The process exits, and what it had in memory is gone.
Exits(p) == proc' = [proc EXCEPT ![p] = [Fresh EXCEPT !.pc = "end"]]

-----------------------------------------------------------------------------
\* The key provider.

\* NewFileKeyProvider lists the directory, ...
ListKeys(p) ==
    /\ proc[p].pc = "idle"
    /\ proc' = [proc EXCEPT ![p].pc = "load", ![p].list = {k \in Keys : meta[k] # "none"}]
    /\ UNCHANGED <<keyFiles, repository>>

\* ... and loadKeys reads one file after the other; a file that is gone is skipped.
LoadKey(p, k) ==
    /\ proc[p].pc = "load" /\ k \in proc[p].list
    /\ proc' = [proc EXCEPT ![p].view[k] = meta[k], ![p].list = @ \ {k}]
    /\ UNCHANGED <<keyFiles, repository>>

Loaded(p) ==
    /\ proc[p].pc = "load" /\ proc[p].list = {}
    /\ Goes(p, "loaded")
    /\ UNCHANGED <<keyFiles, repository>>

\* ResolveKey: the key it knows, or one that another process has added, with its
\* material in memory or from disk.
Resolves(p, k) ==
    \/ k \in proc[p].held
    \/ (proc[p].view[k] # "none" \/ meta[k] # "none") /\ k \in material

\* The keys CurrentKey may return; the order of a Go map decides.
CurrentKeys(p) == {k \in Keys : proc[p].view[k] = "active" /\ Resolves(p, k)}

-----------------------------------------------------------------------------
\* recovery key-init.  Its only call of RotateKey finds no active key in memory,
\* so there is none to deactivate.

InitDecides(i) ==
    /\ proc[i].pc = "loaded"
    /\ IF CurrentKeys(i) = {} THEN Goes(i, "material") ELSE Exits(i)
    /\ UNCHANGED <<keyFiles, repository>>

\* Faulty: the id of a key is that of its alias, the same for every command.
DrawnByAlias(k) == k = CHOOSE x \in Keys : TRUE

\* newKeyID: 16 random bytes.
NewKeyID(k) == k \notin drawn

WriteMaterial(i, k) ==
    /\ proc[i].pc = "material" /\ NewKeyID(k)
    /\ drawn' = drawn \cup {k}
    /\ \/ material' = material \cup {k} /\ proc' = [proc EXCEPT ![i].key = k, ![i].pc = "meta"]
       \/ Exits(i) /\ UNCHANGED material
    /\ UNCHANGED <<meta, repository>>

\* persistKeyMeta: a temporary file that takes the place of the old one.
SetMeta(k, state) == meta' = [meta EXCEPT ![k] = state]

\* Faulty: the key is active before RotateKey can be sure of it.
WriteMetaActive(i) ==
    /\ proc[i].pc = "meta"
    /\ \/ SetMeta(proc[i].key, "active") /\ Goes(i, "activate")
       \/ Goes(i, "unmaterial") /\ UNCHANGED meta
    /\ UNCHANGED <<material, drawn, repository>>

WriteMeta(i) ==
    /\ proc[i].pc = "meta"
    /\ \/ SetMeta(proc[i].key, "inactive") /\ Goes(i, "activate")
       \/ Goes(i, "unmaterial") /\ UNCHANGED meta
    /\ UNCHANGED <<material, drawn, repository>>

Activate(i) ==
    /\ proc[i].pc = "activate"
    /\ \/ SetMeta(proc[i].key, "active") /\ Exits(i)
       \/ Goes(i, "unmeta") /\ UNCHANGED meta
    /\ UNCHANGED <<material, drawn, repository>>

\* removeKeyFiles, which ignores errors.
RemoveMeta(i) ==
    /\ proc[i].pc = "unmeta"
    /\ SetMeta(proc[i].key, "none") \/ UNCHANGED meta
    /\ Goes(i, "unmaterial")
    /\ UNCHANGED <<material, drawn, repository>>

RemoveMaterial(i) ==
    /\ proc[i].pc = "unmaterial"
    /\ material' \in {material, material \ {proc[i].key}}
    /\ Exits(i)
    /\ UNCHANGED <<meta, drawn, repository>>

-----------------------------------------------------------------------------
\* backup

\* buildRecoveryRuntime resolves an active key and opens everything else the
\* command works with; without a key, as with any other part missing, it ends.
BuildRuntime(b, k) ==
    /\ proc[b].pc = "loaded" /\ k \in CurrentKeys(b)
    /\ proc' = [proc EXCEPT ![b].pc = "built", ![b].held = {k}]
    /\ UNCHANGED <<keyFiles, repository>>

\* Engine.Backup asks for the current key again and creates the set.
TakeKey(b, k) ==
    /\ proc[b].pc = "built" /\ k \in CurrentKeys(b)
    /\ proc' = [proc EXCEPT ![b].pc = "write", ![b].key = k, ![b].held = @ \cup {k},
                             ![b].set = b]
    /\ UNCHANGED <<keyFiles, repository>>

\* backupComponent encrypts the component and writes it, ...
WriteComponent(b) ==
    LET here == <<b, proc[b].next>> IN
    /\ proc[b].pc = "write" /\ proc[b].next <= Parts
    /\ artifacts' = [artifacts EXCEPT ![here] = Sealed(b, proc[b].next, proc[b].key)]
    /\ Goes(b, "finalize")
    /\ UNCHANGED <<keyFiles, statuses, manifests, damaged>>

\* ... and then its status.
FinalizeComponent(b) ==
    /\ proc[b].pc = "finalize"
    /\ statuses' = statuses \cup {<<b, proc[b].next>>}
    /\ proc' = [proc EXCEPT ![b].pc = "write", ![b].next = @ + 1]
    /\ UNCHANGED <<keyFiles, artifacts, manifests, damaged>>

\* FinalizeBackupSet: the manifest, with the digest of every component as it was
\* written, makes the set readable.
FinalizeBackupSet(b) ==
    /\ proc[b].pc = "write" /\ proc[b].next > Parts
    /\ manifests' = [manifests EXCEPT ![b] = proc[b].key]
    /\ Exits(b)
    /\ UNCHANGED <<keyFiles, artifacts, statuses, damaged>>

-----------------------------------------------------------------------------
\* recovery verify, and the verification with which recovery restore begins.

\* The sets that recovery list shows: those with a manifest.
ListBackupSets == {b \in Backups : manifests[b] # None}

\* ReadManifest fails for any other.
ReadManifest(v, b) ==
    /\ proc[v].pc = "loaded" /\ b \in ListBackupSets
    /\ proc' = [proc EXCEPT ![v].pc = "check", ![v].set = b, ![v].key = manifests[b]]
    /\ UNCHANGED <<keyFiles, repository>>

\* What the manifest's digest is the digest of.
Digested(v) == Sealed(proc[v].set, proc[v].next, proc[v].key)

Place(v) == <<proc[v].set, proc[v].next>>

\* VerifyIntegrity reads the status and the artifact's digest.
VerifyIntegrity(v) ==
    /\ proc[v].pc = "check" /\ proc[v].next <= Parts
    /\ Goes(v, IF Place(v) \in statuses /\ artifacts[Place(v)] = Digested(v)
               THEN "read" ELSE "refused")
    /\ UNCHANGED <<keyFiles, repository>>

\* Faulty: what was read is trusted as VerifyIntegrity found it.
OpensUnread(v) == Resolves(v, proc[v].key)

\* Decrypt accepts envelope e with key k and the associated data of component c of
\* set b under k.
Decrypts(e, b, c, k) == e # Garbage /\ e.key = k /\ e.set = b /\ e.part = c

\* The bytes that were read have the digest of the manifest, its key resolves, and
\* they decrypt.
Opens(v) ==
    /\ artifacts[Place(v)] = Digested(v)
    /\ Resolves(v, proc[v].key)
    /\ Decrypts(artifacts[Place(v)], proc[v].set, proc[v].next, proc[v].key)

\* readComponent opens the artifact again.
ReadComponent(v) ==
    /\ proc[v].pc = "read"
    /\ IF Opens(v)
       THEN proc' = [proc EXCEPT ![v].pc = "check", ![v].next = @ + 1,
                                  ![v].held = @ \cup {proc[v].key},
                                  ![v].opened = @ \cup {artifacts[Place(v)]}]
       ELSE Goes(v, "refused")
    /\ UNCHANGED <<keyFiles, repository>>

Verified(v) ==
    /\ proc[v].pc = "check" /\ proc[v].next > Parts
    /\ Goes(v, "verified")
    /\ UNCHANGED <<keyFiles, repository>>

-----------------------------------------------------------------------------

\* Storage loses an artifact's bytes or puts another's in their place.
Damage(p, e) ==
    /\ Cardinality(damaged) < MaxDamage
    /\ artifacts[p] \notin {None, e}
    /\ artifacts' = [artifacts EXCEPT ![p] = e]
    /\ damaged' = damaged \cup {p}
    /\ UNCHANGED <<keyFiles, statuses, manifests, proc>>

\* A command dies, or meets an error that it returns.
Ends(p) ==
    /\ proc[p].pc \notin {"idle", "end", "verified", "refused"}
    /\ Exits(p)
    /\ UNCHANGED <<keyFiles, repository>>

Next ==
    \/ \E p \in Processes : ListKeys(p) \/ Loaded(p) \/ Ends(p) \/ \E k \in Keys : LoadKey(p, k)
    \/ \E i \in Inits : \/ InitDecides(i) \/ WriteMeta(i) \/ Activate(i)
                        \/ RemoveMeta(i) \/ RemoveMaterial(i)
                        \/ \E k \in Keys : WriteMaterial(i, k)
    \/ \E b \in Backups : \/ WriteComponent(b) \/ FinalizeComponent(b) \/ FinalizeBackupSet(b)
                          \/ \E k \in Keys : BuildRuntime(b, k) \/ TakeKey(b, k)
    \/ \E v \in Verifiers : \/ VerifyIntegrity(v) \/ ReadComponent(v) \/ Verified(v)
                            \/ \E b \in Backups : ReadManifest(v, b)
    \/ \E p \in Places, e \in Envelopes : Damage(p, e)

Spec == Init /\ [][Next]_vars

-----------------------------------------------------------------------------

Pcs == {"idle", "load", "loaded", "material", "meta", "activate", "unmeta", "unmaterial",
        "built", "write", "finalize", "check", "read", "verified", "refused", "end"}
States == {"none", "inactive", "active"}

Process == [pc : Pcs, list : SUBSET Keys, view : [Keys -> States], held : SUBSET Keys,
            key : Keys \cup {None}, set : Backups \cup {None}, next : 1 .. (Parts + 1),
            opened : SUBSET Envelopes]

TypeOK ==
    /\ Distinct
    /\ material \subseteq Keys /\ drawn \subseteq Keys
    /\ meta \in [Keys -> States]
    /\ artifacts \in [Places -> Envelopes \cup {None}]
    /\ statuses \subseteq Places /\ damaged \subseteq Places
    /\ manifests \in [Backups -> Keys \cup {None}]
    /\ proc \in [Processes -> Process]

\* "The previous key remains available via ResolveKey for restoration": whatever
\* key-init commands run, fail or die beside it, the key of a finalized set is on
\* disk, and every component that storage has left alone opens with it.
FinalizedIsReadable ==
    \A b \in ListBackupSets :
        /\ manifests[b] \in material /\ meta[manifests[b]] # "none"
        /\ \A c \in 1 .. Parts :
              <<b, c>> \in damaged \/ ( /\ <<b, c>> \in statuses
                                       /\ artifacts[<<b, c>>] = Sealed(b, c, manifests[b]))

\* A verification that is refused has met damage, never a key or a file that the
\* commands themselves have lost.
RefusedIsDamaged ==
    \A v \in Verifiers : proc[v].pc = "refused" => Place(v) \in damaged

\* A verification that passes has opened every component just as the backup command
\* of that set has sealed it, though storage may change between its two reads.
VerifiedIsGenuine ==
    \A v \in Verifiers : proc[v].pc = "verified" =>
        proc[v].opened = {Sealed(proc[v].set, c, manifests[proc[v].set]) : c \in 1 .. Parts}
=============================================================================
