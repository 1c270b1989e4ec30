-------------------------- MODULE VulnerabilityScan --------------------------
(***************************************************************************)
(* The vulnerability engine (inventory/vulnerability.go), the CVE feed that *)
(* writes cve_database (inventory/cve_sync.go) and the operator's decisions.*)
(* Every replica runs an engine with a CVE list of its own, loaded once at  *)
(* start; the rows of device_vulnerabilities are shared.  One device and    *)
(* one package; the agent's inventory changes its version, or drops it,     *)
(* between and during scans.  A version is a sequence of numbers with an    *)
(* optional pre-release, 0 standing for none.                               *)
(***************************************************************************)
EXTENDS Integers, Sequences, SequencesExt

CONSTANTS Engines,    \* orchestrator replicas
          Cves,
          Versions,   \* versions the package may have: [nums, pre]
          Seeds,      \* the CVE records the migrations insert
          Advisories, \* what the feed may say: [id, alias, fixes, alerts]
          MaxChanges, \* inventory changes considered
          None

VARIABLES database,  \* cve_database: what is known of each CVE
          known,     \* each engine's copy, loaded when it starts
          installed, \* the latest inventory of the device
          changes,
          rows,      \* device_vulnerabilities of the device
          alerts,    \* times alertFn was called for each CVE
          scan       \* each engine's progress through a scan

vars == <<database, known, installed, changes, rows, alerts, scan>>

Idle == [pc |-> "idle", version |-> None, todo |-> {}, found |-> None]

Init ==
  /\ database = [c \in Cves |-> IF c \in DOMAIN Seeds THEN Seeds[c] ELSE None]
  /\ known = [e \in Engines |-> database]
  /\ installed \in Versions /\ changes = 0
  /\ rows = [c \in Cves |-> None]
  /\ alerts = [c \in Cves |-> 0]
  /\ scan = [e \in Engines |-> Idle]

-----------------------------------------------------------------------------
(* compareVersions: the numbers are compared up to the longer of the two,   *)
(* a missing one being 0; a pre-release comes before its release.           *)

Longest(m, n) == IF m > n THEN m ELSE n
(* Faulty: the surplus parts of the longer version are not compared.        *)
Shortest(m, n) == IF m < n THEN m ELSE n
CompareLength(m, n) == Longest(m, n)

Number(v, i) == IF i <= Len(v.nums) THEN v.nums[i] ELSE 0

Sign(n) == IF n < 0 THEN -1 ELSE IF n > 0 THEN 1 ELSE 0

ComparePre(a, b) ==
  CASE a # 0 /\ b = 0 -> -1
    [] a = 0 /\ b # 0 -> 1
    [] OTHER -> Sign(a - b)

CompareVersions(a, b) ==
  LET differ == {i \in 1..CompareLength(Len(a.nums), Len(b.nums)) :
                   Number(a, i) # Number(b, i)}
  IN IF differ = {} THEN ComparePre(a.pre, b.pre)
     ELSE LET i == CHOOSE i \in differ : \A j \in differ : i <= j
          IN Sign(Number(a, i) - Number(b, i))

IsAffected(current, fixed) == CompareVersions(current, fixed) < 0

(* upsertCVE joins the fixed versions with ",": "1.1,2.3" splits at the dots*)
(* into 1, "1,2" and 3, and the middle part, no number, counts as 0 (the    *)
(* fixes joined here carry no pre-release).                                 *)
JoinFixes(a, b) ==
  [nums |-> Front(a.nums) \o <<0>> \o Tail(b.nums), pre |-> 0]

FixedIn(fixes) == FoldLeft(JoinFixes, Head(fixes), Tail(fixes))

-----------------------------------------------------------------------------
(* The feed: upsertCVE skips an advisory without a fix; it looks for a row  *)
(* under the advisory's own id and writes the row of its CVE alias.         *)
Exists(id) == id \in Cves /\ database[id] # None

UpsertCVE(a) ==
  LET id == IF a.alias # None THEN a.alias ELSE a.id IN
  /\ a.fixes # <<>>
  /\ Exists(a.id) => Exists(id)
  /\ database' = [database EXCEPT ![id] = [fixed |-> FixedIn(a.fixes), alerts |-> a.alerts]]
  /\ UNCHANGED <<known, installed, changes, rows, alerts, scan>>

(* One pass over the answer of the feed for the tracked packages: every     *)
(* advisory is upserted by itself, and one that fails is skipped.           *)
SyncOSV == \E a \in Advisories : UpsertCVE(a)

(* A replica starts: loadCVEDB, then the first scan.                        *)
StartEngine(e) ==
  /\ known' = [known EXCEPT ![e] = database]
  /\ scan' = [scan EXCEPT ![e] = Idle]
  /\ UNCHANGED <<database, installed, changes, rows, alerts>>

(* The agent reports another inventory.                                     *)
ReportInventory(v) ==
  /\ changes < MaxChanges /\ v # installed
  /\ installed' = v
  /\ changes' = changes + 1
  /\ UNCHANGED <<database, known, rows, alerts, scan>>

-----------------------------------------------------------------------------
(* runScan for the device: getDevicePackages, matchVulnerabilities over the *)
(* engine's own list, then remediateDevice over the open rows.              *)

Step(e, s) == scan' = [scan EXCEPT ![e] = s]

BeginScan(e) ==
  /\ scan[e].pc = "idle"
  /\ Step(e, [pc |-> "match", version |-> installed,
              todo |-> {c \in Cves : installed # None /\ known[e][c] # None},
              found |-> None])
  /\ UNCHANGED <<database, known, installed, changes, rows, alerts>>

IsOpen(c) == rows[c] # None /\ rows[c].status = "open"

(* The existence check of one CVE; the INSERT is a later statement.         *)
MatchOne(e, c) ==
  /\ scan[e].pc = "match" /\ scan[e].found = None /\ c \in scan[e].todo
  /\ Step(e, [scan[e] EXCEPT
                !.todo = @ \ {c},
                !.found = IF IsAffected(scan[e].version, known[e][c].fixed) /\ ~ IsOpen(c)
                          THEN c ELSE None])
  /\ UNCHANGED <<database, known, installed, changes, rows, alerts>>

Row(e, c) ==
  [status |-> "open", current |-> scan[e].version, fixed |-> known[e][c].fixed]

(* Faulty: the INSERT takes the place of a row that is there.               *)
InsertReopens(c) == TRUE

(* UNIQUE (device_id, cve_id) refuses a second row, open or not; only the   *)
(* INSERT that succeeds calls alertFn.                                      *)
InsertAccepted(c) == rows[c] = None

RecordVulnerability(e) ==
  LET c == scan[e].found IN
  /\ scan[e].pc = "match" /\ c # None
  /\ IF InsertAccepted(c)
     THEN /\ rows' = [rows EXCEPT ![c] = Row(e, c)]
          /\ alerts' = [alerts EXCEPT ![c] = @ + (IF known[e][c].alerts THEN 1 ELSE 0)]
     ELSE UNCHANGED <<rows, alerts>>
  /\ Step(e, [scan[e] EXCEPT !.found = None])
  /\ UNCHANGED <<database, known, installed, changes>>

BeginRemediation(e) ==
  /\ scan[e].pc = "match" /\ scan[e].todo = {} /\ scan[e].found = None
  /\ Step(e, [scan[e] EXCEPT
                !.pc = "remediate",
                !.todo = {<<c, rows[c]>> : c \in {c \in Cves : IsOpen(c)}}])
  /\ UNCHANGED <<database, known, installed, changes, rows, alerts>>

(* Faulty: any open row is marked patched.                                 *)
PatchesAny(c) == TRUE
PatchesOpen(c) == rows[c].status = "open"

(* One row read as open: the version the scan holds against the row's.      *)
RemediateOne(e, c, read) ==
  LET new == scan[e].version IN
  /\ scan[e].pc = "remediate" /\ <<c, read>> \in scan[e].todo
  /\ rows' = [rows EXCEPT
                ![c] = CASE new \in {None, read.current} -> @
                         [] ~ IsAffected(new, read.fixed) ->
                              IF PatchesOpen(c)
                              THEN [@ EXCEPT !.status = "patched", !.current = new]
                              ELSE @
                         [] OTHER -> [@ EXCEPT !.current = new]]
  /\ Step(e, [scan[e] EXCEPT !.todo = @ \ {<<c, read>>}])
  /\ UNCHANGED <<database, known, installed, changes, alerts>>

EndScan(e) ==
  /\ scan[e].pc = "remediate" /\ scan[e].todo = {}
  /\ Step(e, Idle)
  /\ UNCHANGED <<database, known, installed, changes, rows, alerts>>

-----------------------------------------------------------------------------
(* The operator: handleVulnResolve and handleVulnIgnore.                    *)
Decide(c, status) ==
  /\ IsOpen(c)
  /\ rows' = [rows EXCEPT ![c].status = status]
  /\ UNCHANGED <<database, known, installed, changes, alerts, scan>>

Resolve(c) == Decide(c, "patched")
Ignore(c) == Decide(c, "ignored")

Next ==
  \/ SyncOSV
  \/ \E v \in Versions \cup {None} : ReportInventory(v)
  \/ \E e \in Engines :
       \/ StartEngine(e) \/ BeginScan(e) \/ RecordVulnerability(e)
       \/ BeginRemediation(e) \/ EndScan(e)
       \/ \E c \in Cves : MatchOne(e, c)
       \/ \E pair \in scan[e].todo :
            scan[e].pc = "remediate" /\ RemediateOne(e, pair[1], pair[2])
  \/ \E c \in Cves : Resolve(c) \/ Ignore(c)

Spec == Init /\ [][Next]_vars

-----------------------------------------------------------------------------
TypeOK ==
  /\ DOMAIN database = Cves /\ \A e \in Engines : DOMAIN known[e] = Cves
  /\ installed \in Versions \cup {None} /\ changes \in 0..MaxChanges
  /\ \A c \in Cves : rows[c] # None => rows[c].current \in Versions
  /\ alerts \in [Cves -> Nat]

(* matchVulnerabilities: all replicas together announce a finding of the    *)
(* device once, although each checks for the row before it inserts it.      *)
FindingToldOnce == \A c \in Cves : alerts[c] <= 1

(* What a version is below, said without compareVersions: with both padded  *)
(* by zeros, the first number that differs is smaller, or none differs and  *)
(* only the left one is a pre-release, or an earlier one.                   *)
Below(a, b) ==
  LET n == Len(a.nums) + Len(b.nums)
      pa == [i \in 1..n |-> Number(a, i)]
      pb == [i \in 1..n |-> Number(b, i)]
  IN \/ \E i \in 1..n : pa[i] < pb[i] /\ \A j \in 1..(i - 1) : pa[j] = pb[j]
     \/ /\ pa = pb /\ a.pre # b.pre
        /\ b.pre = 0 \/ (a.pre # 0 /\ a.pre < b.pre)

(* runScan: whichever engine wrote a row last, and from whichever inventory,*)
(* an open row shows a version below its fixed_in.                          *)
OpenIsAffected ==
  \A c \in Cves : IsOpen(c) => Below(rows[c].current, rows[c].fixed)

(* A row an operator resolved or ignored keeps that decision, although the  *)
(* scan read it as open, and a scan closes no row with a version below its  *)
(* fixed_in.                                                                *)
WrongClosure ==
  \E c \in Cves : rows[c] # None /\ rows'[c].status # rows[c].status /\
    \/ ~ IsOpen(c)
    \/ rows'[c].current # rows[c].current /\ Below(rows'[c].current, rows[c].fixed)
==============================================================================
