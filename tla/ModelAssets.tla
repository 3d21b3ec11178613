----------------------------- MODULE ModelAssets -----------------------------
(***************************************************************************)
(* The commands that work on a network volume without any lock: "prebuilt  *)
(* reconcile", which fetches the model assets of a manifest one by one,    *)
(* and the part of "prebuilt check" that looks for them and publishes the  *)
(* health report.  Every command runs its remote scripts on a pod of its   *)
(* own or, with reconcile --pod-id, on one that outlives it; a script      *)
(* whose client timed out or died goes on until its pod is terminated.     *)
(***************************************************************************)
EXTENDS Naturals, Sequences, Functions

CONSTANTS
  Commands,   \* invocations; each is a reconcile or a check
  Manifests,  \* the asset manifests they may be given: sequences of entries
  None,       \* what an entry does not say, and no command
  Torn,       \* a report that two checks wrote into
  MaxCuts     \* bound: timeouts and deaths of clients

ASSUME AssetsAssumption ==
  /\ {None, Torn} \cap Commands = {} /\ None # Torn /\ MaxCuts \in Nat
  /\ \A m \in Manifests : m \in Seq([name : STRING \union {None},
                                      path : STRING \union {None},
                                      url : STRING \union {None}])

VARIABLES
  at,        \* where each command is
  manifest,  \* the entries it was given
  next,      \* the entry it turns to next
  faults,    \* the entries it found missing, or failed to fetch
  blind,     \* checks one of whose tests got no answer (history)
  covered,   \* the entries reconciled with exit 0 when a check began (history)
  jobs,      \* the remote scripts that run
  file,      \* what is at each asset's path
  writer,    \* the transfer that last began to write there (history)
  staging,   \* the report at health.json.staging
  health,    \* the report at health.json
  writing,   \* the file each check's script has open
  latest,    \* the last check to start publishing (history)
  shared,    \* two checks have been publishing at once (history)
  cuts       \* timeouts and deaths so far

clientVars == <<at, manifest, next, faults, blind, covered>>
reportVars == <<staging, health, writing, latest, shared>>
assetVars == <<clientVars, reportVars, jobs, file, writer, cuts>>

Entries == UNION {Range(m) : m \in Manifests}
Paths == {e.path : e \in Entries} \ {None}

Fetching == {"test", "curl", "transfer"}
Publishing == {"open", "fill", "move"}
Job(c, e, stage) == [of |-> c, entry |-> e, stage |-> stage]
NoEntry == [name |-> None, path |-> None, url |-> None]

(* Who writes to a file, and for which entry; at first nobody.             *)
Transfers == [of : Commands \union {None}, entry : Entries \union {NoEntry}, stage : Fetching]

(* A file that holds a report: which file it is, by the check that created *)
(* it, and whose report is in it.                                          *)
NoReport == [file |-> None, text |-> None]
Reports == [file : Commands \union {None}, text : Commands \union {None, Torn}]

AssetsTypeOK ==
  /\ at \in [Commands -> {"start", "fetch", "fetching", "probe", "publishing",
                          "ok", "failed", "blocked", "died", "healthy", "issues"}]
  /\ manifest \in [Commands -> Manifests \union {<<>>}]
  /\ next \in [Commands -> Nat]
  /\ faults \in [Commands -> SUBSET (Entries \union {NoEntry})]
  /\ covered \in [Commands -> SUBSET Entries]
  /\ blind \subseteq Commands
  /\ jobs \subseteq [of : Commands, entry : Entries \union {NoEntry},
                     stage : Fetching \union Publishing]
  /\ file \in [Paths -> {"absent", "partial", "whole", "mixed"}]
  /\ writer \in [Paths -> Transfers]
  /\ staging \in Reports /\ health \in Reports
  /\ writing \in [Commands -> Commands \union {None}]
  /\ latest \in Commands \union {None} /\ shared \in BOOLEAN /\ cuts \in 0..MaxCuts

AssetsInit ==
  /\ at = [c \in Commands |-> "start"] /\ manifest = [c \in Commands |-> <<>>]
  /\ next = [c \in Commands |-> 1]
  /\ faults = [c \in Commands |-> {}] /\ covered = [c \in Commands |-> {}] /\ blind = {}
  /\ jobs = {} /\ file = [p \in Paths |-> "absent"]
  /\ writer = [p \in Paths |-> Job(None, NoEntry, "curl")]
  /\ staging = NoReport /\ health = NoReport /\ writing = [c \in Commands |-> None]
  /\ latest = None /\ shared = FALSE /\ cuts = 0

-----------------------------------------------------------------------------
(* Fault: entries are told apart by their names.                           *)
FetchPlanByName(entries) ==
  {i \in DOMAIN entries :
     entries[i].name # None /\ \A j \in 1..(i - 1) : entries[j].name # entries[i].name}

(* _asset_fetch_plan: the places of the entries that have a name and whose *)
(* name, path and url have not come before.                                *)
FetchPlan(entries) ==
  {i \in DOMAIN entries :
     entries[i].name # None /\ \A j \in 1..(i - 1) : entries[j] # entries[i]}

(* A reconcile reads its manifest; an empty plan ends it with exit 2.      *)
Reconcile(c) ==
  /\ at[c] = "start"
  /\ \E m \in Manifests :
       /\ manifest' = [manifest EXCEPT ![c] = m]
       /\ at' = [at EXCEPT ![c] = IF FetchPlan(m) = {} THEN "blocked" ELSE "fetch"]
  /\ UNCHANGED <<next, faults, blind, covered, reportVars, jobs, file, writer, cuts>>

(* The client turns from entry number next to the one after it.            *)
GoOn(c, missed, place) ==
  /\ next' = [next EXCEPT ![c] = @ + 1]
  /\ faults' = [faults EXCEPT ![c] = @ \union missed]
  /\ at' = [at EXCEPT ![c] = place]

(* The entry it has turned to, which need not be one of its plan.          *)
Current(c) == manifest[c][next[c]]
Planned(c) == next[c] \in FetchPlan(manifest[c])

(* What the plan leaves out is passed over; an entry of the plan without   *)
(* path or url is not guessed at.                                          *)
SkipEntry(c) ==
  /\ at[c] = "fetch" /\ next[c] <= Len(manifest[c])
  /\ Planned(c) => None \in {Current(c).path, Current(c).url}
  /\ GoOn(c, IF Planned(c) THEN {Current(c)} ELSE {}, "fetch")
  /\ UNCHANGED <<manifest, blind, covered, reportVars, jobs, file, writer, cuts>>

SendFetch(c) ==
  /\ at[c] = "fetch" /\ Planned(c) /\ None \notin {Current(c).path, Current(c).url}
  /\ at' = [at EXCEPT ![c] = "fetching"]
  /\ jobs' = jobs \union {Job(c, Current(c), "test")}
  /\ UNCHANGED <<manifest, next, faults, blind, covered, reportVars, file, writer, cuts>>

(* A script ends; its client, if it still waits for it, takes the result.  *)
EndsFetch(j, ok) ==
  /\ jobs' = jobs \ {j}
  /\ IF at[j.of] = "fetching" /\ Current(j.of) = j.entry
     THEN GoOn(j.of, IF ok THEN {} ELSE {j.entry}, "fetch")
     ELSE UNCHANGED <<at, next, faults>>
  /\ UNCHANGED <<manifest, blind, covered, reportVars, cuts>>

Becomes(j, stage) ==
  /\ jobs' = (jobs \ {j}) \union {[j EXCEPT !.stage = stage]}
  /\ UNCHANGED <<clientVars, cuts>>

(* if [ -f path ]: a file of any length is "present".                      *)
Present(j) ==
  /\ j.stage = "test" /\ file[j.entry.path] # "absent"
  /\ EndsFetch(j, TRUE) /\ UNCHANGED <<file, writer>>

NotPresent(j) ==
  /\ j.stage = "test" /\ file[j.entry.path] = "absent"
  /\ Becomes(j, "curl") /\ UNCHANGED <<reportVars, file, writer>>

Transferring(p) == \E j \in jobs : j.stage = "transfer" /\ j.entry.path = p

(* The first data arrive.  curl appends behind what it found when it       *)
(* started (--continue-at -), so two at a time garble the file.            *)
Transfer(j) ==
  /\ j.stage = "curl" /\ file[j.entry.path] # "whole"
  /\ file' = [file EXCEPT ![j.entry.path] =
                IF Transferring(j.entry.path) THEN "mixed"
                ELSE IF @ = "absent" THEN "partial" ELSE @]
  /\ writer' = [writer EXCEPT ![j.entry.path] = j]
  /\ Becomes(j, "transfer") /\ UNCHANGED reportVars

Fetched(j) ==
  /\ j.stage = "transfer"
  /\ file' = [file EXCEPT ![j.entry.path] = IF @ = "partial" THEN "whole" ELSE @]
  /\ EndsFetch(j, TRUE) /\ UNCHANGED writer

(* Fault: the script goes on to "echo fetched" after a failed curl.        *)
CurlFailsUnseen(j) ==
  /\ j.stage \in {"curl", "transfer"}
  /\ EndsFetch(j, TRUE) /\ UNCHANGED <<file, writer>>

(* curl fails, and set -e ends the script.  What has arrived stays.        *)
CurlFails(j) ==
  /\ j.stage \in {"curl", "transfer"}
  /\ EndsFetch(j, FALSE) /\ UNCHANGED <<file, writer>>

(* A file completed since the test: nothing is left to resume.             *)
NothingToResume(j) ==
  /\ j.stage = "curl" /\ file[j.entry.path] = "whole"
  /\ EndsFetch(j, TRUE) /\ UNCHANGED <<file, writer>>

(* After 7200 s execute_command returns -1, which is a failure like        *)
(* another; the transfer goes on.                                          *)
FetchTimesOut(c) ==
  /\ at[c] = "fetching" /\ cuts < MaxCuts /\ cuts' = cuts + 1
  /\ GoOn(c, {Current(c)}, "fetch")
  /\ UNCHANGED <<manifest, blind, covered, reportVars, jobs, file, writer>>

FetchesEnd(c) ==
  /\ at[c] = "fetch" /\ next[c] > Len(manifest[c])
  /\ at' = [at EXCEPT ![c] = IF faults[c] = {} THEN "ok" ELSE "failed"]
  /\ UNCHANGED <<manifest, next, faults, blind, covered, reportVars, jobs, file, writer, cuts>>

-----------------------------------------------------------------------------
(* The entries some reconcile has reported fetched or present.             *)
Reconciled == UNION {Range(manifest[c]) : c \in {d \in Commands : at[d] = "ok"}}

(* A check, past its extraction and its other probes (PrebuiltVolume): it  *)
(* turns to the assets, or, without a manifest or a runtime, to its report.*)
Check(c) ==
  /\ at[c] = "start" /\ at' = [at EXCEPT ![c] = "probe"]
  /\ \/ /\ \E m \in Manifests : manifest' = [manifest EXCEPT ![c] = m]
        /\ covered' = [covered EXCEPT ![c] = Reconciled]
        /\ UNCHANGED faults
     \/ faults' = [faults EXCEPT ![c] = {NoEntry}] /\ UNCHANGED <<manifest, covered>>
  /\ UNCHANGED <<next, blind, reportVars, jobs, file, writer, cuts>>

(* _probe_selected_assets: a path that is not given, or at which test -f   *)
(* finds nothing, is an issue; so is a test that is not answered.          *)
Probe(c) ==
  /\ at[c] = "probe" /\ next[c] <= Len(manifest[c])
  /\ LET e == manifest[c][next[c]] IN
     \/ /\ GoOn(c, IF e.path = None \/ file[e.path] = "absent" THEN {e} ELSE {}, "probe")
        /\ UNCHANGED <<blind, cuts>>
     \/ /\ e.path # None /\ cuts < MaxCuts /\ cuts' = cuts + 1
        /\ GoOn(c, {e}, "probe") /\ blind' = blind \union {c}
  /\ UNCHANGED <<manifest, covered, reportVars, jobs, file, writer>>

(* write_health_report sends its script.                                   *)
SendReport(c) ==
  /\ at[c] = "probe" /\ next[c] > Len(manifest[c])
  /\ at' = [at EXCEPT ![c] = "publishing"]
  /\ jobs' = jobs \union {Job(c, NoEntry, "open")}
  /\ shared' = (shared \/ \E j \in jobs : j.stage \in Publishing)
  /\ latest' = c
  /\ UNCHANGED <<manifest, next, faults, blind, covered, staging, health, writing, file, writer,
                 cuts>>

(* cat > staging truncates the file another check may be writing.          *)
OpenReport(j) ==
  /\ j.stage = "open"
  /\ staging' = [file |-> IF staging = NoReport THEN j.of ELSE staging.file, text |-> None]
  /\ writing' = [writing EXCEPT ![j.of] = staging'.file]
  /\ Becomes(j, "fill") /\ UNCHANGED <<health, latest, shared, file, writer>>

(* The report goes into the file that was opened, wherever it is by now,   *)
(* over what another check has written there.                              *)
FillReport(j) ==
  /\ j.stage = "fill"
  /\ LET Filled(report) ==
           IF report.file = writing[j.of]
           THEN [report EXCEPT !.text = IF @ = None THEN j.of ELSE Torn] ELSE report IN
     staging' = Filled(staging) /\ health' = Filled(health)
  /\ Becomes(j, "move") /\ UNCHANGED <<writing, latest, shared, file, writer>>

(* The script ends: exit 0 for a healthy report, 1 for one with issues; an *)
(* error raises.                                                           *)
EndsReport(j, ok) ==
  /\ jobs' = jobs \ {j}
  /\ at' = IF at[j.of] = "publishing"
           THEN [at EXCEPT ![j.of] = IF ~ok THEN "failed"
                                     ELSE IF faults[j.of] = {} THEN "healthy" ELSE "issues"]
           ELSE at
  /\ UNCHANGED <<manifest, next, faults, blind, covered, writing, latest, shared, file, writer,
                 cuts>>

(* Fault: mv leaves an existing report in place.                           *)
MoveReportUnlessThere(j) ==
  /\ j.stage = "move" /\ staging # NoReport
  /\ health' = IF health = NoReport THEN staging ELSE health
  /\ staging' = NoReport
  /\ EndsReport(j, TRUE)

MoveReport(j) ==
  /\ j.stage = "move" /\ staging # NoReport
  /\ health' = staging /\ staging' = NoReport
  /\ EndsReport(j, TRUE)

(* No space, or another check has moved the staging file away.             *)
ReportFails(j) ==
  /\ j.stage \in Publishing
  /\ EndsReport(j, FALSE) /\ UNCHANGED <<staging, health>>

-----------------------------------------------------------------------------
(* The client is interrupted or raises, or gives up on its report after    *)
(* 120 s.  Its scripts go on.                                              *)
Die(c) ==
  /\ at[c] \in {"fetch", "fetching", "probe", "publishing"}
  /\ cuts < MaxCuts /\ cuts' = cuts + 1
  /\ at' = [at EXCEPT ![c] = "died"]
  /\ UNCHANGED <<manifest, next, faults, blind, covered, reportVars, jobs, file, writer>>

(* The pod of a command that has ended is terminated, its scripts with it; *)
(* never that of a reconcile --pod-id.                                     *)
PodGone(c) ==
  /\ at[c] \in {"ok", "failed", "died", "healthy", "issues"} /\ \E j \in jobs : j.of = c
  /\ jobs' = {j \in jobs : j.of # c}
  /\ UNCHANGED <<clientVars, reportVars, file, writer, cuts>>

Client(c) ==
  \/ Reconcile(c) \/ SkipEntry(c) \/ SendFetch(c) \/ FetchTimesOut(c) \/ FetchesEnd(c)
  \/ Check(c) \/ Probe(c) \/ SendReport(c) \/ Die(c) \/ PodGone(c)
Script(j) ==
  \/ Present(j) \/ NotPresent(j) \/ Transfer(j) \/ Fetched(j) \/ CurlFails(j)
  \/ NothingToResume(j) \/ OpenReport(j) \/ FillReport(j) \/ MoveReport(j) \/ ReportFails(j)

AssetsNext == (\E c \in Commands : Client(c)) \/ \E j \in jobs : Script(j)

AssetsSpec == AssetsInit /\ [][AssetsNext]_assetVars

-----------------------------------------------------------------------------
(* A check never misses an asset that a reconcile which exited 0 before it *)
(* began was given by name: from the manifest through the fetch plan and   *)
(* the scripts to the probe, no entry is lost (cli.py:1096, 1428-1469).    *)
ReconciledIsFound ==
  \A c \in Commands \ blind :
    covered[c] # {} => \A e \in faults[c] \intersect covered[c] : e.name = None

(* An incomplete file that nobody transfers any more, which every later    *)
(* test takes for present, was left so by the transfer that last began     *)
(* there; the reconcile behind that very transfer counts its entry among   *)
(* its own faults, unless that reconcile died (cli.py:1453-1498).  Of a    *)
(* file that two transfers at a time garbled this says nothing: both may   *)
(* exit 0 (see HydratedMeansWhole).                                        *)
IncompleteIsReported ==
  \A p \in Paths :
    file[p] = "partial" /\ ~Transferring(p) =>
      LET left == writer[p] IN at[left.of] = "died" \/ left.entry \in faults[left.of]

(* The last check to publish, once it has returned, has its report on the  *)
(* volume and nobody else's words in it, unless two checks published at    *)
(* once (prebuilt.py:368-381).                                             *)
ReportStands ==
  ~shared /\ latest # None /\ at[latest] \in {"healthy", "issues"} => health.text = latest

(* Claims of the documentation that the code does not keep.  "Persist     *)
(* atomically" (prebuilt.py:369): two checks share one staging file.      *)
HealthIsAtomic == health = NoReport \/ health.text \in Commands

(* "Reconcile launches a short-lived pod only to hydrate model assets"     *)
(* (README.md:314): an exit of 0 does not mean that they are whole.        *)
HydratedMeansWhole ==
  \A c \in Commands : at[c] = "ok" =>
    \A e \in Range(manifest[c]) : e.path # None => file[e.path] = "whole"

=============================================================================
