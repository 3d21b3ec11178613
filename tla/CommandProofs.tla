---------------------------- MODULE CommandProofs ----------------------------
(***************************************************************************)
(* The custody of the pod-owning commands, for any patience, interval,     *)
(* durations, listings and number of interrupts: what build, inspect,      *)
(* invalidate and launch --probe-only leave behind they have reported.     *)
(***************************************************************************)
EXTENDS PodCommand, ModelAssets, TLAPS

(* Which pod the command answers for at each place.                        *)
Custody ==
  /\ pc \in {"select", "launch", "drop", "again"} => podObj = 0
  /\ pc = "ready" => launched > 0 /\ (kind # "probe" => podObj = launched)
  /\ pc = "drop" => failed > 0
  /\ pc = "hold" => kind = "hold"

(* The pods nobody was warned of are the one the command answers for and   *)
(* the one it is about to drop.                                            *)
Dropping == IF pc = "drop" THEN {failed} ELSE {}
Accounted ==
  kind \in {"build", "inline", "claim"} /\ ~cut /\ ~unknown =>
    /\ (alive \union leaving) \ warned \subseteq {podObj} \union Dropping
    /\ pc = "done" => alive \union leaving \subseteq warned

(* A launch past the deadline is the last one.                             *)
LastLaunch ==
  /\ pc \in {"select", "launch"} => late = 0
  /\ late > 0 => now >= Patience
  /\ late <= 1

(* What is launched is launched on a volume of the right name, after one   *)
(* was selected.                                                           *)
VolumeKnown ==
  kind \in {"build", "probe"} =>
    /\ pc \in {"launch", "ready", "drop", "again"} => Selected # {}
    /\ volume # 0 => volume \in Named /\ Selected # {}

IInv == TypeOK /\ Custody /\ Accounted /\ LastLaunch /\ VolumeKnown
-----------------------------------------------------------------------------
(* A termination leaves the pod gone or reported, and touches no other.    *)
LEMMA TerminateEffect ==
  ASSUME TypeOK, NEW p \in 1..launched, Terminate(p)
  PROVE  /\ alive' \subseteq alive /\ leaving' \subseteq leaving \union {p}
         /\ tried' = tried \union {p} /\ tried' \subseteq 1..launched
         /\ warned' \subseteq 1..launched
         /\ (alive' \union leaving') \ warned' \subseteq ((alive \union leaving) \ warned) \ {p}
BY DEF Terminate, TypeOK

(* A name resolves to a place in the listing, or to none.                  *)
LEMMA ResolvedType ==
  ASSUME TypeOK PROVE Resolved \subseteq 0..Len(listing)
BY CommandAssumption DEF Resolved, Named, TypeOK

(* There is room for one more pod.                                         *)
LEMMA OneMore == ASSUME NEW n \in Nat PROVE 1..n \subseteq 1..(n + 1) /\ n + 1 \in 1..(n + 1)
OBVIOUS

(* Nothing has happened at the start.                                      *)
LEMMA InitIInv == Init => IInv
<1> SUFFICES ASSUME Init PROVE IInv
  OBVIOUS
<1>1. TypeOK
  <2>1. unknown \in BOOLEAN /\ cut \in BOOLEAN
    BY DEF Init
  <2>2. volume \in 0..Len(listing)
    BY CommandAssumption DEF Init
  <2>3. QED
    BY <2>1, <2>2, CommandAssumption DEF Init, TypeOK, Places
<1>2. Custody /\ Accounted
  BY DEF Init, Custody, Accounted, Dropping
<1>3. LastLaunch /\ VolumeKnown
  BY DEF Init, LastLaunch, VolumeKnown
<1>4. QED
  BY <1>1, <1>2, <1>3 DEF IInv

(* Every step keeps the types.                                             *)
LEMMA TypesPreserved == TypeOK /\ Custody /\ [Next]_vars => TypeOK'
<1> SUFFICES ASSUME TypeOK, Custody, [Next]_vars PROVE TypeOK'
  OBVIOUS
<1> USE CommandAssumption DEF TypeOK, Custody, Places, choiceVars, podVars, custodyVars, timeVars
<1>1. CASE Select
  BY <1>1 DEF Select, Leave, Goto, Selected
<1>2. CASE Launch
  <2>1. now' \in Nat /\ late' \in Nat
    BY <1>2 DEF Launch
  <2>2. volume' \in 0..Len(listing')
    BY <1>2, ResolvedType DEF Launch
  <2>3. unknown' \in BOOLEAN
    BY <1>2 DEF Launch
  <2>4. /\ launched' \in Nat /\ launched' >= launched
        /\ alive' \subseteq 1..launched' /\ podObj' \in 0..launched'
    <3>1. launched \in Nat /\ alive \subseteq 1..launched /\ podObj \in 0..launched
      OBVIOUS
    <3>2. 1..launched \subseteq 1..(launched + 1) /\ launched + 1 \in 1..(launched + 1)
      BY <3>1, OneMore
    <3>3. CASE /\ launched' = launched + 1 /\ alive' \subseteq alive \union {launched + 1}
               /\ podObj' \in {0, podObj, launched + 1}
      BY <3>1, <3>2, <3>3
    <3>4. CASE launched' = launched /\ alive' = alive /\ podObj' = podObj
      BY <3>1, <3>4
    <3>5. QED
      BY <1>2, <3>3, <3>4 DEF Launch
  <2>5. pc' \in Places /\ exit' \in {"open", "ok", "error", "interrupted", "released"}
    BY <1>2 DEF Launch, Leave, Goto
  <2>6. QED
    BY <1>2, <2>1, <2>2, <2>3, <2>4, <2>5 DEF Launch
<1>3. CASE Ready
  BY <1>3 DEF Ready, Leave, Goto
<1>4. CASE NotReady
  BY <1>4 DEF NotReady, Leave, Goto
<1>5. CASE Drop
  <2>1. failed \in 1..launched
    BY <1>5 DEF Drop
  <2>2. /\ alive' \subseteq 1..launched /\ leaving' \subseteq 1..launched
        /\ warned' \subseteq 1..launched /\ tried' \subseteq 1..launched
    BY <1>5, <2>1, TerminateEffect DEF Drop
  <2>3. QED
    BY <1>5, <2>2 DEF Drop, Goto
<1>6. CASE Again
  BY <1>6 DEF Again, Leave, Goto
<1>7. CASE Work
  BY <1>7 DEF Work, Leave
<1>8. CASE Finally
  <2>1. /\ alive' \subseteq 1..launched /\ leaving' \subseteq 1..launched
        /\ warned' \subseteq 1..launched /\ tried' \subseteq 1..launched
    <3>1. CASE podObj = 0
      BY <1>8, <3>1 DEF Finally
    <3>2. CASE podObj # 0
      <4>1. podObj \in 1..launched /\ Terminate(podObj)
        BY <1>8, <3>2 DEF Finally
      <4>2. QED
        BY <4>1, TerminateEffect
    <3>3. QED
      BY <3>1, <3>2
  <2>2. exit' \in {"open", "ok", "error", "interrupted", "released"}
    BY <1>8 DEF Finally
  <2>3. QED
    BY <1>8, <2>1, <2>2 DEF Finally
<1>9. CASE Interrupt
  <2>1. cut' \in BOOLEAN /\ signals' \in 0..MaxSignals
    BY <1>9 DEF Interrupt
  <2>2. launched' \in Nat /\ launched' >= launched /\ alive' \subseteq 1..launched'
    <3>1. launched \in Nat /\ alive \subseteq 1..launched
      OBVIOUS
    <3>2. 1..launched \subseteq 1..(launched + 1) /\ launched + 1 \in 1..(launched + 1)
      BY <3>1, OneMore
    <3>3. CASE launched' = launched + 1 /\ alive' \subseteq alive \union {launched + 1}
      BY <3>1, <3>2, <3>3
    <3>4. CASE launched' = launched /\ alive' = alive
      BY <3>1, <3>4
    <3>5. QED
      BY <1>9, <3>3, <3>4 DEF Interrupt
  <2>3. pc' \in Places /\ exit' \in {"open", "ok", "error", "interrupted", "released"}
    BY <1>9 DEF Interrupt, Leave
  <2>4. QED
    BY <1>9, <2>1, <2>2, <2>3 DEF Interrupt
<1>10. CASE FinishDeletion
  BY <1>10 DEF FinishDeletion
<1>11. CASE UNCHANGED vars
  BY <1>11 DEF vars
<1>12. QED
  BY <1>1, <1>2, <1>3, <1>4, <1>5, <1>6, <1>7, <1>8, <1>9, <1>10, <1>11 DEF Next, Step

(* Every step passes the pod on correctly.                                 *)
LEMMA CustodyPreserved == TypeOK /\ Custody /\ [Next]_vars => Custody'
<1> SUFFICES ASSUME TypeOK, Custody, [Next]_vars PROVE Custody'
  OBVIOUS
<1> USE CommandAssumption DEF TypeOK, Custody, choiceVars, podVars, custodyVars, timeVars
<1>1. CASE Select
  BY <1>1 DEF Select, Leave, Goto, Selected
<1>2. CASE Launch
  BY <1>2 DEF Launch, Leave, Goto
<1>3. CASE Ready
  BY <1>3 DEF Ready, Leave, Goto
<1>4. CASE NotReady
  BY <1>4 DEF NotReady, Leave, Goto
<1>5. CASE Drop
  BY <1>5 DEF Drop, Goto
<1>6. CASE Again
  BY <1>6 DEF Again, Leave, Goto
<1>7. CASE Work
  BY <1>7 DEF Work, Leave
<1>8. CASE Finally
  BY <1>8 DEF Finally
<1>9. CASE Interrupt
  BY <1>9 DEF Interrupt, Leave
<1>10. CASE FinishDeletion
  BY <1>10 DEF FinishDeletion
<1>11. CASE UNCHANGED vars
  BY <1>11 DEF vars
<1>12. QED
  BY <1>1, <1>2, <1>3, <1>4, <1>5, <1>6, <1>7, <1>8, <1>9, <1>10, <1>11 DEF Next, Step

(* No step but a termination lets go of a pod.                             *)
LEMMA AccountedPreserved ==
  TypeOK /\ Custody /\ Accounted /\ [Next]_vars => Accounted'
<1> SUFFICES ASSUME TypeOK, Custody, Accounted, [Next]_vars PROVE Accounted'
  OBVIOUS
<1> USE DEF TypeOK, Custody, Accounted, Dropping, choiceVars, podVars, custodyVars, timeVars
<1>1. CASE Select
  BY <1>1 DEF Select, Leave, Goto, Selected
<1>2. CASE Launch
  <2>1. CASE unknown'
    BY <2>1
  <2>2. CASE ~unknown'
    <3>1. CASE kind # "probe" /\ podObj' = launched + 1 /\ alive' = alive \union {launched + 1}
               /\ pc' \in {"finally", "ready"}
      BY <1>2, <2>2, <3>1 DEF Launch
    <3>2. CASE podObj' = podObj /\ alive' = alive /\ pc' = "finally"
      BY <1>2, <2>2, <3>2 DEF Launch
    <3>3. CASE kind = "probe"
      BY <1>2, <3>3 DEF Launch
    <3>4. QED
      BY <1>2, <2>2, <3>1, <3>2, <3>3 DEF Launch, Leave, Goto
  <2>3. QED
    BY <2>1, <2>2
<1>3. CASE Ready
  BY <1>3 DEF Ready, Leave, Goto
<1>4. CASE NotReady
  BY <1>4 DEF NotReady, Leave, Goto
<1>5. CASE Drop
  <2>1. failed \in 1..launched
    BY <1>5 DEF Drop
  <2>2. (alive' \union leaving') \ warned' \subseteq ((alive \union leaving) \ warned) \ {failed}
    BY <1>5, <2>1, TerminateEffect DEF Drop
  <2>3. QED
    BY <1>5, <2>2 DEF Drop, Goto
<1>6. CASE Again
  BY <1>6 DEF Again, Leave, Goto
<1>7. CASE Work
  BY <1>7 DEF Work, Leave
<1>8. CASE Finally
  <2>1. (alive' \union leaving') \ warned' \subseteq ((alive \union leaving) \ warned) \ {podObj}
    <3>1. CASE podObj = 0
      BY <1>8, <3>1 DEF Finally
    <3>2. CASE podObj # 0
      <4>1. podObj \in 1..launched /\ Terminate(podObj)
        BY <1>8, <3>2 DEF Finally
      <4>2. QED
        BY <4>1, TerminateEffect
    <3>3. QED
      BY <3>1, <3>2
  <2>2. QED
    BY <1>8, <2>1 DEF Finally
<1>9. CASE Interrupt
  BY <1>9 DEF Interrupt, Leave
<1>10. CASE FinishDeletion
  BY <1>10 DEF FinishDeletion
<1>11. CASE UNCHANGED vars
  BY <1>11 DEF vars
<1>12. QED
  BY <1>1, <1>2, <1>3, <1>4, <1>5, <1>6, <1>7, <1>8, <1>9, <1>10, <1>11 DEF Next, Step

(* Only before the deadline does the build launch again.                   *)
LEMMA LastLaunchPreserved == TypeOK /\ LastLaunch /\ [Next]_vars => LastLaunch'
<1> SUFFICES ASSUME TypeOK, LastLaunch, [Next]_vars PROVE LastLaunch'
  OBVIOUS
<1> USE CommandAssumption DEF TypeOK, LastLaunch, choiceVars, podVars, custodyVars, timeVars
<1>1. CASE Select
  BY <1>1 DEF Select, Leave, Goto, Selected
<1>2. CASE Launch
  <2>1. now' \in Nat /\ now' >= now
    BY <1>2 DEF Launch
  <2>2. late' \in {0, 1} /\ (late' = 1 => now >= Patience)
    BY <1>2 DEF Launch
  <2>3. QED
    BY <1>2, <2>1, <2>2 DEF Launch, Leave, Goto
<1>3. CASE Ready
  BY <1>3 DEF Ready, Leave, Goto
<1>4. CASE NotReady
  BY <1>4 DEF NotReady, Leave, Goto
<1>5. CASE Drop
  BY <1>5 DEF Drop, Goto
<1>6. CASE Again
  <2>1. CASE pc' = "launch"
    <3>1. now < Patience /\ now' = now + Interval /\ late' = late
      BY <1>6, <2>1 DEF Again, Leave, Goto
    <3>2. late = 0
      BY <3>1
    <3>3. QED
      BY <3>1, <3>2
  <2>2. CASE pc' = "finally" /\ now' = now
    BY <1>6, <2>2 DEF Again
  <2>3. QED
    BY <1>6, <2>1, <2>2 DEF Again, Leave, Goto
<1>7. CASE Work
  BY <1>7 DEF Work, Leave
<1>8. CASE Finally
  BY <1>8 DEF Finally
<1>9. CASE Interrupt
  BY <1>9 DEF Interrupt, Leave
<1>10. CASE FinishDeletion
  BY <1>10 DEF FinishDeletion
<1>11. CASE UNCHANGED vars
  BY <1>11 DEF vars
<1>12. QED
  BY <1>1, <1>2, <1>3, <1>4, <1>5, <1>6, <1>7, <1>8, <1>9, <1>10, <1>11 DEF Next, Step

(* The account's listing is the same for selecting and for launching.      *)
LEMMA VolumePreserved == TypeOK /\ VolumeKnown /\ [Next]_vars => VolumeKnown'
<1> SUFFICES ASSUME TypeOK, VolumeKnown, [Next]_vars PROVE VolumeKnown'
  OBVIOUS
<1> USE DEF VolumeKnown, Named, Selected, choiceVars, podVars, custodyVars, timeVars
<1>1. CASE Select
  BY <1>1 DEF Select, Leave, Goto, Selected
<1>2. CASE Launch
  <2>1. kind \in {"build", "probe"} => Selected # {} /\ (volume' # 0 => volume' \in Named)
    BY <1>2 DEF Launch, Resolved
  <2>2. QED
    BY <1>2, <2>1 DEF Launch
<1>3. CASE Ready
  BY <1>3 DEF Ready, Leave, Goto
<1>4. CASE NotReady
  BY <1>4 DEF NotReady, Leave, Goto
<1>5. CASE Drop
  BY <1>5 DEF Drop, Goto
<1>6. CASE Again
  BY <1>6 DEF Again, Leave, Goto
<1>7. CASE Work
  BY <1>7 DEF Work, Leave
<1>8. CASE Finally
  BY <1>8 DEF Finally
<1>9. CASE Interrupt
  BY <1>9 DEF Interrupt, Leave
<1>10. CASE FinishDeletion
  BY <1>10 DEF FinishDeletion
<1>11. CASE UNCHANGED vars
  BY <1>11 DEF vars
<1>12. QED
  BY <1>1, <1>2, <1>3, <1>4, <1>5, <1>6, <1>7, <1>8, <1>9, <1>10, <1>11 DEF Next, Step

-----------------------------------------------------------------------------
(* The inductive invariant holds throughout.                               *)
LEMMA SpecIInv == Spec => []IInv
<1>1. IInv /\ [Next]_vars => IInv'
  BY TypesPreserved, CustodyPreserved, AccountedPreserved, LastLaunchPreserved,
     VolumePreserved DEF IInv
<1>2. QED
  BY <1>1, InitIInv, PTL DEF Spec

(* Every variable keeps its type.                                          *)
THEOREM TypeCorrect == Spec => []TypeOK
<1>1. IInv => TypeOK
  BY DEF IInv
<1>2. QED
  BY <1>1, SpecIInv, PTL

(* Build, inspect, invalidate and launch --probe-only leave no pod behind  *)
(* that they did not report.                                               *)
THEOREM NothingLeftUnsaid == Spec => []NoSilentPod
<1>1. IInv => NoSilentPod
  BY DEF IInv, Accounted, NoSilentPod, NothingSilent
<1>2. QED
  BY <1>1, SpecIInv, PTL

(* The build starts at most one launch at or after its deadline.           *)
THEOREM BoundedBuild == Spec => []AtMostOneLateBuild
<1>1. IInv => AtMostOneLateBuild
  BY DEF IInv, LastLaunch, AtMostOneLateBuild
<1>2. QED
  BY <1>1, SpecIInv, PTL

(* Where names are unique, build, check and reconcile work in the data     *)
(* center they were given.                                                 *)
THEOREM VolumeIsRight == Spec => []RightVolume
<1>1. IInv => RightVolume
  BY DEF IInv, VolumeKnown, RightVolume, Selected
<1>2. QED
  BY <1>1, SpecIInv, PTL

-----------------------------------------------------------------------------
(* ModelAssets, for any commands and manifests.                            *)

(* A command that has not begun has left no trace, and one that reconciles *)
(* is not a check.                                                         *)
Beginnings ==
  \A c \in Commands :
    /\ next[c] >= 1
    /\ at[c] = "start" => faults[c] = {} /\ covered[c] = {} /\ next[c] = 1
    /\ at[c] \in {"fetch", "fetching"} =>
         /\ covered[c] = {}
         /\ \A e \in faults[c] : \E i \in DOMAIN manifest[c] : i < next[c] /\ manifest[c][i] = e
    /\ at[c] = "fetching" => Planned(c) /\ None \notin {Current(c).path, Current(c).url}

(* The reconcile that j works for, or that gave up on it.                  *)
Answerable(j) ==
  \/ at[j.of] = "fetching" /\ Current(j.of) = j.entry
  \/ at[j.of] = "died"
  \/ at[j.of] \in {"fetch", "fetching", "failed"} /\ j.entry \in faults[j.of]

(* A transfer goes on for a client that waits for it, reported it failed   *)
(* or died; two transfers for one client are of different entries.         *)
FetchJobs ==
  \A j \in jobs : j.stage \in Fetching =>
    /\ j.entry.path \in Paths
    /\ Answerable(j)
    /\ \A k \in jobs : k.stage \in Fetching /\ k.of = j.of /\ k.entry = j.entry => k = j

(* What a reconcile has passed is at its path or counted as a fault.       *)
There(e) == e.path \in Paths /\ file[e.path] # "absent"
Traversed(c) ==
  \A i \in DOMAIN manifest[c] :
    i < next[c] /\ manifest[c][i].name # None
      => manifest[c][i] \in faults[c] \/ There(manifest[c][i])
PassedBy(c) ==
  /\ at[c] \in {"fetch", "fetching"} => Traversed(c)
  /\ at[c] = "ok" => \A e \in Range(manifest[c]) : e.name # None => There(e)
  /\ \A e \in covered[c] : e.name # None => There(e)
Passed == \A c \in Commands : PassedBy(c)
Begun == \A j \in jobs : j.stage = "transfer" => There(j.entry)

(* Somebody wrote each incomplete file, and the transfer that goes on there*)
(* is the one that last began.                                             *)
Writers ==
  /\ \A p \in Paths : file[p] = "partial" => writer[p].of \in Commands
  /\ \A j \in jobs : LET left == writer[j.entry.path] IN
       j.stage = "transfer" /\ file[j.entry.path] = "partial"
         => left.of = j.of /\ left.entry = j.entry

(* As long as no two checks publish at once, one publishes at a time, the  *)
(* last that began, and nobody else writes what it writes.                 *)
OnePublisher ==
  /\ staging.file = None => staging = NoReport
  /\ \A j \in jobs : j.stage \in Publishing =>
       /\ at[j.of] \in {"publishing", "died"} /\ (j.stage = "fill" => writing[j.of] # None)
       /\ \A k \in jobs : k.stage \in Publishing /\ k.of = j.of => k = j
       /\ ~shared =>
            /\ j.of = latest
            /\ \A k \in jobs : k.stage \in Publishing => k = j
            /\ j.stage = "fill" => /\ staging.text = None
                                   /\ staging.file = writing[j.of] /\ staging.file # None
            /\ j.stage = "move" => staging.text = j.of /\ staging.file # None

AssetsIInv ==
  /\ AssetsTypeOK /\ Beginnings /\ FetchJobs /\ Passed /\ Begun /\ Writers
  /\ OnePublisher
  /\ ReconciledIsFound /\ IncompleteIsReported /\ ReportStands

(* An entry of a manifest, and its path if it has one.                     *)
LEMMA EntryTypes ==
  ASSUME NEW m \in Manifests \union {<<>>}, NEW i \in DOMAIN m
  PROVE  /\ i \in 1..Len(m) /\ m[i] \in Range(m) /\ m[i] \in Entries
         /\ m[i].path # None => m[i].path \in Paths
<1>1. m \in Manifests
  OBVIOUS
<1>2. DOMAIN m = 1..Len(m)
  BY <1>1, AssetsAssumption
<1>3. m[i] \in Range(m)
  BY DEF Range
<1>4. m[i] \in Entries
  BY <1>1, <1>3 DEF Entries
<1>5. QED
  BY <1>2, <1>3, <1>4 DEF Paths

(* The entries of a manifest are numbered from 1.                         *)
LEMMA ManifestLength == \A m \in Manifests \union {<<>>} : Len(m) \in Nat /\ DOMAIN m = 1..Len(m)
BY AssetsAssumption

(* So are those of the manifest a command was given.                       *)
LEMMA ManifestNumbered ==
  ASSUME AssetsTypeOK, NEW c \in Commands
  PROVE  manifest[c] \in Manifests \union {<<>>} /\ DOMAIN manifest[c] \subseteq Nat
<1>1. manifest \in [Commands -> Manifests \union {<<>>}]
  BY DEF AssetsTypeOK
<1>2. manifest[c] \in Manifests \union {<<>>}
  BY <1>1
<1>3. QED
  BY <1>2, ManifestLength

(* The parts of a remote script.                                           *)
LEMMA JobTypes ==
  ASSUME AssetsTypeOK, NEW j \in jobs
  PROVE  /\ j.of \in Commands /\ j.entry \in Entries \union {NoEntry}
         /\ j.stage \in Fetching \union Publishing
         /\ j = [of |-> j.of, entry |-> j.entry, stage |-> j.stage]
         /\ \A stage \in Fetching \union Publishing :
              LET k == [j EXCEPT !.stage = stage]
              IN  /\ k.of = j.of /\ k.entry = j.entry /\ k.stage = stage
                  /\ k \in [of : Commands, entry : Entries \union {NoEntry},
                            stage : Fetching \union Publishing]
BY DEF AssetsTypeOK

(* Nothing has been fetched or published yet.                              *)
LEMMA InitAssets == AssetsInit => AssetsIInv
<1> SUFFICES ASSUME AssetsInit PROVE AssetsIInv
  OBVIOUS
<1> USE AssetsAssumption DEF AssetsInit
<1>1. AssetsTypeOK
  <2>1. NoReport \in Reports
    BY DEF Reports, NoReport
  <2>2. 0 \in 0..MaxCuts /\ FALSE \in BOOLEAN
    OBVIOUS
  <2>3. Job(None, NoEntry, "curl") \in Transfers
    BY DEF Job, Fetching, Transfers
  <2>4. QED
    BY <2>1, <2>2, <2>3 DEF AssetsTypeOK
<1>2. Beginnings /\ FetchJobs /\ Passed /\ Begun /\ Writers
  BY DEF Beginnings, FetchJobs, Passed, PassedBy, Traversed, Begun, Writers
<1>3. OnePublisher /\ ReconciledIsFound /\ IncompleteIsReported /\ ReportStands
  BY DEF OnePublisher, ReconciledIsFound, IncompleteIsReported, ReportStands, NoReport
<1>4. QED
  BY <1>1, <1>2, <1>3 DEF AssetsIInv

(* Every step of a client keeps the types.                                 *)
LEMMA ClientTypes ==
  ASSUME AssetsTypeOK, Beginnings, NEW c \in Commands, Client(c) PROVE AssetsTypeOK'
<1> USE AssetsAssumption DEF AssetsTypeOK, clientVars, reportVars
<1>1. CASE Reconcile(c)
  BY <1>1 DEF Reconcile
<1>2. CASE SkipEntry(c)
  <2>1. Planned(c) => Current(c) \in Entries
    BY EntryTypes DEF Planned, Current, FetchPlan
  <2>2. (IF Planned(c) THEN {Current(c)} ELSE {}) \subseteq Entries
    BY <2>1
  <2> DEFINE missed == IF Planned(c) THEN {Current(c)} ELSE {}
  <2> HIDE DEF missed
  <2>3. missed \subseteq Entries /\ GoOn(c, missed, "fetch")
    BY <1>2, <2>2 DEF SkipEntry, missed
  <2>4. QED
    BY <1>2, <2>3 DEF SkipEntry, GoOn
<1>3. CASE SendFetch(c)
  <2>1. Current(c) \in Entries
    BY <1>3, EntryTypes DEF SendFetch, Planned, Current, FetchPlan
  <2>2. Job(c, Current(c), "test") \in [of : Commands, entry : Entries \union {NoEntry},
                                        stage : Fetching \union Publishing]
    BY <2>1 DEF Job, Fetching
  <2>3. QED
    BY <1>3, <2>2 DEF SendFetch
<1>4. CASE FetchTimesOut(c)
  <2>1. Current(c) \in Entries
    BY <1>4, EntryTypes DEF FetchTimesOut, Beginnings, Planned, Current, FetchPlan
  <2>2. QED
    BY <1>4, <2>1 DEF FetchTimesOut, GoOn
<1>5. CASE FetchesEnd(c)
  BY <1>5 DEF FetchesEnd
<1>6. CASE Check(c)
  <2>1. Reconciled \subseteq Entries
    <3>1. ASSUME NEW d \in Commands PROVE Range(manifest[d]) \subseteq Entries
      BY EntryTypes DEF Range
    <3>2. QED
      BY <3>1 DEF Reconciled
  <2>2. /\ covered' \in [Commands -> SUBSET Entries]
        /\ faults' \in [Commands -> SUBSET (Entries \union {NoEntry})]
        /\ manifest' \in [Commands -> Manifests \union {<<>>}]
    <3>1. CASE UNCHANGED faults
      BY <1>6, <2>1, <3>1 DEF Check
    <3>2. CASE faults' = [faults EXCEPT ![c] = {NoEntry}] /\ UNCHANGED <<manifest, covered>>
      BY <3>2
    <3>3. QED
      BY <1>6, <3>1, <3>2 DEF Check
  <2>3. QED
    BY <1>6, <2>2 DEF Check
<1>7. CASE Probe(c)
  <2> DEFINE e == manifest[c][next[c]]
  <2>1. e \in Entries
    <3>1. next[c] \in DOMAIN manifest[c]
      BY <1>7, ManifestLength DEF Probe, Beginnings
    <3>2. QED
      BY <3>1, EntryTypes
  <2>2. PICK missed \in {{}, {e}} : GoOn(c, missed, "probe")
    BY <1>7 DEF Probe
  <2>3. /\ blind' \subseteq Commands /\ cuts' \in 0..MaxCuts
        /\ UNCHANGED <<manifest, covered, reportVars, jobs, file, writer>>
    BY <1>7 DEF Probe
  <2> HIDE DEF e
  <2>4. missed \subseteq Entries
    BY <2>1, <2>2
  <2>5. QED
    BY <2>2, <2>3, <2>4 DEF GoOn
<1>8. CASE SendReport(c)
  <2>1. Job(c, NoEntry, "open") \in [of : Commands, entry : Entries \union {NoEntry},
                                     stage : Fetching \union Publishing]
    BY DEF Job, Publishing
  <2>2. QED
    BY <1>8, <2>1 DEF SendReport
<1>9. CASE Die(c)
  BY <1>9 DEF Die
<1>10. CASE PodGone(c)
  BY <1>10 DEF PodGone
<1>11. QED
  BY <1>1, <1>2, <1>3, <1>4, <1>5, <1>6, <1>7, <1>8, <1>9, <1>10 DEF Client

(* So does every step of a remote script.                                  *)
LEMMA ScriptTypes ==
  ASSUME AssetsTypeOK, FetchJobs, NEW j \in jobs, Script(j) PROVE AssetsTypeOK'
<1> USE AssetsAssumption DEF AssetsTypeOK, clientVars, reportVars
<1>1. ASSUME NEW ok \in BOOLEAN, EndsFetch(j, ok)
      PROVE  /\ UNCHANGED <<manifest, blind, covered, reportVars, cuts>>
             /\ jobs' \subseteq jobs /\ next' \in [Commands -> Nat]
             /\ at' \in [Commands -> {"start", "fetch", "fetching", "probe", "publishing",
                                      "ok", "failed", "blocked", "died", "healthy", "issues"}]
             /\ faults' \in [Commands -> SUBSET (Entries \union {NoEntry})]
  <2>1. CASE at[j.of] = "fetching" /\ Current(j.of) = j.entry
    <3> DEFINE missed == IF ok THEN {} ELSE {j.entry}
    <3>1. missed \subseteq Entries \union {NoEntry}
      BY JobTypes
    <3>2. GoOn(j.of, missed, "fetch") /\ jobs' = jobs \ {j}
      BY <1>1, <2>1 DEF EndsFetch
    <3> HIDE DEF missed
    <3>3. QED
      BY <1>1, <3>1, <3>2 DEF GoOn, EndsFetch
  <2>2. CASE ~(at[j.of] = "fetching" /\ Current(j.of) = j.entry)
    BY <1>1, <2>2 DEF EndsFetch
  <2>3. QED
    BY <2>1, <2>2
<1>2. ASSUME NEW stage \in Fetching \union Publishing, Becomes(j, stage)
      PROVE  /\ UNCHANGED <<clientVars, cuts>>
             /\ jobs' \subseteq [of : Commands, entry : Entries \union {NoEntry},
                                stage : Fetching \union Publishing]
  <2> DEFINE k == [j EXCEPT !.stage = stage]
  <2>1. k \in [of : Commands, entry : Entries \union {NoEntry}, stage : Fetching \union Publishing]
    BY JobTypes
  <2> HIDE DEF k
  <2>2. jobs' = (jobs \ {j}) \union {k} /\ UNCHANGED <<clientVars, cuts>>
    BY <1>2 DEF Becomes, k
  <2>3. QED
    BY <2>1, <2>2
<1>3. ASSUME NEW ok \in BOOLEAN, EndsReport(j, ok)
      PROVE  /\ UNCHANGED <<manifest, next, faults, blind, covered, writing, latest, shared,
                            file, writer, cuts>>
             /\ jobs' \subseteq jobs
             /\ at' \in [Commands -> {"start", "fetch", "fetching", "probe", "publishing",
                                      "ok", "failed", "blocked", "died", "healthy", "issues"}]
  BY <1>3 DEF EndsReport
<1>4. CASE Present(j) \/ CurlFails(j) \/ NothingToResume(j)
  BY <1>1, <1>4 DEF Present, CurlFails, NothingToResume
<1>5. CASE NotPresent(j)
  BY <1>2, <1>5 DEF NotPresent, Fetching
<1>6. CASE Transfer(j)
  <2>1. file' \in [Paths -> {"absent", "partial", "whole", "mixed"}]
    BY <1>6 DEF Transfer
  <2>2. writer' \in [Paths -> Transfers]
    <3>1. j \in Transfers
      BY <1>6, JobTypes DEF Transfer, Fetching, Transfers
    <3>2. QED
      BY <1>6, <3>1 DEF Transfer
  <2>3. QED
    BY <1>2, <1>6, <2>1, <2>2 DEF Transfer, Fetching
<1>7. CASE Fetched(j)
  BY <1>1, <1>7 DEF Fetched
<1>8. CASE OpenReport(j)
  <2>1. staging' \in Reports /\ staging'.file \in Commands \union {None}
    BY <1>8, JobTypes DEF OpenReport, Reports
  <2>2. QED
    BY <1>2, <1>8, <2>1 DEF OpenReport, Publishing
<1>9. CASE FillReport(j)
  <2> DEFINE Filled(report) ==
               IF report.file = writing[j.of]
               THEN [report EXCEPT !.text = IF @ = None THEN j.of ELSE Torn] ELSE report
  <2>1. \A report \in Reports : Filled(report) \in Reports
    BY JobTypes DEF Reports
  <2>2. staging' = Filled(staging) /\ health' = Filled(health)
    BY <1>9 DEF FillReport
  <2> HIDE DEF Filled
  <2>3. QED
    BY <1>2, <1>9, <2>1, <2>2 DEF FillReport, Publishing
<1>10. CASE MoveReport(j) \/ ReportFails(j)
  <2>1. NoReport \in Reports
    BY DEF NoReport, Reports
  <2>2. staging' \in Reports /\ health' \in Reports
    BY <1>10, <2>1 DEF MoveReport, ReportFails
  <2>3. \E ok \in BOOLEAN : EndsReport(j, ok)
    BY <1>10 DEF MoveReport, ReportFails
  <2>4. QED
    BY <1>3, <2>2, <2>3
<1>11. QED
  BY <1>4, <1>5, <1>6, <1>7, <1>8, <1>9, <1>10 DEF Script

(* Every step keeps the types.                                             *)
LEMMA AssetsTypesPreserved ==
  AssetsTypeOK /\ Beginnings /\ FetchJobs /\ [AssetsNext]_assetVars => AssetsTypeOK'
<1>1. ASSUME AssetsTypeOK, UNCHANGED assetVars PROVE AssetsTypeOK'
  BY <1>1 DEF AssetsTypeOK, assetVars, clientVars, reportVars
<1>2. QED
  BY <1>1, ClientTypes, ScriptTypes DEF AssetsNext

(* What going on to the next entry changes.                                *)
LEMMA GoesOn ==
  ASSUME AssetsTypeOK, NEW c \in Commands, NEW missed, NEW place, GoOn(c, missed, place)
  PROVE  /\ next'[c] = next[c] + 1 /\ next[c] \in Nat /\ at'[c] = place
         /\ faults'[c] = faults[c] \union missed
         /\ \A d \in Commands \ {c} : at'[d] = at[d] /\ faults'[d] = faults[d]
<1>1. /\ at \in [Commands -> {"start", "fetch", "fetching", "probe", "publishing",
                              "ok", "failed", "blocked", "died", "healthy", "issues"}]
      /\ next \in [Commands -> Nat]
      /\ faults \in [Commands -> SUBSET (Entries \union {NoEntry})]
  BY DEF AssetsTypeOK
<1>2. QED
  BY <1>1 DEF GoOn

(* Nothing ever removes a file.                                            *)
LEMMA FilesStay ==
  ASSUME AssetsTypeOK, [AssetsNext]_assetVars, NEW p \in Paths, file[p] # "absent"
  PROVE  file'[p] # "absent"
<1>1. CASE UNCHANGED file
  BY <1>1
<1>2. ASSUME NEW j \in jobs, Transfer(j) \/ Fetched(j) PROVE file'[p] # "absent"
  BY <1>2 DEF Transfer, Fetched, AssetsTypeOK
<1>3. ASSUME NEW c \in Commands, Client(c) PROVE UNCHANGED file
  BY <1>3 DEF Client, Reconcile, SkipEntry, SendFetch, FetchTimesOut, FetchesEnd, Check, Probe,
              SendReport, Die, PodGone
<1>4. ASSUME NEW j \in jobs, Script(j), ~(Transfer(j) \/ Fetched(j)) PROVE UNCHANGED file
  BY <1>4 DEF Script, Present, NotPresent, CurlFails, NothingToResume, OpenReport, FillReport,
              MoveReport, ReportFails, EndsReport
<1>5. QED
  BY <1>1, <1>2, <1>3, <1>4 DEF AssetsNext, assetVars

(* A script's next stage: the same script for the same client.             *)
Continues(j) ==
  /\ UNCHANGED <<clientVars, cuts>>
  /\ \E k : /\ k.of = j.of /\ k.entry = j.entry
            /\ \/ j.stage \in Fetching /\ k.stage \in Fetching
               \/ j.stage \in Publishing /\ k.stage \in Publishing
            /\ jobs' = (jobs \ {j}) \union {k}

(* What a script does is to end or to go on.                               *)
LEMMA ScriptSteps ==
  ASSUME AssetsTypeOK, NEW j \in jobs, Script(j)
  PROVE  \/ Continues(j)
         \/ /\ j.stage \in Fetching /\ \E ok \in BOOLEAN : EndsFetch(j, ok)
            /\ Present(j) \/ Fetched(j) \/ CurlFails(j) \/ NothingToResume(j)
         \/ /\ j.stage \in Publishing /\ \E ok \in BOOLEAN : EndsReport(j, ok)
            /\ MoveReport(j) \/ ReportFails(j)
<1> DEFINE Staged(stage) == [j EXCEPT !.stage = stage]
<1>1. ASSUME NEW stage \in Fetching, j.stage \in Fetching, Becomes(j, stage) PROVE Continues(j)
  <2>1. LET k == Staged(stage) IN k.of = j.of /\ k.entry = j.entry /\ k.stage = stage
    BY JobTypes
  <2>2. jobs' = (jobs \ {j}) \union {Staged(stage)} /\ UNCHANGED <<clientVars, cuts>>
    BY <1>1 DEF Becomes
  <2> HIDE DEF Staged
  <2>3. QED
    BY <1>1, <2>1, <2>2 DEF Continues
<1>2. ASSUME NEW stage \in Publishing, j.stage \in Publishing, Becomes(j, stage) PROVE Continues(j)
  <2>1. LET k == Staged(stage) IN k.of = j.of /\ k.entry = j.entry /\ k.stage = stage
    BY JobTypes
  <2>2. jobs' = (jobs \ {j}) \union {Staged(stage)} /\ UNCHANGED <<clientVars, cuts>>
    BY <1>2 DEF Becomes
  <2> HIDE DEF Staged
  <2>3. QED
    BY <1>2, <2>1, <2>2 DEF Continues
<1>3. CASE Present(j) \/ CurlFails(j) \/ NothingToResume(j) \/ Fetched(j)
  BY <1>3 DEF Present, CurlFails, NothingToResume, Fetched, Fetching
<1>4. CASE NotPresent(j) \/ Transfer(j)
  BY <1>1, <1>4 DEF NotPresent, Transfer, Fetching
<1>5. CASE OpenReport(j) \/ FillReport(j)
  BY <1>2, <1>5 DEF OpenReport, FillReport, Publishing
<1>6. CASE MoveReport(j) \/ ReportFails(j)
  BY <1>6 DEF MoveReport, ReportFails, Publishing
<1>7. QED
  BY <1>3, <1>4, <1>5, <1>6 DEF Script

(* A reconcile's faults are entries that it has left behind.               *)
LEMMA BeginningsPreserved ==
  AssetsTypeOK /\ Beginnings /\ [AssetsNext]_assetVars => Beginnings'
<1> SUFFICES ASSUME AssetsTypeOK, Beginnings, [AssetsNext]_assetVars, NEW c \in Commands
             PROVE  /\ next'[c] >= 1
                    /\ at'[c] = "start" => faults'[c] = {} /\ covered'[c] = {} /\ next'[c] = 1
                    /\ at'[c] \in {"fetch", "fetching"} =>
                         /\ covered'[c] = {}
                         /\ \A e \in faults'[c] :
                              \E i \in DOMAIN manifest'[c] : i < next'[c] /\ manifest'[c][i] = e
                    /\ at'[c] = "fetching" =>
                         Planned(c)' /\ None \notin {Current(c)'.path, Current(c)'.url}
  BY DEF Beginnings
<1>1. CASE UNCHANGED <<at[c], manifest[c], next[c], faults[c], covered[c]>>
  BY <1>1 DEF Beginnings, Planned, Current
<1>2. ASSUME at[c] \in {"fetch", "fetching"}, Planned(c),
             NEW missed \in SUBSET {Current(c)}, GoOn(c, missed, "fetch"),
             UNCHANGED <<manifest, covered>>
      PROVE  /\ covered'[c] = {} /\ next'[c] >= 1 /\ at'[c] = "fetch"
             /\ \A e \in faults'[c] :
                  \E i \in DOMAIN manifest'[c] : i < next'[c] /\ manifest'[c][i] = e
  <2>1. /\ next'[c] = next[c] + 1 /\ faults'[c] = faults[c] \union missed /\ at'[c] = "fetch"
        /\ next[c] \in DOMAIN manifest[c] /\ next[c] \in Nat
    <3>1. next[c] \in DOMAIN manifest[c]
      BY <1>2 DEF Planned, FetchPlan
    <3>2. QED
      BY <1>2, <3>1, GoesOn
  <2>2. DOMAIN manifest[c] \subseteq Nat
    BY ManifestNumbered
  <2>3. ASSUME NEW e \in faults'[c]
        PROVE  \E i \in DOMAIN manifest[c] : i < next'[c] /\ manifest[c][i] = e
    <3>1. CASE e \in faults[c]
      BY <1>2, <2>1, <2>2, <3>1 DEF Beginnings
    <3>2. CASE e = Current(c)
      BY <2>1, <3>2 DEF Current
    <3>3. QED
      BY <1>2, <2>1, <2>3, <3>1, <3>2
  <2>4. QED
    BY <1>2, <2>1, <2>3 DEF Beginnings
<1>3. CASE Reconcile(c)
  BY <1>3 DEF Reconcile, Beginnings, AssetsTypeOK
<1>4. CASE SkipEntry(c)
  <2>1. CASE Planned(c)
    BY <1>2, <1>4, <2>1 DEF SkipEntry
  <2>2. CASE ~Planned(c)
    <3>1. /\ next'[c] = next[c] + 1 /\ faults'[c] = faults[c] /\ at'[c] = "fetch" /\ at[c] = "fetch"
          /\ UNCHANGED <<manifest, covered>> /\ next[c] \in Nat
      <4>1. GoOn(c, {}, "fetch") /\ at[c] = "fetch" /\ UNCHANGED <<manifest, covered>>
        BY <1>4, <2>2 DEF SkipEntry
      <4>2. QED
        BY <4>1, GoesOn
    <3>2. DOMAIN manifest[c] \subseteq Nat
      BY ManifestNumbered
    <3>3. QED
      BY <3>1, <3>2 DEF Beginnings
  <2>3. QED
    BY <2>1, <2>2
<1>5. CASE SendFetch(c)
  BY <1>5 DEF SendFetch, Beginnings, AssetsTypeOK, Planned, Current
<1>6. CASE FetchTimesOut(c)
  BY <1>2, <1>6 DEF FetchTimesOut, Beginnings
<1>7. CASE FetchesEnd(c) \/ SendReport(c) \/ Die(c) \/ PodGone(c)
  BY <1>7 DEF FetchesEnd, SendReport, Die, PodGone, Beginnings, AssetsTypeOK, clientVars
<1>8. CASE Check(c)
  BY <1>8 DEF Check, Beginnings, AssetsTypeOK
<1>9. CASE Probe(c)
  <2>1. next'[c] = next[c] + 1 /\ at'[c] = "probe"
    BY <1>9 DEF Probe, GoOn, AssetsTypeOK
  <2>2. QED
    BY <2>1 DEF Beginnings, AssetsTypeOK
<1>10. ASSUME NEW d \in Commands, d # c, Client(d)
       PROVE  UNCHANGED <<at[c], manifest[c], next[c], faults[c], covered[c]>>
  BY <1>10 DEF Client, Reconcile, SkipEntry, SendFetch, FetchTimesOut, FetchesEnd, Check, Probe,
               SendReport, Die, PodGone, GoOn, AssetsTypeOK, clientVars
<1>11. ASSUME NEW j \in jobs, Continues(j)
       PROVE  UNCHANGED <<at[c], manifest[c], next[c], faults[c], covered[c]>>
  BY <1>11 DEF Continues, clientVars
<1>12. ASSUME NEW j \in jobs, NEW ok \in BOOLEAN, EndsReport(j, ok)
       PROVE  \/ UNCHANGED <<at[c], manifest[c], next[c], faults[c], covered[c]>>
              \/ /\ at'[c] \in {"healthy", "issues", "failed"}
                 /\ UNCHANGED <<manifest[c], next[c], faults[c], covered[c]>>
  BY <1>12 DEF EndsReport, AssetsTypeOK
<1>13. ASSUME NEW j \in jobs, NEW ok \in BOOLEAN, EndsFetch(j, ok), ~UNCHANGED at[c]
       PROVE  /\ at[c] = "fetching" /\ UNCHANGED <<manifest, covered>>
              /\ \E missed \in SUBSET {Current(c)} : GoOn(c, missed, "fetch")
  <2>1. at[j.of] = "fetching" /\ Current(j.of) = j.entry
    BY <1>13 DEF EndsFetch
  <2>2. /\ GoOn(j.of, IF ok THEN {} ELSE {Current(j.of)}, "fetch")
        /\ UNCHANGED <<manifest, covered>>
    BY <1>13, <2>1 DEF EndsFetch
  <2>3. c = j.of
    BY <1>13, <2>2, JobTypes DEF GoOn, AssetsTypeOK
  <2>4. QED
    BY <2>1, <2>2, <2>3
<1>14. ASSUME NEW j \in jobs, NEW ok \in BOOLEAN, EndsFetch(j, ok), UNCHANGED at[c]
       PROVE  UNCHANGED <<at[c], manifest[c], next[c], faults[c], covered[c]>>
  <2>1. CASE at[j.of] = "fetching" /\ Current(j.of) = j.entry
    BY <1>14, <2>1, JobTypes DEF EndsFetch, GoOn, AssetsTypeOK
  <2>2. CASE ~(at[j.of] = "fetching" /\ Current(j.of) = j.entry)
    BY <1>14, <2>2 DEF EndsFetch
  <2>3. QED
    BY <2>1, <2>2
<1>15. CASE UNCHANGED assetVars
  BY <1>1, <1>15 DEF assetVars, clientVars
<1>16. CASE \E j \in jobs : Script(j)
  <2>1. PICK j \in jobs : Script(j)
    BY <1>16
  <2>2. CASE Continues(j)
    BY <1>1, <1>11, <2>2
  <2>3. CASE \E ok \in BOOLEAN : EndsFetch(j, ok)
    BY <1>1, <1>2, <1>13, <1>14, <2>3 DEF Beginnings
  <2>4. CASE \E ok \in BOOLEAN : EndsReport(j, ok)
    BY <1>1, <1>12, <2>4 DEF Beginnings
  <2>5. QED
    BY <2>1, <2>2, <2>3, <2>4, ScriptSteps
<1>17. CASE \E d \in Commands : Client(d)
  BY <1>1, <1>3, <1>4, <1>5, <1>6, <1>7, <1>8, <1>9, <1>10, <1>17 DEF Client
<1>18. QED
  BY <1>15, <1>16, <1>17 DEF AssetsNext

(* Faults are not forgotten, and the dead stay dead.                       *)
LEMMA FaultsStay ==
  ASSUME AssetsTypeOK, Beginnings, [AssetsNext]_assetVars, NEW c \in Commands
  PROVE  faults[c] \subseteq faults'[c] /\ (at[c] = "died" => at'[c] = "died")
<1> USE DEF AssetsTypeOK
<1>1. ASSUME NEW d \in Commands, Client(d)
      PROVE  faults[c] \subseteq faults'[c] /\ (at[c] = "died" => at'[c] = "died")
  <2>1. CASE SkipEntry(d) \/ FetchTimesOut(d) \/ Probe(d)
    <3>1. PICK missed, place : GoOn(d, missed, place)
      BY <2>1 DEF SkipEntry, FetchTimesOut, Probe
    <3>2. at[d] # "died"
      BY <2>1 DEF SkipEntry, FetchTimesOut, Probe
    <3>3. QED
      BY <3>1, <3>2 DEF GoOn
  <2>2. CASE Check(d)
    BY <2>2 DEF Check, Beginnings
  <2>3. CASE Reconcile(d) \/ SendFetch(d) \/ FetchesEnd(d) \/ SendReport(d) \/ Die(d) \/ PodGone(d)
    BY <2>3 DEF Reconcile, SendFetch, FetchesEnd, SendReport, Die, PodGone, clientVars
  <2>4. QED
    BY <1>1, <2>1, <2>2, <2>3 DEF Client
<1>2. ASSUME NEW j \in jobs, Script(j)
      PROVE  faults[c] \subseteq faults'[c] /\ (at[c] = "died" => at'[c] = "died")
  <2>1. CASE Continues(j)
    BY <2>1 DEF Continues, clientVars
  <2>2. ASSUME NEW ok \in BOOLEAN, EndsFetch(j, ok)
        PROVE  faults[c] \subseteq faults'[c] /\ (at[c] = "died" => at'[c] = "died")
    <3>1. CASE at[j.of] = "fetching" /\ Current(j.of) = j.entry
      <4>1. GoOn(j.of, IF ok THEN {} ELSE {j.entry}, "fetch") /\ j.of \in Commands
        BY <2>2, <3>1, JobTypes DEF EndsFetch
      <4>2. at[j.of] # "died"
        BY <3>1
      <4> HIDE DEF AssetsTypeOK
      <4>3. QED
        BY <4>1, <4>2, GoesOn
    <3>2. CASE ~(at[j.of] = "fetching" /\ Current(j.of) = j.entry)
      BY <2>2, <3>2 DEF EndsFetch
    <3>3. QED
      BY <3>1, <3>2
  <2>3. ASSUME NEW ok \in BOOLEAN, EndsReport(j, ok)
        PROVE  faults[c] \subseteq faults'[c] /\ (at[c] = "died" => at'[c] = "died")
    BY <2>3, JobTypes DEF EndsReport
  <2>4. QED
    BY <1>2, <2>1, <2>2, <2>3, ScriptSteps
<1>3. CASE UNCHANGED assetVars
  BY <1>3 DEF assetVars, clientVars
<1>4. QED
  BY <1>1, <1>2, <1>3 DEF AssetsNext

(* Whatever a client does, it stays answerable for the scripts it had.     *)
LEMMA StaysAnswerable ==
  ASSUME AssetsTypeOK, Beginnings, NEW j \in jobs, Answerable(j),
         NEW c \in Commands, Client(c), j \in jobs'
  PROVE  Answerable(j)'
<1> USE DEF AssetsTypeOK
<1>0. j.of \in Commands /\ [AssetsNext]_assetVars
  BY JobTypes DEF AssetsNext
<1>1. CASE c # j.of
  <2>1. UNCHANGED <<at[j.of], next[j.of], manifest[j.of]>>
    BY <1>0, <1>1 DEF Client, Reconcile, SkipEntry, SendFetch, FetchTimesOut, FetchesEnd, Check,
                Probe, SendReport, Die, PodGone, GoOn, clientVars
  <2>2. QED
    BY <1>0, <2>1, FaultsStay DEF Answerable, Current
<1>2. CASE at[j.of] = "died"
  BY <1>0, <1>2, FaultsStay DEF Answerable
<1>3. CASE c = j.of /\ at[c] # "died"
  <2>1. CASE FetchTimesOut(c)
    BY <1>0, <1>3, <2>1 DEF FetchTimesOut, GoOn, Answerable, Current
  <2>2. CASE SkipEntry(c)
    <3>1. PICK missed : GoOn(c, missed, "fetch")
      BY <2>2 DEF SkipEntry
    <3>2. j.entry \in faults[c]
      BY <1>3, <2>2 DEF SkipEntry, Answerable
    <3>3. QED
      BY <1>0, <1>3, <3>1, <3>2, FaultsStay DEF GoOn, Answerable
  <2>3. CASE SendFetch(c) \/ FetchesEnd(c) \/ Die(c)
    BY <1>0, <1>3, <2>3 DEF SendFetch, FetchesEnd, Die, Answerable
  <2>4. CASE Reconcile(c) \/ Check(c) \/ Probe(c) \/ SendReport(c)
    BY <1>3, <2>4 DEF Reconcile, Check, Probe, SendReport, Answerable
  <2>5. CASE PodGone(c)
    BY <1>3, <2>5 DEF PodGone, Answerable, clientVars, Current
  <2>6. QED
    BY <1>3, <2>1, <2>2, <2>3, <2>4, <2>5 DEF Client
<1>4. QED
  BY <1>1, <1>2, <1>3

(* A script's end settles with its own client only.                        *)
LEMMA OthersStayAnswerable ==
  ASSUME AssetsTypeOK, Beginnings, FetchJobs, NEW j \in jobs, Script(j),
         NEW k \in jobs \ {j}, k.stage \in Fetching
  PROVE  Answerable(k)'
<1> USE DEF AssetsTypeOK
<1>0. /\ Answerable(k) /\ k.of \in Commands /\ j.of \in Commands /\ [AssetsNext]_assetVars
      /\ j.stage \in Fetching /\ j.of = k.of => j.entry # k.entry
  BY JobTypes DEF AssetsNext, FetchJobs, Answerable
<1>1. CASE Continues(j)
  BY <1>0, <1>1 DEF Continues, clientVars, Answerable, Current
<1>2. ASSUME NEW ok \in BOOLEAN, EndsFetch(j, ok), j.stage \in Fetching PROVE Answerable(k)'
  <2>1. CASE at[j.of] = "fetching" /\ Current(j.of) = j.entry
    <3>1. PICK missed : GoOn(j.of, missed, "fetch") /\ UNCHANGED manifest
      BY <1>2, <2>1 DEF EndsFetch
    <3>2. CASE k.of = j.of
      <4>1. k.entry \in faults[k.of]
        BY <1>0, <1>2, <2>1, <3>2 DEF Answerable
      <4>2. QED
        BY <1>0, <3>1, <3>2, <4>1 DEF GoOn, Answerable
    <3>3. CASE k.of # j.of
      BY <1>0, <3>1, <3>3 DEF GoOn, Answerable, Current
    <3>4. QED
      BY <3>2, <3>3
  <2>2. CASE ~(at[j.of] = "fetching" /\ Current(j.of) = j.entry)
    BY <1>0, <1>2, <2>2 DEF EndsFetch, Answerable, Current
  <2>3. QED
    BY <2>1, <2>2
<1>3. ASSUME NEW ok \in BOOLEAN, EndsReport(j, ok) PROVE Answerable(k)'
  <2>1. UNCHANGED <<manifest, next, faults>>
    BY <1>3 DEF EndsReport
  <2>2. at'[k.of] = at[k.of] \/ at[k.of] = "publishing"
    BY <1>0, <1>3 DEF EndsReport
  <2>3. QED
    BY <1>0, <2>1, <2>2 DEF Answerable, Current
<1>4. QED
  BY <1>1, <1>2, <1>3, ScriptSteps

(* A transfer that starts is of an entry whose like was never asked for.   *)
LEMMA FetchJobsPreserved ==
  AssetsTypeOK /\ Beginnings /\ FetchJobs /\ [AssetsNext]_assetVars => FetchJobs'
<1> SUFFICES ASSUME AssetsTypeOK, Beginnings, FetchJobs, [AssetsNext]_assetVars PROVE FetchJobs'
  OBVIOUS
<1>1. ASSUME NEW c \in Commands, SendFetch(c) PROVE FetchJobs'
  <2> DEFINE new == Job(c, Current(c), "test")
  <2>1. /\ new.of = c /\ new.entry = Current(c) /\ new.stage = "test" /\ new.entry.path \in Paths
        /\ jobs' = jobs \union {new} /\ UNCHANGED <<manifest, next, faults>>
        /\ at[c] = "fetch" /\ at' = [at EXCEPT ![c] = "fetching"]
    BY <1>1, EntryTypes DEF SendFetch, Job, AssetsTypeOK, Planned, FetchPlan, Current
  <2>2. ASSUME NEW j \in jobs, j.stage \in Fetching, j.of = c PROVE j.entry # Current(c)
    <3>1. j.entry \in faults[c]
      BY <2>1, <2>2 DEF FetchJobs, Answerable
    <3>2. PICK i \in DOMAIN manifest[c] : i < next[c] /\ manifest[c][i] = j.entry
      BY <2>1, <3>1 DEF Beginnings
    <3>3. i \in 1..(next[c] - 1)
      BY <3>2, ManifestLength DEF AssetsTypeOK
    <3>4. QED
      BY <1>1, <3>2, <3>3 DEF SendFetch, Planned, FetchPlan, Current
  <2>3. \A j : j = new => Answerable(j)'
    BY <2>1 DEF Answerable, Current, AssetsTypeOK
  <2>4. \A j \in jobs : j.stage \in Fetching => Answerable(j)'
    BY <1>1, <2>1, StaysAnswerable DEF FetchJobs, Client
  <2> HIDE DEF new
  <2>5. ASSUME NEW j \in jobs', j.stage \in Fetching
        PROVE  j.entry.path \in Paths /\ Answerable(j)'
    <3>1. CASE j = new
      BY <2>1, <2>3, <3>1
    <3>2. CASE j \in jobs
      BY <2>4, <2>5, <3>2 DEF FetchJobs
    <3>3. QED
      BY <2>1, <3>1, <3>2
  <2>6. ASSUME NEW j \in jobs', NEW k \in jobs', j.stage \in Fetching, k.stage \in Fetching,
               k.of = j.of, k.entry = j.entry
        PROVE  k = j
    <3>1. CASE j = new \/ k = new
      BY <2>1, <2>2, <2>6, <3>1
    <3>2. CASE j \in jobs /\ k \in jobs
      BY <2>6, <3>2 DEF FetchJobs
    <3>3. QED
      BY <2>1, <3>1, <3>2
  <2>7. QED
    BY <2>5, <2>6 DEF FetchJobs
<1>2. ASSUME NEW c \in Commands, Client(c), ~SendFetch(c) PROVE FetchJobs'
  <2>1. \A j \in jobs' : j.stage \in Fetching => j \in jobs
    <3>1. CASE SendReport(c)
      BY <3>1 DEF SendReport, Job, Fetching
    <3>2. CASE ~SendReport(c)
      BY <1>2, <3>2 DEF Client, Reconcile, SkipEntry, FetchTimesOut, FetchesEnd, Check, Probe, Die,
                      PodGone
    <3>3. QED
      BY <3>1, <3>2
  <2>2. QED
    BY <1>2, <2>1, StaysAnswerable DEF FetchJobs
<1>3. ASSUME NEW j \in jobs, Script(j) PROVE FetchJobs'
  <2>1. \A k \in jobs \ {j} : k.stage \in Fetching => Answerable(k)'
    BY <1>3, OthersStayAnswerable
  <2>2. CASE Continues(j)
    <3>1. PICK k : /\ k.of = j.of /\ k.entry = j.entry
                   /\ \/ j.stage \in Fetching /\ k.stage \in Fetching
                      \/ j.stage \in Publishing /\ k.stage \in Publishing
                   /\ jobs' = (jobs \ {j}) \union {k}
      BY <2>2 DEF Continues
    <3>2. j.stage \in Fetching => Answerable(k)'
      BY <2>2, <3>1 DEF Continues, clientVars, FetchJobs, Answerable, Current
    <3>3. k.stage \in Fetching => j.stage \in Fetching
      BY <3>1 DEF Fetching, Publishing
    <3>4. QED
      BY <2>1, <3>1, <3>2, <3>3 DEF FetchJobs
  <2>3. CASE ~Continues(j)
    <3>1. jobs' = jobs \ {j}
      BY <1>3, <2>3, ScriptSteps DEF EndsFetch, EndsReport
    <3>2. QED
      BY <2>1, <3>1 DEF FetchJobs
  <2>4. QED
    BY <2>2, <2>3
<1>4. CASE UNCHANGED assetVars
  BY <1>4 DEF assetVars, clientVars, FetchJobs, Answerable, Current
<1>5. QED
  BY <1>1, <1>2, <1>3, <1>4 DEF AssetsNext

(* A script that succeeds for its client has found its file or brought it. *)
LEMMA SuccessMeansThere ==
  ASSUME AssetsTypeOK, FetchJobs, Begun, NEW j \in jobs, j.stage \in Fetching,
         Present(j) \/ Fetched(j) \/ CurlFails(j) \/ NothingToResume(j),
         at[j.of] = "fetching", Current(j.of) = j.entry
  PROVE  /\ UNCHANGED <<manifest, covered>>
         /\ \/ GoOn(j.of, {}, "fetch") /\ There(j.entry)'
            \/ GoOn(j.of, {j.entry}, "fetch")
<1> USE DEF AssetsTypeOK
<1>1. j.entry.path \in Paths
  BY DEF FetchJobs
<1>2. CASE Present(j)
  BY <1>1, <1>2 DEF Present, EndsFetch, There
<1>3. CASE Fetched(j)
  <2>1. There(j.entry)
    BY <1>3 DEF Begun, Fetched
  <2>2. There(j.entry)'
    BY <1>3, <2>1 DEF Fetched, There
  <2>3. QED
    BY <1>3, <2>2 DEF Fetched, EndsFetch
<1>4. CASE CurlFails(j)
  BY <1>4 DEF CurlFails, EndsFetch
<1>5. CASE NothingToResume(j)
  BY <1>1, <1>5 DEF NothingToResume, EndsFetch, There
<1>6. QED
  BY <1>2, <1>3, <1>4, <1>5

(* Only a transfer that begins or completes touches a file.                *)
LEMMA TransferSteps ==
  ASSUME AssetsTypeOK, [AssetsNext]_assetVars
  PROVE  \/ \E j \in jobs : Transfer(j) \/ Fetched(j)
         \/ UNCHANGED <<file, writer>> /\ \A k \in jobs' : k.stage = "transfer" => k \in jobs
<1>1. ASSUME NEW c \in Commands, Client(c)
      PROVE  UNCHANGED <<file, writer>> /\ \A k \in jobs' : k.stage = "transfer" => k \in jobs
  <2>1. CASE SendFetch(c) \/ SendReport(c)
    BY <2>1 DEF SendFetch, SendReport, Job
  <2>2. CASE ~(SendFetch(c) \/ SendReport(c))
    BY <1>1, <2>2 DEF Client, Reconcile, SkipEntry, FetchTimesOut, FetchesEnd, Check,
                      Probe, Die, PodGone
  <2>3. QED
    BY <2>1, <2>2
<1>2. ASSUME NEW j \in jobs, Script(j), ~(Transfer(j) \/ Fetched(j))
      PROVE  UNCHANGED <<file, writer>> /\ \A k \in jobs' : k.stage = "transfer" => k \in jobs
  <2>1. CASE NotPresent(j) \/ OpenReport(j) \/ FillReport(j)
    <3>1. PICK stage \in {"curl", "fill", "move"} :
            jobs' = (jobs \ {j}) \union {[j EXCEPT !.stage = stage]}
      BY <2>1 DEF NotPresent, OpenReport, FillReport, Becomes
    <3> DEFINE k == [j EXCEPT !.stage = stage]
    <3>2. k.stage # "transfer"
      BY JobTypes DEF Fetching, Publishing
    <3> HIDE DEF k
    <3>3. \A i \in jobs' : i.stage = "transfer" => i \in jobs
      BY <3>1, <3>2 DEF k
    <3>4. QED
      BY <2>1, <3>3 DEF NotPresent, OpenReport, FillReport
  <2>2. CASE Present(j) \/ CurlFails(j) \/ NothingToResume(j)
    BY <2>2 DEF Present, CurlFails, NothingToResume, EndsFetch
  <2>3. CASE MoveReport(j) \/ ReportFails(j)
    BY <2>3 DEF MoveReport, ReportFails, EndsReport
  <2>4. QED
    BY <1>2, <2>1, <2>2, <2>3 DEF Script
<1>3. QED
  BY <1>1, <1>2 DEF AssetsNext, assetVars

(* What the beginning of a transfer changes.                               *)
LEMMA TransferEffect ==
  ASSUME AssetsTypeOK, FetchJobs, NEW j \in jobs, Transfer(j)
  PROVE  /\ j.entry.path \in Paths /\ j.of \in Commands
         /\ \E k : /\ k.of = j.of /\ k.entry = j.entry /\ k.stage = "transfer"
                   /\ jobs' = (jobs \ {j}) \union {k}
         /\ writer' = [writer EXCEPT ![j.entry.path] = j]
         /\ \A q \in Paths : q # j.entry.path => file'[q] = file[q]
         /\ file'[j.entry.path] # "absent"
         /\ Transferring(j.entry.path) => file'[j.entry.path] = "mixed"
<1>1. j.entry.path \in Paths /\ j.of \in Commands
  BY JobTypes DEF Transfer, FetchJobs, Fetching
<1> DEFINE k == [j EXCEPT !.stage = "transfer"]
<1>2. k.of = j.of /\ k.entry = j.entry /\ k.stage = "transfer"
  BY JobTypes DEF Fetching
<1>3. jobs' = (jobs \ {j}) \union {k}
  BY DEF Transfer, Becomes
<1> HIDE DEF k
<1>4. QED
  BY <1>1, <1>2, <1>3 DEF Transfer, AssetsTypeOK

(* A transfer has begun once its file is there.                            *)
LEMMA BegunPreserved ==
  AssetsTypeOK /\ FetchJobs /\ Begun /\ [AssetsNext]_assetVars => Begun'
<1> SUFFICES ASSUME AssetsTypeOK, FetchJobs, Begun, [AssetsNext]_assetVars,
                    NEW k \in jobs', k.stage = "transfer"
             PROVE  There(k.entry)'
  BY DEF Begun
<1>1. CASE k \in jobs
  BY <1>1, FilesStay DEF Begun, There
<1>2. CASE k \notin jobs
  <2>1. PICK j \in jobs : Transfer(j)
    BY <1>2, TransferSteps DEF Fetched, EndsFetch
  <2>2. k.entry = j.entry /\ j.entry.path \in Paths /\ file'[j.entry.path] # "absent"
    BY <1>2, <2>1, TransferEffect
  <2>3. QED
    BY <2>2 DEF There
<1>3. QED
  BY <1>1, <1>2

(* The last to begin writes alone, or the file is garbled.                 *)
LEMMA WritersPreserved ==
  AssetsTypeOK /\ FetchJobs /\ Writers /\ [AssetsNext]_assetVars => Writers'
<1> SUFFICES ASSUME AssetsTypeOK, FetchJobs, Writers, [AssetsNext]_assetVars PROVE Writers'
  OBVIOUS
<1> USE DEF AssetsTypeOK
<1>1. ASSUME NEW j \in jobs, Transfer(j) PROVE Writers'
  <2> DEFINE p == j.entry.path
  <2>1. PICK k : /\ k.of = j.of /\ k.entry = j.entry /\ k.stage = "transfer"
                 /\ jobs' = (jobs \ {j}) \union {k}
    BY <1>1, TransferEffect
  <2>2. /\ p \in Paths /\ j.of \in Commands /\ writer' = [writer EXCEPT ![p] = j]
        /\ \A q \in Paths : q # p => file'[q] = file[q]
        /\ Transferring(p) => file'[p] = "mixed"
    BY <1>1, TransferEffect
  <2> HIDE DEF p
  <2>3. writer'[p] = j /\ \A q \in Paths : q # p => writer'[q] = writer[q]
    BY <2>2
  <2>4. ASSUME NEW q \in Paths, file'[q] = "partial" PROVE writer'[q].of \in Commands
    BY <2>2, <2>3, <2>4 DEF Writers
  <2>5. ASSUME NEW i \in jobs', i.stage = "transfer", file'[i.entry.path] = "partial"
        PROVE  writer'[i.entry.path].of = i.of /\ writer'[i.entry.path].entry = i.entry
    <3>1. CASE i = k
      BY <2>1, <2>3, <3>1 DEF p
    <3>2. CASE i \in jobs
      <4>1. i.entry.path \in Paths
        BY <2>5, <3>2 DEF FetchJobs, Fetching
      <4>2. i.entry.path # p
        BY <2>2, <2>5, <3>2 DEF Transferring
      <4>3. QED
        BY <2>2, <2>3, <2>5, <3>2, <4>1, <4>2 DEF Writers
    <3>3. QED
      BY <2>1, <3>1, <3>2
  <2>6. QED
    BY <2>4, <2>5 DEF Writers
<1>2. ASSUME NEW j \in jobs, Fetched(j) PROVE Writers'
  <2>1. /\ jobs' \subseteq jobs /\ writer' = writer
        /\ \A q \in Paths : file'[q] = "partial" => file[q] = "partial"
    BY <1>2 DEF Fetched, EndsFetch
  <2>2. \A i \in jobs : i.stage = "transfer" => i.entry.path \in Paths
    BY DEF FetchJobs, Fetching
  <2>3. QED
    BY <2>1, <2>2 DEF Writers
<1>3. CASE UNCHANGED <<file, writer>> /\ \A k \in jobs' : k.stage = "transfer" => k \in jobs
  BY <1>3 DEF Writers
<1>4. QED
  BY <1>1, <1>2, <1>3, TransferSteps

(* What is at its path stays there.                                        *)
LEMMA ThereStays ==
  ASSUME AssetsTypeOK, [AssetsNext]_assetVars, NEW e, There(e) PROVE There(e)'
BY FilesStay DEF There

(* A reconcile goes on from an entry that is there or that it counts as a  *)
(* fault; one that the plan leaves out is the like of one it has passed.   *)
LEMMA PassesOne ==
  ASSUME AssetsTypeOK, Beginnings, Passed, [AssetsNext]_assetVars, NEW c \in Commands,
         at[c] \in {"fetch", "fetching"}, next[c] \in DOMAIN manifest[c],
         NEW missed, GoOn(c, missed, "fetch"), UNCHANGED manifest,
         \A e : Planned(c) /\ e = Current(c) => e \in missed \/ There(e)'
  PROVE  Traversed(c)'
<1> DEFINE m == manifest[c]
<1>1. /\ next'[c] = next[c] + 1 /\ faults'[c] = faults[c] \union missed /\ next[c] \in Nat
      /\ DOMAIN m \subseteq Nat /\ DOMAIN m = 1..Len(m) /\ Len(m) \in Nat
  BY ManifestLength DEF GoOn, AssetsTypeOK
<1>2. ASSUME NEW i \in DOMAIN m, i < next[c], NEW e, e = m[i], e.name # None
      PROVE  e \in faults'[c] \/ There(e)'
  <2>1. e \in faults[c] \/ There(e)
    BY <1>2 DEF Passed, PassedBy, Traversed
  <2>2. QED
    BY <1>1, <2>1, ThereStays
<1>3. ASSUME NEW e, e = m[next[c]], e.name # None PROVE e \in faults'[c] \/ There(e)'
  <2>1. CASE Planned(c)
    BY <1>1, <1>3, <2>1 DEF Current
  <2>2. CASE ~Planned(c)
    <3>1. PICK i \in 1..(next[c] - 1) : m[i] = m[next[c]]
      BY <1>3, <2>2 DEF Planned, FetchPlan
    <3>2. i \in DOMAIN m /\ i < next[c]
      BY <1>1, <3>1
    <3>3. QED
      BY <1>2, <1>3, <3>1, <3>2
  <2>3. QED
    BY <2>1, <2>2
<1>4. ASSUME NEW i \in DOMAIN m, i < next'[c] PROVE i < next[c] \/ i = next[c]
  BY <1>1, <1>4
<1>5. \A e : \A i \in DOMAIN m :
        i < next'[c] /\ e = m[i] /\ e.name # None => e \in faults'[c] \/ There(e)'
  BY <1>2, <1>3, <1>4
<1>6. UNCHANGED m
  OBVIOUS
<1>7. QED
  BY <1>5, <1>6 DEF m, There, Traversed

(* An entry passes from the plan to the volume, or to the faults.          *)
LEMMA PassedPreserved ==
  AssetsTypeOK /\ Beginnings /\ FetchJobs /\ Begun /\ Passed /\ [AssetsNext]_assetVars => Passed'
<1> SUFFICES ASSUME AssetsTypeOK, Beginnings, FetchJobs, Begun, Passed, [AssetsNext]_assetVars,
                    NEW c \in Commands
             PROVE  PassedBy(c)'
  BY DEF Passed, PassedBy
<1> USE DEF AssetsTypeOK
<1>1. ASSUME UNCHANGED <<manifest[c], next[c], covered[c]>>,
             \/ UNCHANGED at[c]
             \/ at[c] = "fetch" /\ at'[c] = "fetching"
             \/ at'[c] \notin {"fetch", "fetching", "ok"}
      PROVE  PassedBy(c)'
  <2>1. faults[c] \subseteq faults'[c]
    BY FaultsStay
  <2>2. \A e : There(e) => There(e)'
    BY ThereStays
  <2>3. PassedBy(c)
    BY DEF Passed, PassedBy
  <2>4. QED
    BY <1>1, <2>1, <2>2, <2>3 DEF PassedBy, Traversed
<1>2. ASSUME at[c] \in {"fetch", "fetching"}, next[c] \in DOMAIN manifest[c],
             NEW missed, GoOn(c, missed, "fetch"), UNCHANGED <<manifest, covered>>,
             \A e : Planned(c) /\ e = Current(c) => e \in missed \/ There(e)'
      PROVE  PassedBy(c)'
  <2>1. Traversed(c)'
    BY <1>2, PassesOne
  <2>2. at'[c] = "fetch" /\ UNCHANGED covered
    BY <1>2 DEF GoOn
  <2>3. \A e \in covered[c] : e.name # None => There(e)'
    BY ThereStays DEF Passed, PassedBy
  <2>4. QED
    BY <2>1, <2>2, <2>3 DEF PassedBy
<1>3. ASSUME NEW d \in Commands, d # c, Client(d)
      PROVE  UNCHANGED <<at[c], manifest[c], next[c], covered[c]>>
  BY <1>3 DEF Client, Reconcile, SkipEntry, SendFetch, FetchTimesOut, FetchesEnd, Check, Probe,
              SendReport, Die, PodGone, GoOn, clientVars
<1>4. CASE Reconcile(c)
  <2>1. at'[c] \in {"fetch", "blocked"} /\ next'[c] = 1 /\ covered'[c] = {}
    BY <1>4 DEF Reconcile, Beginnings
  <2>2. DOMAIN manifest'[c] \subseteq Nat \ {0}
    <3>1. manifest'[c] \in Manifests \union {<<>>}
      BY <1>4 DEF Reconcile
    <3>2. QED
      BY <3>1, ManifestLength
  <2>3. \A i \in DOMAIN manifest'[c] : ~(i < next'[c])
    BY <2>1, <2>2
  <2>4. QED
    BY <2>1, <2>3 DEF PassedBy, Traversed
<1>5. CASE SkipEntry(c)
  <2>1. next[c] \in DOMAIN manifest[c]
    BY <1>5, ManifestLength DEF SkipEntry, Beginnings
  <2>2. QED
    BY <1>2, <1>5, <2>1 DEF SkipEntry
<1>6. CASE FetchTimesOut(c)
  <2>1. next[c] \in DOMAIN manifest[c] /\ Current(c) \in {Current(c)}
    BY <1>6 DEF FetchTimesOut, Beginnings, Planned, FetchPlan
  <2>2. QED
    BY <1>2, <1>6, <2>1 DEF FetchTimesOut
<1>7. CASE FetchesEnd(c)
  <2>1. CASE faults[c] = {}
    <3>1. \A i \in DOMAIN manifest[c] : i < next[c]
      BY <1>7, ManifestLength DEF FetchesEnd
    <3>2. \A i \in DOMAIN manifest[c] : manifest[c][i].name # None => There(manifest[c][i])
      BY <1>7, <2>1, <3>1 DEF FetchesEnd, Passed, PassedBy, Traversed
    <3>3. \A e \in Range(manifest[c]) : e.name # None => There(e)
      BY <3>2 DEF Range
    <3>4. at'[c] = "ok" /\ UNCHANGED <<manifest, covered>>
      BY <1>7, <2>1 DEF FetchesEnd
    <3>5. \A e : There(e) => There(e)'
      BY ThereStays
    <3>6. QED
      BY <3>3, <3>4, <3>5 DEF PassedBy, Passed
  <2>2. CASE faults[c] # {}
    BY <1>1, <1>7, <2>2 DEF FetchesEnd
  <2>3. QED
    BY <2>1, <2>2
<1>8. CASE Check(c)
  <2>1. \A e \in Reconciled : e.name # None => There(e)'
    BY ThereStays DEF Reconciled, Passed, PassedBy
  <2>2. at'[c] = "probe" /\ covered'[c] \subseteq Reconciled
    BY <1>8 DEF Check, Beginnings
  <2>3. QED
    BY <2>1, <2>2 DEF PassedBy
<1>9. CASE Probe(c)
  <2>1. at'[c] = "probe" /\ UNCHANGED covered
    BY <1>9 DEF Probe, GoOn
  <2>2. \A e \in covered[c] : e.name # None => There(e)'
    BY ThereStays DEF Passed, PassedBy
  <2>3. QED
    BY <2>1, <2>2 DEF PassedBy
<1>10. CASE SendFetch(c) \/ SendReport(c) \/ Die(c) \/ PodGone(c)
  BY <1>1, <1>10 DEF SendFetch, SendReport, Die, PodGone, clientVars
<1>11. CASE UNCHANGED assetVars
  BY <1>1, <1>11 DEF assetVars, clientVars
<1>12. ASSUME NEW j \in jobs, Script(j) PROVE PassedBy(c)'
  <2>1. CASE Continues(j)
    BY <1>1, <2>1 DEF Continues, clientVars
  <2>2. ASSUME NEW ok \in BOOLEAN, EndsFetch(j, ok), j.stage \in Fetching,
               Present(j) \/ Fetched(j) \/ CurlFails(j) \/ NothingToResume(j)
        PROVE  PassedBy(c)'
    <3>1. CASE at[j.of] = "fetching" /\ Current(j.of) = j.entry /\ c = j.of
      <4>1. PICK missed \in {{}, {j.entry}} :
              /\ GoOn(c, missed, "fetch") /\ UNCHANGED <<manifest, covered>>
              /\ \A e : e = Current(c) => e \in missed \/ There(e)'
        <5>1. /\ UNCHANGED <<manifest, covered>>
              /\ \/ GoOn(c, {}, "fetch") /\ There(j.entry)'
                 \/ GoOn(c, {j.entry}, "fetch")
          BY <2>2, <3>1, SuccessMeansThere
        <5>2. \A e : e = j.entry /\ There(j.entry)' => There(e)'
          BY DEF There
        <5>3. QED
          BY <3>1, <5>1, <5>2
      <4>2. next[c] \in DOMAIN manifest[c]
        BY <3>1 DEF Beginnings, Planned, FetchPlan
      <4>3. QED
        BY <1>2, <3>1, <4>1, <4>2
    <3>2. CASE at[j.of] = "fetching" /\ Current(j.of) = j.entry /\ c # j.of
      BY <1>1, <2>2, <3>2, JobTypes DEF EndsFetch, GoOn
    <3>3. CASE ~(at[j.of] = "fetching" /\ Current(j.of) = j.entry)
      BY <1>1, <2>2, <3>3 DEF EndsFetch
    <3>4. QED
      BY <3>1, <3>2, <3>3
  <2>3. ASSUME NEW ok \in BOOLEAN, EndsReport(j, ok) PROVE PassedBy(c)'
    BY <1>1, <2>3, JobTypes DEF EndsReport
  <2>4. QED
    BY <1>12, <2>1, <2>2, <2>3, ScriptSteps
<1>13. QED
  BY <1>1, <1>3, <1>4, <1>5, <1>6, <1>7, <1>8, <1>9, <1>10, <1>11, <1>12 DEF AssetsNext, Client

-----------------------------------------------------------------------------
(* A check finds what was reconciled before it began.                      *)
LEMMA FoundPreserved ==
  AssetsTypeOK /\ Beginnings /\ Passed /\ ReconciledIsFound /\ [AssetsNext]_assetVars
    => ReconciledIsFound'
<1> SUFFICES ASSUME AssetsTypeOK, Beginnings, Passed, ReconciledIsFound, [AssetsNext]_assetVars,
                    NEW c \in Commands, c \notin blind', NEW e \in faults'[c], e \in covered'[c]
             PROVE  e.name = None
  BY DEF ReconciledIsFound
<1> USE DEF AssetsTypeOK
<1>1. CASE c \notin blind /\ e \in faults[c] /\ e \in covered[c]
  BY <1>1 DEF ReconciledIsFound
<1>2. ASSUME NEW d \in Commands, d # c, Client(d)
      PROVE  UNCHANGED <<faults[c], covered[c]>> /\ c \notin blind
  BY <1>2 DEF Client, Reconcile, SkipEntry, SendFetch, FetchTimesOut, FetchesEnd, Check, Probe,
              SendReport, Die, PodGone, GoOn, clientVars
<1>3. CASE SkipEntry(c) \/ FetchTimesOut(c)
  BY <1>3 DEF SkipEntry, FetchTimesOut, Beginnings
<1>4. CASE Check(c)
  BY <1>4 DEF Check, Beginnings
<1>5. CASE Probe(c)
  <2> DEFINE f == manifest[c][next[c]]
  <2>1. /\ GoOn(c, IF f.path = None \/ file[f.path] = "absent" THEN {f} ELSE {}, "probe")
        /\ UNCHANGED <<blind, covered>>
    BY <1>5 DEF Probe
  <2>2. e \in faults[c] \/ (e = f /\ (f.path = None \/ file[f.path] = "absent"))
    BY <2>1 DEF GoOn
  <2>3. CASE e = f /\ (f.path = None \/ file[f.path] = "absent")
    <3>1. None \notin Paths
      BY DEF Paths
    <3>2. QED
      BY <2>1, <2>3, <3>1 DEF Passed, PassedBy, There
  <2>4. QED
    BY <1>1, <2>1, <2>2, <2>3
<1>6. CASE Reconcile(c) \/ SendFetch(c) \/ FetchesEnd(c) \/ SendReport(c) \/ Die(c) \/ PodGone(c)
  BY <1>1, <1>6 DEF Reconcile, SendFetch, FetchesEnd, SendReport, Die, PodGone, clientVars
<1>7. ASSUME NEW j \in jobs, Script(j) PROVE e.name = None
  <2>1. UNCHANGED <<blind, covered>>
    BY <1>7, ScriptSteps DEF Continues, clientVars, EndsFetch, EndsReport
  <2>2. UNCHANGED faults[c] \/ at[c] = "fetching"
    <3>1. CASE Continues(j)
      BY <3>1 DEF Continues, clientVars
    <3>2. ASSUME NEW ok \in BOOLEAN, EndsFetch(j, ok)
          PROVE  UNCHANGED faults[c] \/ at[c] = "fetching"
      BY <3>2, JobTypes DEF EndsFetch, GoOn
    <3>3. CASE \E ok \in BOOLEAN : EndsReport(j, ok)
      BY <3>3 DEF EndsReport
    <3>4. QED
      BY <1>7, <3>1, <3>2, <3>3, ScriptSteps
  <2>3. QED
    BY <1>1, <2>1, <2>2 DEF Beginnings
<1>8. CASE UNCHANGED assetVars
  BY <1>1, <1>8 DEF assetVars, clientVars
<1>9. QED
  BY <1>1, <1>2, <1>3, <1>4, <1>5, <1>6, <1>7, <1>8 DEF AssetsNext, Client

(* A file is left incomplete by a transfer whose reconcile answers for it. *)
LEMMA IncompletePreserved ==
  AssetsTypeOK /\ Beginnings /\ FetchJobs /\ Writers /\ IncompleteIsReported
    /\ [AssetsNext]_assetVars => IncompleteIsReported'
<1> DEFINE Answered(of, entry) == at'[of] = "died" \/ entry \in faults'[of]
<1> SUFFICES ASSUME AssetsTypeOK, Beginnings, FetchJobs, Writers, IncompleteIsReported,
                    [AssetsNext]_assetVars,
                    NEW p \in Paths, file'[p] = "partial", ~Transferring(p)'
             PROVE  Answered(writer'[p].of, writer'[p].entry)
  BY DEF IncompleteIsReported
<1> USE DEF AssetsTypeOK
<1>1. ASSUME file[p] = "partial", ~Transferring(p), writer'[p] = writer[p]
      PROVE  Answered(writer'[p].of, writer'[p].entry)
  BY <1>1, FaultsStay DEF IncompleteIsReported, Writers
<1>2. ASSUME NEW j \in jobs, Transfer(j) PROVE Answered(writer'[p].of, writer'[p].entry)
  <2>1. PICK k : /\ k.entry = j.entry /\ k.stage = "transfer"
                 /\ jobs' = (jobs \ {j}) \union {k}
    BY <1>2, TransferEffect
  <2>2. p # j.entry.path
    BY <2>1 DEF Transferring
  <2>3. file'[p] = file[p] /\ writer'[p] = writer[p]
    BY <1>2, <2>2, TransferEffect
  <2>4. ~Transferring(p)
    BY <2>1, <2>2 DEF Transferring
  <2>5. QED
    BY <1>1, <2>3, <2>4
<1>3. ASSUME NEW j \in jobs, Fetched(j) PROVE Answered(writer'[p].of, writer'[p].entry)
  <2>1. j.entry.path \in Paths /\ jobs' = jobs \ {j}
    BY <1>3 DEF Fetched, EndsFetch, FetchJobs, Fetching
  <2>2. p # j.entry.path /\ file'[p] = file[p] /\ writer' = writer
    BY <1>3, <2>1 DEF Fetched
  <2>3. ~Transferring(p)
    BY <2>1, <2>2 DEF Transferring
  <2>4. QED
    BY <1>1, <2>2, <2>3
<1>4. CASE UNCHANGED <<file, writer>>
  <2>1. CASE ~Transferring(p)
    BY <1>1, <1>4, <2>1
  <2>2. CASE Transferring(p)
    <3>1. PICK j \in jobs : j.stage = "transfer" /\ j.entry.path = p /\ j \notin jobs'
      BY <2>2 DEF Transferring
    <3>2. writer'[p].of = j.of /\ writer'[p].entry = j.entry
      BY <1>4, <3>1 DEF Writers
    <3>3. j.of \in Commands /\ Answerable(j)
      BY <3>1, JobTypes DEF FetchJobs, Fetching
    <3>4. ASSUME NEW c \in Commands, Client(c) PROVE Answered(j.of, j.entry)
      <4>1. PodGone(c)
        BY <3>1, <3>4 DEF Client, Reconcile, SkipEntry, SendFetch, FetchTimesOut, FetchesEnd, Check,
                          Probe, SendReport, Die
      <4>2. j.of = c /\ (at[c] = "died" \/ j.entry \in faults[c])
        BY <3>1, <3>3, <4>1 DEF PodGone, Answerable
      <4>3. QED
        BY <4>2, FaultsStay
    <3>5. ASSUME NEW i \in jobs, Script(i), ~Transfer(i), ~Fetched(i)
          PROVE  Answered(j.of, j.entry)
      <4>1. i = j
        BY <3>1, <3>5 DEF Script, Present, NotPresent, CurlFails, NothingToResume, OpenReport,
                          FillReport, MoveReport, ReportFails, EndsFetch, EndsReport, Becomes
      <4>2. EndsFetch(j, FALSE)
        BY <3>1, <3>5, <4>1 DEF Script, Present, NotPresent, CurlFails, NothingToResume, OpenReport,
                                FillReport, MoveReport, ReportFails, Publishing
      <4>3. CASE at[j.of] = "fetching" /\ Current(j.of) = j.entry
        BY <3>3, <4>2, <4>3 DEF EndsFetch, GoOn
      <4>4. CASE ~(at[j.of] = "fetching" /\ Current(j.of) = j.entry)
        BY <3>3, <4>2, <4>4 DEF EndsFetch, Answerable
      <4>5. QED
        BY <4>3, <4>4
    <3>6. QED
      BY <1>2, <1>3, <3>1, <3>2, <3>4, <3>5 DEF AssetsNext, assetVars
  <2>3. QED
    BY <2>1, <2>2
<1>5. QED
  BY <1>2, <1>3, <1>4, TransferSteps

(* While one check publishes, nobody else writes its report.               *)
LEMMA OnePublisherPreserved ==
  AssetsTypeOK /\ OnePublisher /\ [AssetsNext]_assetVars => OnePublisher'
<1> SUFFICES ASSUME AssetsTypeOK, OnePublisher, [AssetsNext]_assetVars PROVE OnePublisher'
  OBVIOUS
<1> USE AssetsAssumption DEF AssetsTypeOK
<1>1. ASSUME \A j \in jobs' : j.stage \in Publishing => j \in jobs,
             UNCHANGED <<staging, writing, latest, shared>>,
             \A c \in Commands : at[c] = "publishing" => at'[c] \in {"publishing", "died"},
             \A c \in Commands : at[c] = "died" => at'[c] = "died"
      PROVE  OnePublisher'
  BY <1>1 DEF OnePublisher
<1>2. ASSUME NEW c \in Commands, SendReport(c) PROVE OnePublisher'
  <2> DEFINE new == Job(c, NoEntry, "open")
  <2>1. /\ new.of = c /\ new.stage = "open" /\ jobs' = jobs \union {new}
        /\ at[c] = "probe" /\ at' = [at EXCEPT ![c] = "publishing"]
        /\ shared' = (shared \/ \E j \in jobs : j.stage \in Publishing)
        /\ latest' = c /\ UNCHANGED <<staging, writing>>
    BY <1>2 DEF SendReport, Job
  <2> HIDE DEF new
  <2>2. \A j \in jobs' : j.stage \in Publishing =>
          /\ at'[j.of] \in {"publishing", "died"} /\ (j.stage = "fill" => writing'[j.of] # None)
          /\ \A k \in jobs' : k.stage \in Publishing /\ k.of = j.of => k = j
    BY <2>1 DEF OnePublisher
  <2>3. ASSUME ~shared', NEW j \in jobs', j.stage \in Publishing PROVE j = new
    BY <2>1, <2>3
  <2>4. QED
    BY <2>1, <2>2, <2>3 DEF OnePublisher
<1>3. ASSUME NEW c \in Commands, Client(c), ~SendReport(c) PROVE OnePublisher'
  <2>1. CASE SendFetch(c)
    BY <1>1, <2>1 DEF SendFetch, Job, Publishing, reportVars
  <2>2. CASE PodGone(c)
    BY <1>1, <2>2 DEF PodGone, reportVars, clientVars
  <2>3. CASE SkipEntry(c) \/ FetchTimesOut(c) \/ Probe(c)
    <3>1. PICK missed, place : GoOn(c, missed, place)
      BY <2>3 DEF SkipEntry, FetchTimesOut, Probe
    <3>2. at[c] \notin {"publishing", "died"} /\ UNCHANGED <<jobs, reportVars>>
      BY <2>3 DEF SkipEntry, FetchTimesOut, Probe
    <3>3. QED
      BY <1>1, <3>1, <3>2 DEF GoOn, reportVars
  <2>4. CASE Reconcile(c) \/ FetchesEnd(c) \/ Check(c) \/ Die(c)
    BY <1>1, <2>4 DEF Reconcile, FetchesEnd, Check, Die, reportVars
  <2>5. QED
    BY <1>3, <2>1, <2>2, <2>3, <2>4 DEF Client
<1>4. ASSUME NEW j \in jobs, NEW stage \in Publishing, j.stage \in Publishing, Becomes(j, stage),
             UNCHANGED <<latest, shared>>,
             \A c \in Commands : writing'[c] \in {writing[c], staging'.file},
             stage = "fill" => writing'[j.of] = staging'.file /\ staging'.file # None,
             staging'.file = None => staging' = NoReport /\ UNCHANGED writing,
             ~shared => /\ stage = "fill" => staging'.text = None
                        /\ stage = "move" => staging'.text = j.of /\ staging'.file # None
      PROVE  OnePublisher'
  <2> DEFINE k == [j EXCEPT !.stage = stage]
  <2>1. k.of = j.of /\ k.entry = j.entry /\ k.stage = stage /\ j.of \in Commands
    BY JobTypes
  <2>2. jobs' = (jobs \ {j}) \union {k} /\ UNCHANGED at
    BY <1>4 DEF Becomes, clientVars
  <2> HIDE DEF k
  <2>3. \A i \in jobs' : i.stage \in Publishing =>
          /\ at'[i.of] \in {"publishing", "died"}
          /\ \A l \in jobs' : l.stage \in Publishing /\ l.of = i.of => l = i
    BY <1>4, <2>1, <2>2 DEF OnePublisher
  <2>4. ASSUME NEW i \in jobs', i.stage = "fill" PROVE writing'[i.of] # None
    <3>1. CASE i = k
      BY <1>4, <2>1, <2>4, <3>1
    <3>2. CASE i \in jobs
      <4>1. i.of \in Commands /\ writing[i.of] # None
        BY <2>4, <3>2, JobTypes DEF OnePublisher, Publishing
      <4>2. QED
        BY <1>4, <4>1
    <3>3. QED
      BY <2>2, <3>1, <3>2
  <2>5. ASSUME ~shared', NEW i \in jobs', i.stage \in Publishing PROVE i = k
    BY <1>4, <2>1, <2>2, <2>5 DEF OnePublisher
  <2>6. ~shared => j.of = latest
    BY <1>4 DEF OnePublisher
  <2>7. QED
    BY <1>4, <2>1, <2>2, <2>3, <2>4, <2>5, <2>6 DEF OnePublisher
<1>5. ASSUME NEW j \in jobs, OpenReport(j) PROVE OnePublisher'
  <2>1. staging'.text = None /\ staging'.file = writing'[j.of] /\ staging'.file # None
    <3>1. j.of \in Commands /\ j.of # None
      BY JobTypes
    <3>2. staging'.text = None /\ staging'.file = writing'[j.of]
      BY <1>5, <3>1 DEF OpenReport
    <3>3. staging'.file # None
      BY <1>5, <3>1 DEF OpenReport, OnePublisher
    <3>4. QED
      BY <3>2, <3>3
  <2>2. j.stage = "open" /\ Becomes(j, "fill") /\ UNCHANGED <<latest, shared>>
    BY <1>5 DEF OpenReport
  <2>3. \A c \in Commands : writing'[c] \in {writing[c], staging'.file}
    BY <1>5 DEF OpenReport
  <2>4. QED
    BY <1>4, <2>1, <2>2, <2>3 DEF Publishing
<1>6. ASSUME NEW j \in jobs, FillReport(j) PROVE OnePublisher'
  <2>1. /\ j.stage = "fill" /\ Becomes(j, "move") /\ UNCHANGED <<writing, latest, shared>>
        /\ staging' = IF staging.file = writing[j.of]
                      THEN [staging EXCEPT !.text = IF @ = None THEN j.of ELSE Torn] ELSE staging
    BY <1>6 DEF FillReport
  <2>2. staging'.file = staging.file
    BY <2>1 DEF Reports
  <2>3. staging'.file = None => staging' = NoReport
    <3>1. CASE staging.file # None
      BY <2>2, <3>1
    <3>2. CASE staging.file = None /\ staging.file # writing[j.of]
      BY <2>1, <3>2 DEF OnePublisher
    <3>3. writing[j.of] # None
      BY <2>1 DEF OnePublisher, Publishing
    <3>4. QED
      BY <3>1, <3>2, <3>3
  <2>4. ~shared => staging'.text = j.of /\ staging'.file # None
    BY <2>1, <2>2 DEF OnePublisher, Reports, Publishing
  <2>5. QED
    BY <1>4, <2>1, <2>3, <2>4 DEF Publishing
<1>7. ASSUME NEW j \in jobs, MoveReport(j) \/ ReportFails(j) PROVE OnePublisher'
  <2>1. PICK ok \in BOOLEAN : EndsReport(j, ok)
    BY <1>7 DEF MoveReport, ReportFails
  <2>2. jobs' = jobs \ {j} /\ UNCHANGED <<writing, latest, shared>>
    BY <2>1 DEF EndsReport
  <2>3. staging' = NoReport \/ UNCHANGED staging
    BY <1>7 DEF MoveReport, ReportFails
  <2>4. j.stage \in Publishing
    BY <1>7 DEF MoveReport, ReportFails, Publishing
  <2>5. ASSUME NEW i \in jobs', i.stage \in Publishing
        PROVE  shared /\ at'[i.of] \in {"publishing", "died"}
    <3>1. i # j /\ i \in jobs
      BY <2>2
    <3>2. shared /\ i.of # j.of /\ at[i.of] \in {"publishing", "died"}
      BY <2>4, <2>5, <3>1 DEF OnePublisher
    <3>3. QED
      BY <2>1, <3>2, JobTypes DEF EndsReport
  <2>6. staging'.file = None => staging' = NoReport
    BY <2>3 DEF OnePublisher
  <2>7. QED
    BY <2>2, <2>5, <2>6 DEF OnePublisher
<1>8. ASSUME NEW j \in jobs, Script(j) PROVE OnePublisher'
  <2>1. CASE Present(j) \/ CurlFails(j) \/ NothingToResume(j) \/ Fetched(j)
    <3>1. PICK ok \in BOOLEAN : EndsFetch(j, ok)
      BY <2>1 DEF Present, CurlFails, NothingToResume, Fetched
    <3>2. jobs' \subseteq jobs /\ UNCHANGED reportVars
      BY <3>1 DEF EndsFetch
    <3>3. \A c \in Commands : at'[c] = at[c] \/ at[c] = "fetching"
      <4>1. CASE at[j.of] = "fetching" /\ Current(j.of) = j.entry
        BY <3>1, <4>1, JobTypes DEF EndsFetch, GoOn
      <4>2. CASE ~(at[j.of] = "fetching" /\ Current(j.of) = j.entry)
        BY <3>1, <4>2 DEF EndsFetch
      <4>3. QED
        BY <4>1, <4>2
    <3>4. QED
      BY <1>1, <3>2, <3>3 DEF reportVars
  <2>2. CASE NotPresent(j) \/ Transfer(j)
    <3>1. PICK stage \in Fetching : Becomes(j, stage)
      BY <2>2 DEF NotPresent, Transfer, Fetching
    <3> DEFINE k == [j EXCEPT !.stage = stage]
    <3>2. k.stage \notin Publishing
      BY JobTypes DEF Fetching, Publishing
    <3>3. jobs' = (jobs \ {j}) \union {k} /\ UNCHANGED <<clientVars, reportVars>>
      BY <2>2, <3>1 DEF Becomes, NotPresent, Transfer
    <3> HIDE DEF k
    <3>4. QED
      BY <1>1, <3>2, <3>3 DEF clientVars, reportVars
  <2>3. QED
    BY <1>5, <1>6, <1>7, <1>8, <2>1, <2>2 DEF Script
<1>9. CASE UNCHANGED assetVars
  BY <1>1, <1>9 DEF assetVars, clientVars, reportVars
<1>10. QED
  BY <1>2, <1>3, <1>8, <1>9 DEF AssetsNext

(* Only the last check writes to the report that it has published.         *)
LEMMA ReportPreserved ==
  AssetsTypeOK /\ OnePublisher /\ ReportStands /\ [AssetsNext]_assetVars => ReportStands'
<1> SUFFICES ASSUME AssetsTypeOK, OnePublisher, ReportStands, [AssetsNext]_assetVars,
                    ~shared', latest' # None, at'[latest'] \in {"healthy", "issues"}
             PROVE  health'.text = latest'
  BY DEF ReportStands
<1> USE AssetsAssumption DEF AssetsTypeOK
<1>1. CASE UNCHANGED <<latest, shared, health>> /\ at[latest] \in {"healthy", "issues"}
  BY <1>1 DEF ReportStands
<1>2. ASSUME NEW c \in Commands, Client(c) PROVE health'.text = latest'
  <2>1. CASE SendReport(c)
    BY <2>1 DEF SendReport
  <2>2. CASE SkipEntry(c) \/ FetchTimesOut(c) \/ Probe(c)
    <3>1. PICK place \in {"fetch", "probe"} : \E missed : GoOn(c, missed, place)
      BY <2>2 DEF SkipEntry, FetchTimesOut, Probe
    <3>2. UNCHANGED reportVars
      BY <2>2 DEF SkipEntry, FetchTimesOut, Probe
    <3>3. QED
      BY <1>1, <3>1, <3>2 DEF GoOn, reportVars
  <2>3. CASE Reconcile(c) \/ SendFetch(c) \/ FetchesEnd(c) \/ Check(c) \/ Die(c) \/ PodGone(c)
    BY <1>1, <2>3 DEF Reconcile, SendFetch, FetchesEnd, Check, Die, PodGone, reportVars, clientVars
  <2>4. QED
    BY <1>2, <2>1, <2>2, <2>3 DEF Client
<1>3. ASSUME NEW j \in jobs, Script(j) PROVE health'.text = latest'
  <2>1. CASE Continues(j) /\ j.stage \in Publishing
    <3>1. ~shared /\ latest' = latest /\ at' = at
      BY <1>3, <2>1, ScriptSteps DEF Continues, clientVars, Script, Present, NotPresent, Transfer,
         Fetched, CurlFails, NothingToResume, OpenReport, FillReport, MoveReport, ReportFails,
         EndsReport, EndsFetch, reportVars
    <3>2. j.of = latest /\ at[j.of] \in {"publishing", "died"}
      BY <2>1, <3>1 DEF OnePublisher
    <3>3. QED
      BY <3>1, <3>2
  <2>2. CASE j.stage \in Fetching
    <3>1. UNCHANGED reportVars
      BY <1>3, <2>2 DEF Script, Present, NotPresent, Transfer, Fetched, CurlFails, EndsFetch,
                     NothingToResume, OpenReport, FillReport, MoveReport, ReportFails, Fetching,
                     Publishing
    <3>2. \A c \in Commands : at'[c] \in {at[c], "fetch"}
      <4>1. CASE Continues(j)
        BY <4>1 DEF Continues, clientVars
      <4>2. ASSUME NEW ok \in BOOLEAN, EndsFetch(j, ok)
            PROVE  \A c \in Commands : at'[c] \in {at[c], "fetch"}
        BY <4>2, JobTypes DEF EndsFetch, GoOn
      <4>3. QED
        BY <1>3, <2>2, <4>1, <4>2, ScriptSteps DEF Fetching, Publishing
    <3>3. QED
      BY <1>1, <3>1, <3>2 DEF reportVars
  <2>3. CASE MoveReport(j)
    <3>1. ~shared /\ UNCHANGED latest
      BY <2>3 DEF MoveReport, EndsReport
    <3>2. staging.text = latest
      BY <2>3, <3>1 DEF MoveReport, OnePublisher, Publishing
    <3>3. QED
      BY <2>3, <3>1, <3>2 DEF MoveReport
  <2>4. CASE ReportFails(j)
    BY <1>1, <2>4, JobTypes DEF ReportFails, EndsReport
  <2>5. QED
    BY <1>3, <2>1, <2>2, <2>3, <2>4, ScriptSteps DEF Continues
<1>4. CASE UNCHANGED assetVars
  BY <1>1, <1>4 DEF assetVars, clientVars, reportVars
<1>5. QED
  BY <1>2, <1>3, <1>4 DEF AssetsNext

-----------------------------------------------------------------------------
(* The invariant of the assets and the report, for every behaviour.        *)
LEMMA AssetsInvariant == AssetsSpec => []AssetsIInv
<1>1. AssetsIInv /\ [AssetsNext]_assetVars => AssetsIInv'
  BY AssetsTypesPreserved, BeginningsPreserved, FetchJobsPreserved, PassedPreserved,
     BegunPreserved, WritersPreserved, OnePublisherPreserved, FoundPreserved, IncompletePreserved,
     ReportPreserved
  DEF AssetsIInv
<1>2. QED
  BY <1>1, InitAssets, PTL DEF AssetsSpec

(* Every variable of the asset commands keeps its type.                    *)
THEOREM AssetsTypeCorrect == AssetsSpec => []AssetsTypeOK
<1>1. AssetsIInv => AssetsTypeOK
  BY DEF AssetsIInv
<1>2. QED
  BY <1>1, AssetsInvariant, PTL

(* No named entry that a reconcile exited 0 for is missing in a later check*)
(* that got its answers, for any manifests and any number of commands.     *)
THEOREM WhatIsReconciledIsFound == AssetsSpec => []ReconciledIsFound
<1>1. AssetsIInv => ReconciledIsFound
  BY DEF AssetsIInv
<1>2. QED
  BY <1>1, AssetsInvariant, PTL

(* The reconcile whose transfer left an incomplete file, or last resumed   *)
(* it, counts that entry among its own faults, unless it died itself.      *)
THEOREM WhatIsIncompleteIsReported == AssetsSpec => []IncompleteIsReported
<1>1. AssetsIInv => IncompleteIsReported
  BY DEF AssetsIInv
<1>2. QED
  BY <1>1, AssetsInvariant, PTL

(* Unless two checks publish at once, the last report published stands.    *)
THEOREM LastReportStands == AssetsSpec => []ReportStands
<1>1. AssetsIInv => ReportStands
  BY DEF AssetsIInv
<1>2. QED
  BY <1>1, AssetsInvariant, PTL

=============================================================================
