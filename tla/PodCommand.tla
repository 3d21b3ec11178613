----------------------------- MODULE PodCommand -----------------------------
(***************************************************************************)
(* The commands of cli.py that bring up a pod of their own: "prebuilt      *)
(* build" with its loop that replaces builders which never become ready,   *)
(* "prebuilt inspect" and "invalidate", which launch inside their try, the *)
(* "prebuilt check" and "reconcile" that launch through                    *)
(* _launch_prebuilt_probe_pod, and "launch" with or without --probe-only.  *)
(* The question is which pods each of them leaves behind, and whether it   *)
(* says so.  Launching and terminating behave as in Launch and Terminate.  *)
(***************************************************************************)
EXTENDS Integers, Sequences

CONSTANTS
  Kinds,      \* commands considered: "build", "inline", "probe", "hold", "claim"
  Patience,   \* --capacity-wait-sec; 0 is a single attempt
  Interval,   \* --capacity-retry-interval-sec
  Listings,   \* the account's volumes, in the order the provider lists them
  Durations,  \* how long launching or waiting for readiness may take
  MaxSignals  \* bound: interrupts delivered to the command

ASSUME CommandAssumption ==
  /\ Kinds \subseteq {"build", "inline", "probe", "hold", "claim"}
  /\ Patience \in Nat /\ Interval \in Nat \ {0}
  /\ Listings \subseteq Seq([named : BOOLEAN, here : BOOLEAN])
  /\ Durations \subseteq Nat /\ Durations # {} /\ MaxSignals \in Nat

VARIABLES
  kind,      \* the command
  listing,   \* volumes: has each the name asked for, is it in the data center
  volume,    \* the volume its last pod is attached to, by place in listing
  pc,        \* where it is
  launched,  \* pods created for it so far
  alive,     \* provider: pods that are up
  leaving,   \* provider: pods whose deletion was accepted
  podObj,    \* pod_obj: the pod the command is responsible for, 0 for None
  failed,    \* failed_pod: the unready builder being dropped
  warned,    \* pods whose failed termination was printed
  tried,     \* pods terminate() was called for (history)
  unknown,   \* a create may have allocated a pod whose id is not known
  cut,       \* an interrupt hit a launch or a terminate (history)
  signals,   \* interrupts so far
  now,       \* time since the command began
  late,      \* launches begun at or after the deadline (history)
  exit       \* how the command ended

choiceVars == <<kind, listing>>
podVars == <<launched, alive, leaving>>
custodyVars == <<podObj, failed, warned, tried, unknown>>
timeVars == <<now, late>>
vars == <<choiceVars, volume, pc, podVars, custodyVars, cut, signals, timeVars, exit>>

Places == {"select", "launch", "ready", "drop", "again", "work", "hold", "finally", "done"}

TypeOK ==
  /\ kind \in Kinds /\ pc \in Places
  /\ listing \in Listings /\ volume \in 0..Len(listing)
  /\ launched \in Nat /\ alive \subseteq 1..launched /\ leaving \subseteq 1..launched
  /\ podObj \in 0..launched /\ failed \in 0..launched
  /\ warned \subseteq 1..launched /\ tried \subseteq 1..launched
  /\ unknown \in BOOLEAN /\ cut \in BOOLEAN /\ signals \in 0..MaxSignals
  /\ now \in Nat /\ late \in Nat
  /\ exit \in {"open", "ok", "error", "interrupted", "released"}

Init ==
  /\ kind \in Kinds /\ pc = "select" /\ listing \in Listings /\ volume = 0
  /\ launched = 0 /\ alive = {} /\ leaving = {}
  /\ podObj = 0 /\ failed = 0 /\ warned = {} /\ tried = {} /\ unknown = FALSE
  /\ cut = FALSE /\ signals = 0 /\ now = 0 /\ late = 0 /\ exit = "open"

-----------------------------------------------------------------------------
Leave(place, how) == pc' = place /\ exit' = how
Goto(place) == pc' = place /\ UNCHANGED exit

(* terminate() of one pod: gone, still listed after it was accepted, or an *)
(* error behind which the deletion may have been accepted all the same.    *)
Terminate(p) ==
  /\ tried' = tried \union {p}
  /\ \/ alive' = alive \ {p} /\ leaving' = leaving \ {p} /\ UNCHANGED warned
     \/ /\ warned' = warned \union {p}
        /\ \/ alive' = alive \ {p} /\ leaving' = leaving \union {p}
           \/ UNCHANGED <<alive, leaving>>

-----------------------------------------------------------------------------
Named == {i \in DOMAIN listing : listing[i].named}

(* Fault: the data center of a volume with the right name is not compared. *)
SelectedAnywhere == Named

(* select_prebuilt_volume with a name and a data center: any match will    *)
(* do, for the id of the one it returns is not used.                       *)
Selected == {i \in Named : listing[i].here}

(* The volumes are listed: build, check and reconcile select one, inspect  *)
(* and invalidate take the name alone; none is an error, as is a failure.  *)
Select ==
  /\ pc = "select"
  /\ \/ /\ kind \in {"build", "probe"} => Selected # {}
        /\ kind = "inline" => Named # {}
        /\ Goto("launch")
     \/ kind \notin {"hold", "claim"} /\ Leave("finally", "error")
  /\ UNCHANGED <<choiceVars, volume, podVars, custodyVars, cut, signals, timeVars>>

(* get_storage_volume_id: the first volume that has the name.              *)
Resolved == IF Named = {} THEN {0} ELSE {i \in Named : \A j \in Named : i <= j}

(* launch or launch_when_available, which resolve the name anew.  A pod is *)
(* bound to pod_obj as soon as it is returned, except by                   *)
(* _launch_prebuilt_probe_pod, which waits for readiness first.            *)
Launch ==
  /\ pc = "launch"
  /\ volume' \in Resolved
  /\ now' \in {now + d : d \in Durations}
  /\ late' = late + (IF Patience > 0 /\ now >= Patience THEN 1 ELSE 0)
  /\ \/ /\ launched' = launched + 1
        /\ alive' = alive \union {launched + 1}
        /\ podObj' = IF kind = "probe" THEN 0 ELSE launched + 1
        /\ Goto(IF kind = "claim" THEN "finally" ELSE "ready")
        /\ UNCHANGED unknown
     \/ /\ unknown' = TRUE
        /\ launched' = launched + 1 /\ alive' \in {alive, alive \union {launched + 1}}
        /\ Leave("finally", "error") /\ UNCHANGED podObj
     \/ Leave("finally", "error") /\ UNCHANGED <<launched, alive, podObj, unknown>>
  /\ UNCHANGED <<choiceVars, leaving, failed, warned, tried, cut, signals>>

(* wait_ready returns: the pod is put to work, held, or left (--detach).   *)
Ready ==
  /\ pc = "ready"
  /\ now' \in {now + d : d \in Durations}
  /\ podObj' = launched
  /\ \/ kind \in {"build", "inline", "probe"} /\ Goto("work")
     \/ kind = "hold" /\ (Goto("hold") \/ Leave("done", "ok"))
  /\ UNCHANGED <<choiceVars, volume, podVars, failed, warned, tried, unknown, cut, signals, late>>

(* Fault: pod_obj is cleared before it is saved in failed_pod.             *)
NotReadyForgets ==
  /\ pc = "ready" /\ kind = "build"
  /\ now' \in {now + d : d \in Durations}
  /\ failed' = 0 /\ podObj' = 0 /\ Goto("drop")
  /\ UNCHANGED <<choiceVars, volume, podVars, warned, tried, unknown, cut, signals, late>>

(* wait_ready raises.  Only the build has a handler of its own.            *)
NotReady ==
  /\ pc = "ready"
  /\ now' \in {now + d : d \in Durations}
  /\ IF kind = "build"
     THEN failed' = podObj /\ podObj' = 0 /\ Goto("drop")
     ELSE /\ IF kind = "hold" THEN Leave("done", "error") ELSE Leave("finally", "error")
          /\ UNCHANGED <<failed, podObj>>
  /\ UNCHANGED <<choiceVars, volume, podVars, warned, tried, unknown, cut, signals, late>>

(* The unready builder is terminated; if that fails it is only a warning.  *)
Drop ==
  /\ pc = "drop"
  /\ Terminate(failed)
  /\ Goto("again")
  /\ UNCHANGED <<choiceVars, volume, launched, podObj, failed, unknown, cut, signals, timeVars>>

(* Fault: the deadline is not tested.                                      *)
AgainUntested ==
  /\ pc = "again"
  /\ Goto("launch") /\ now' = now + Interval
  /\ UNCHANGED <<choiceVars, volume, podVars, custodyVars, cut, signals, late>>

(* Without time left the exception goes on to finally, else launch again.  *)
Again ==
  /\ pc = "again"
  /\ IF Patience = 0 \/ now >= Patience
     THEN Leave("finally", "error") /\ UNCHANGED now
     ELSE Goto("launch") /\ now' = now + Interval
  /\ UNCHANGED <<choiceVars, volume, podVars, custodyVars, cut, signals, late>>

(* SSH, lock, extraction, build, probes: it succeeds or raises.            *)
Work ==
  /\ pc = "work"
  /\ \E how \in {"ok", "error"} : Leave("finally", how)
  /\ UNCHANGED <<choiceVars, volume, podVars, custodyVars, cut, signals, timeVars>>

(* Fault: finally waits for deletions that are still pending.              *)
FinallyWaits ==
  /\ pc = "finally" /\ leaving = {}
  /\ pc' = "done"
  /\ IF podObj = 0 THEN UNCHANGED <<alive, leaving, warned, tried>> ELSE Terminate(podObj)
  /\ exit' = IF exit = "open" THEN (IF warned' = warned THEN "ok" ELSE "error") ELSE exit
  /\ UNCHANGED <<choiceVars, volume, launched, podObj, failed, unknown, cut, signals, timeVars>>

(* finally, and the claim of --probe-only: terminate the pod if there is   *)
(* one, and print a warning if that fails.                                 *)
Finally ==
  /\ pc = "finally"
  /\ pc' = "done"
  /\ IF podObj = 0 THEN UNCHANGED <<alive, leaving, warned, tried>> ELSE Terminate(podObj)
  /\ exit' = IF exit = "open" THEN (IF warned' = warned THEN "ok" ELSE "error") ELSE exit
  /\ UNCHANGED <<choiceVars, volume, launched, podObj, failed, unknown, cut, signals, timeVars>>

(* Ctrl-C: asyncio.run cancels the command's task.  No handler of cli.py   *)
(* catches CancelledError; finally blocks run.  A create or a DELETE being *)
(* awaited goes on in its thread.                                          *)
Interrupt ==
  /\ pc \notin {"done", "select"} /\ signals < MaxSignals
  /\ signals' = signals + 1
  /\ cut' = (cut \/ pc \in {"launch", "drop", "finally"})
  /\ IF pc = "hold" THEN Leave("done", "released")
     ELSE IF pc = "finally" \/ (kind = "hold" /\ pc \in {"launch", "ready"})
          \/ (kind = "claim" /\ pc = "launch")
     THEN Leave("done", "interrupted") ELSE Leave("finally", "interrupted")
  /\ \/ UNCHANGED <<launched, alive>>
     \/ pc = "launch" /\ launched' = launched + 1 /\ alive' = alive \union {launched + 1}
  /\ UNCHANGED <<choiceVars, volume, leaving, custodyVars, timeVars>>

(* The provider completes a deletion.                                      *)
FinishDeletion ==
  /\ \E p \in leaving : leaving' = leaving \ {p}
  /\ UNCHANGED <<choiceVars, volume, pc, launched, alive, custodyVars, cut, signals, timeVars, exit>>

Step == Select \/ Launch \/ Ready \/ NotReady \/ Drop \/ Again \/ Work \/ Finally

Next == Step \/ Interrupt \/ FinishDeletion

(* Every call of a step is bounded by a timeout of its own.                *)
Spec == Init /\ [][Next]_vars /\ WF_vars(Step)

-----------------------------------------------------------------------------
(* When a command is over, each pod that is still there was reported by a  *)
(* warning, unless an interrupt cut a launch or a terminate short or the   *)
(* launch itself said that its allocation is unknown.                      *)
NothingSilent ==
  pc = "done" /\ ~cut /\ ~unknown => alive \union leaving \subseteq warned

(* Whichever step failed, so it is for build, inspect or invalidate, and   *)
(* launch --probe-only.                                                    *)
NoSilentPod == kind \in {"build", "inline", "claim"} => NothingSilent

(* Build, check and reconcile work on the volume of the data center they   *)
(* were given, unless two volumes of the account have its name: the name   *)
(* is checked against one listing and resolved by another function, and    *)
(* the id found in between is dropped (cli.py:988-1030, 1585-1612).        *)
RightVolume ==
  kind \in {"build", "probe"} /\ volume # 0 /\ (\A i, j \in Named : i = j) =>
    listing[volume].here

(* The build's wait for capacity is bounded: at most one launch starts at  *)
(* or after its deadline (cli.py:1615-1641).                               *)
AtMostOneLateBuild == late <= 1

(* Every command comes to its end, or to holding a pod that is up.         *)
CommandEnds == <>(pc \in {"done", "hold"})

-----------------------------------------------------------------------------
(* Claims of the documentation that the code does not keep; the README     *)
(* describes the counterexamples.                                          *)

(* "Issuing a new create while cleanup is unresolved would violate         *)
(* provider-resource custody" (errors.py:80-82).                           *)
NoCreateWhileCleaning == pc = "launch" => leaving = {}

(* "Reconcile launches a short-lived pod only to hydrate model assets"     *)
(* (README.md:314): its pod is terminated or reported.                     *)
ProbePodIsShortLived == kind = "probe" => NothingSilent

(* "Pod ... is running. Press Ctrl-C to terminate." (cli.py:436): a command *)
(* interrupted while it holds its pod has tried to terminate it.           *)
CtrlCTerminates == exit = "released" => podObj \in tried

=============================================================================
