---------------------------- MODULE RunnerProofs ----------------------------
(***************************************************************************)
(* The two ways of running of runner.py.  What a result of ship_and_run    *)
(* says of its pod, for any number of cancellations: the safety properties *)
(* of ShipAndRun from one inductive invariant that keeps together the      *)
(* guard, its watchdog and the provider.  And what ship_and_run_detached   *)
(* returns, for any number of sessions that share a pod.                   *)
(***************************************************************************)
EXTENDS ShipAndRun, DetachedRun, TLAPS

(* Before launch() returns there is nothing to terminate and no watchdog.  *)
Unlaunched ==
  pc = "launch" => /\ ~guardPod /\ wd = "none" /\ pod = "none" /\ ~creating
                   /\ ~result.terminated /\ strays = {} /\ \A t \in Tasks : tpc[t] = "off"

(* The guard's pod exists, the result carries it, and no thread is still   *)
(* creating another.                                                       *)
Bound == guardPod => pod # "none" /\ ~creating /\ result.pod

(* The watchdog has recorded nothing before it fired.                      *)
Armed == wd \in {"none", "sleeping"} => breaches = 0

(* Without terminate_after_exec nobody ever sends a DELETE.                *)
Kept ==
  ~terminateAfter => /\ pod \in {"none", "up"} /\ strays = {} /\ pc # "terminate"
                     /\ \A t \in Tasks : tpc[t] = "off"

ResultType ==
  [rc : {"unset", "gpu", "script", "130"}, terminated : BOOLEAN, pod : BOOLEAN, breaches : 0..1]

IInv ==
  /\ TypeOK /\ Unlaunched /\ Bound /\ Armed /\ Kept
  /\ TerminatedMeansGone /\ NoSilentSurvivor
-----------------------------------------------------------------------------
(* Nothing has happened at the start.                                      *)
LEMMA InitIInv == Init => IInv
<1> SUFFICES ASSUME Init PROVE IInv
  OBVIOUS
<1>1. TypeOK
  <2>1. /\ guardPod \in BOOLEAN /\ wdFailed \in BOOLEAN /\ swallowed \in BOOLEAN
        /\ creating \in BOOLEAN /\ terminateAfter \in BOOLEAN
    BY DEF Init
  <2>2. result \in ResultType
    BY DEF Init, ResultType
  <2>3. QED
    BY <2>1, <2>2, ShipAssumption DEF Init, TypeOK, Places, Tasks, ResultType
<1>2. Unlaunched /\ Bound /\ Armed /\ Kept
  BY DEF Init, Unlaunched, Bound, Armed, Kept, Tasks
<1>3. TerminatedMeansGone /\ NoSilentSurvivor
  BY DEF Init, TerminatedMeansGone, NoSilentSurvivor
<1>4. QED
  BY <1>1, <1>2, <1>3 DEF IInv

(* The end of the coroutine fills in the result.                           *)
LEMMA DoneType ==
  ASSUME NEW terminated \in BOOLEAN, TypeOK, Done(terminated)
  PROVE  result' \in ResultType /\ pc' = "done"
BY DEF Done, TypeOK, ResultType

(* A phase is never followed by the end.                                   *)
LEMMA FollowingPhase ==
  ASSUME PhaseSucceeds PROVE pc' \in {"gpu", "upload", "exec"}
BY DEF PhaseSucceeds, Following

(* Every step keeps the types; the watchdog records at most one breach.    *)
LEMMA TypesPreserved == TypeOK /\ Armed /\ [Next]_vars => TypeOK'
<1> SUFFICES ASSUME TypeOK, Armed, [Next]_vars PROVE TypeOK'
  OBVIOUS
<1> USE ShipAssumption
    DEF TypeOK, Armed, Places, Tasks, runVars, mainVars, guardVars, cloudVars
<1>1. CASE LaunchReturns
  BY <1>1 DEF LaunchReturns
<1>2. CASE LaunchRaises
  BY <1>2 DEF LaunchRaises, Leave
<1>3. CASE PhaseSucceeds
  BY <1>3 DEF PhaseSucceeds, Following
<1>4. CASE CommandReturns
  BY <1>4 DEF CommandReturns, Leave
<1>5. CASE PhaseRaises
  BY <1>5 DEF PhaseRaises, Leave
<1>6. CASE Upload
  BY <1>6 DEF Upload, UploadSucceeds
<1>7. CASE CancelBody
  <2>1. creating' \in BOOLEAN
    BY <1>7 DEF CancelBody
  <2>2. QED
    BY <1>7, <2>1 DEF CancelBody, Leave
<1>8. CASE Finally
  <2>1. result' \in ResultType /\ pc' \in Places
    BY <1>8, DoneType DEF Finally, ResultType
  <2>2. wd' \in {"none", "sleeping", "terminating", "ended"} /\ strays' \subseteq Tasks
    BY <1>8 DEF Finally
  <2>3. tpc' \in [Tasks -> {"off", "delete", "verify"}]
    BY <1>8 DEF Finally
  <2>4. QED
    BY <1>8, <2>1, <2>2, <2>3 DEF Finally, ResultType
<1>9. CASE CancelFinally
  BY <1>9 DEF CancelFinally
<1>10. CASE WatchdogFires
  BY <1>10 DEF WatchdogFires, LoopBlocked
<1>11. ASSUME NEW t \in Tasks, Terminating(t) PROVE TypeOK'
  <2>1. CASE DeleteAccepted(t)
    BY <2>1 DEF DeleteAccepted, DeleteEffect
  <2>2. CASE Acknowledged(t)
    <3>1. result' \in ResultType /\ pc' \in Places
      BY <2>2, DoneType DEF Acknowledged, ResultType
    <3>2. QED
      BY <2>2, <3>1 DEF Acknowledged, ResultType
  <2>3. CASE TerminateRaises(t)
    <3>1. result' \in ResultType /\ pc' \in Places
      BY <2>3, DoneType DEF TerminateRaises, ResultType
    <3>2. swallowed' \in BOOLEAN /\ wdFailed' \in BOOLEAN
      BY <2>3 DEF TerminateRaises
    <3>3. QED
      BY <2>3, <3>1, <3>2 DEF TerminateRaises, DeleteEffect, ResultType
  <2>4. QED
    BY <1>11, <2>1, <2>2, <2>3 DEF Terminating
<1>12. CASE LateCreate
  <2>1. creating' \in BOOLEAN
    BY <1>12 DEF LateCreate
  <2>2. QED
    BY <1>12, <2>1 DEF LateCreate
<1>13. CASE StrayDelete
  BY <1>13 DEF StrayDelete, DeleteEffect
<1>14. CASE FinishDeletion
  BY <1>14 DEF FinishDeletion
<1>15. CASE UNCHANGED vars
  BY <1>15 DEF vars
<1>16. QED
  BY <1>1, <1>2, <1>3, <1>4, <1>5, <1>6, <1>7, <1>8, <1>9, <1>10, <1>11, <1>12, <1>13, <1>14, <1>15
  DEF Next, Body

(* The watchdog starts unused, and fires once.                             *)
LEMMA ArmedPreserved == TypeOK /\ Unlaunched /\ Armed /\ [Next]_vars => Armed'
<1> SUFFICES ASSUME TypeOK, Unlaunched, Armed, [Next]_vars PROVE Armed'
  OBVIOUS
<1> USE DEF TypeOK, Armed, Unlaunched, runVars, mainVars, guardVars, cloudVars
<1>1. CASE LaunchReturns
  BY <1>1 DEF LaunchReturns
<1>2. CASE LaunchRaises
  BY <1>2 DEF LaunchRaises, Leave
<1>3. CASE PhaseSucceeds
  BY <1>3 DEF PhaseSucceeds, Following
<1>4. CASE CommandReturns
  BY <1>4 DEF CommandReturns, Leave
<1>5. CASE PhaseRaises
  BY <1>5 DEF PhaseRaises, Leave
<1>6. CASE Upload
  BY <1>6 DEF Upload, UploadSucceeds
<1>7. CASE CancelBody
  BY <1>7 DEF CancelBody, Leave
<1>8. CASE Finally
  BY <1>8 DEF Finally, Done
<1>9. CASE CancelFinally
  BY <1>9 DEF CancelFinally
<1>10. CASE WatchdogFires
  BY <1>10 DEF WatchdogFires, LoopBlocked
<1>11. ASSUME NEW t \in Tasks, Terminating(t) PROVE Armed'
  <2>1. CASE DeleteAccepted(t)
    BY <2>1 DEF DeleteAccepted, DeleteEffect
  <2>2. CASE Acknowledged(t)
    BY <2>2 DEF Acknowledged, Done, LoopBlocked
  <2>3. CASE TerminateRaises(t)
    BY <2>3 DEF TerminateRaises, Done, DeleteEffect, LoopBlocked
  <2>4. QED
    BY <1>11, <2>1, <2>2, <2>3 DEF Terminating
<1>12. CASE LateCreate
  BY <1>12 DEF LateCreate
<1>13. CASE StrayDelete
  BY <1>13 DEF StrayDelete, DeleteEffect
<1>14. CASE FinishDeletion
  BY <1>14 DEF FinishDeletion
<1>15. CASE UNCHANGED vars
  BY <1>15 DEF vars
<1>16. QED
  BY <1>1, <1>2, <1>3, <1>4, <1>5, <1>6, <1>7, <1>8, <1>9, <1>10, <1>11, <1>12, <1>13, <1>14, <1>15
  DEF Next, Body

(* Only launching binds a pod or arms the watchdog.                        *)
LEMMA BoundPreserved ==
  TypeOK /\ Unlaunched /\ Bound /\ [Next]_vars => Unlaunched' /\ Bound'
<1> SUFFICES ASSUME TypeOK, Unlaunched, Bound, [Next]_vars PROVE (Unlaunched /\ Bound)'
  OBVIOUS
<1> USE DEF TypeOK, Unlaunched, Bound, Places, Tasks, runVars, mainVars, guardVars, cloudVars
<1>1. CASE LaunchReturns
  BY <1>1 DEF LaunchReturns
<1>2. CASE LaunchRaises
  BY <1>2 DEF LaunchRaises, Leave
<1>3. CASE PhaseSucceeds
  BY <1>3 DEF PhaseSucceeds, Following
<1>4. CASE CommandReturns
  BY <1>4 DEF CommandReturns, Leave
<1>5. CASE PhaseRaises
  BY <1>5 DEF PhaseRaises, Leave
<1>6. CASE Upload
  BY <1>6 DEF Upload, UploadSucceeds
<1>7. CASE CancelBody
  BY <1>7 DEF CancelBody, Leave
<1>8. CASE Finally
  BY <1>8 DEF Finally, Done
<1>9. CASE CancelFinally
  BY <1>9 DEF CancelFinally
<1>10. CASE WatchdogFires
  BY <1>10 DEF WatchdogFires, LoopBlocked
<1>11. ASSUME NEW t \in Tasks, Terminating(t) PROVE (Unlaunched /\ Bound)'
  <2>1. CASE DeleteAccepted(t)
    BY <2>1 DEF DeleteAccepted, DeleteEffect
  <2>2. CASE Acknowledged(t)
    BY <2>2 DEF Acknowledged, Done, LoopBlocked
  <2>3. CASE TerminateRaises(t)
    BY <2>3 DEF TerminateRaises, Done, DeleteEffect, LoopBlocked
  <2>4. QED
    BY <1>11, <2>1, <2>2, <2>3 DEF Terminating
<1>12. CASE LateCreate
  BY <1>12 DEF LateCreate
<1>13. CASE StrayDelete
  BY <1>13 DEF StrayDelete, DeleteEffect
<1>14. CASE FinishDeletion
  BY <1>14 DEF FinishDeletion
<1>15. CASE UNCHANGED vars
  BY <1>15 DEF vars
<1>16. QED
  BY <1>1, <1>2, <1>3, <1>4, <1>5, <1>6, <1>7, <1>8, <1>9, <1>10, <1>11, <1>12, <1>13, <1>14, <1>15
  DEF Next, Body

(* Whoever sends a DELETE was told to terminate.                           *)
LEMMA KeptPreserved == TypeOK /\ Unlaunched /\ Kept /\ [Next]_vars => Kept'
<1> SUFFICES ASSUME TypeOK, Unlaunched, Kept, [Next]_vars PROVE Kept'
  OBVIOUS
<1> USE DEF TypeOK, Unlaunched, Kept, Places, Tasks, runVars, mainVars, guardVars, cloudVars
<1>1. CASE LaunchReturns
  BY <1>1 DEF LaunchReturns
<1>2. CASE LaunchRaises
  BY <1>2 DEF LaunchRaises, Leave
<1>3. CASE PhaseSucceeds
  BY <1>3 DEF PhaseSucceeds, Following
<1>4. CASE CommandReturns
  BY <1>4 DEF CommandReturns, Leave
<1>5. CASE PhaseRaises
  BY <1>5 DEF PhaseRaises, Leave
<1>6. CASE Upload
  BY <1>6 DEF Upload, UploadSucceeds
<1>7. CASE CancelBody
  BY <1>7 DEF CancelBody, Leave
<1>8. CASE Finally
  BY <1>8 DEF Finally, Done
<1>9. CASE CancelFinally
  BY <1>9 DEF CancelFinally
<1>10. CASE WatchdogFires
  BY <1>10 DEF WatchdogFires, LoopBlocked
<1>11. ASSUME NEW t \in Tasks, Terminating(t) PROVE Kept'
  <2>1. CASE DeleteAccepted(t)
    BY <2>1 DEF DeleteAccepted, DeleteEffect
  <2>2. CASE Acknowledged(t)
    BY <2>2 DEF Acknowledged, Done, LoopBlocked
  <2>3. CASE TerminateRaises(t)
    BY <2>3 DEF TerminateRaises, Done, DeleteEffect, LoopBlocked
  <2>4. QED
    BY <1>11, <2>1, <2>2, <2>3 DEF Terminating
<1>12. CASE LateCreate
  BY <1>12 DEF LateCreate
<1>13. CASE StrayDelete
  BY <1>13 DEF StrayDelete, DeleteEffect
<1>14. CASE FinishDeletion
  BY <1>14 DEF FinishDeletion
<1>15. CASE UNCHANGED vars
  BY <1>15 DEF vars
<1>16. QED
  BY <1>1, <1>2, <1>3, <1>4, <1>5, <1>6, <1>7, <1>8, <1>9, <1>10, <1>11, <1>12, <1>13, <1>14, <1>15
  DEF Next, Body

(* A pod that is gone stays gone once no create is under way, and the      *)
(* coroutine says terminated only of a pod it has seen gone.               *)
LEMMA GonePreserved ==
  TypeOK /\ Unlaunched /\ Bound /\ TerminatedMeansGone /\ [Next]_vars => TerminatedMeansGone'
<1> SUFFICES ASSUME TypeOK, Unlaunched, Bound, TerminatedMeansGone, [Next]_vars
             PROVE TerminatedMeansGone'
  OBVIOUS
<1> USE DEF TypeOK, Unlaunched, Bound, TerminatedMeansGone, Places, Tasks,
            runVars, mainVars, guardVars, cloudVars
<1>1. CASE LaunchReturns
  BY <1>1 DEF LaunchReturns
<1>2. CASE LaunchRaises
  BY <1>2 DEF LaunchRaises, Leave
<1>3. CASE PhaseSucceeds
  BY <1>3 DEF PhaseSucceeds, Following
<1>4. CASE CommandReturns
  BY <1>4 DEF CommandReturns, Leave
<1>5. CASE PhaseRaises
  BY <1>5 DEF PhaseRaises, Leave
<1>6. CASE Upload
  BY <1>6 DEF Upload, UploadSucceeds
<1>7. CASE CancelBody
  BY <1>7 DEF CancelBody, Leave
<1>8. CASE Finally
  BY <1>8 DEF Finally, Done
<1>9. CASE CancelFinally
  BY <1>9 DEF CancelFinally
<1>10. CASE WatchdogFires
  BY <1>10 DEF WatchdogFires, LoopBlocked
<1>11. ASSUME NEW t \in Tasks, Terminating(t) PROVE TerminatedMeansGone'
  <2>1. CASE DeleteAccepted(t)
    BY <2>1 DEF DeleteAccepted, DeleteEffect
  <2>2. CASE Acknowledged(t)
    BY <2>2 DEF Acknowledged, Done, LoopBlocked
  <2>3. CASE TerminateRaises(t)
    BY <2>3 DEF TerminateRaises, Done, DeleteEffect, LoopBlocked
  <2>4. QED
    BY <1>11, <2>1, <2>2, <2>3 DEF Terminating
<1>12. CASE LateCreate
  BY <1>12 DEF LateCreate
<1>13. CASE StrayDelete
  BY <1>13 DEF StrayDelete, DeleteEffect
<1>14. CASE FinishDeletion
  BY <1>14 DEF FinishDeletion
<1>15. CASE UNCHANGED vars
  BY <1>15 DEF vars
<1>16. QED
  BY <1>1, <1>2, <1>3, <1>4, <1>5, <1>6, <1>7, <1>8, <1>9, <1>10, <1>11, <1>12, <1>13, <1>14, <1>15
  DEF Next, Body

(* The coroutine ends with the guard's pod still up only by an exception.  *)
LEMMA SurvivorPreserved ==
  TypeOK /\ Unlaunched /\ Bound /\ NoSilentSurvivor /\ [Next]_vars => NoSilentSurvivor'
<1> SUFFICES ASSUME TypeOK, Unlaunched, Bound, NoSilentSurvivor, [Next]_vars
             PROVE NoSilentSurvivor'
  OBVIOUS
<1> USE DEF TypeOK, Unlaunched, Bound, NoSilentSurvivor, Places, Tasks,
            runVars, mainVars, guardVars, cloudVars
<1>1. CASE LaunchReturns
  BY <1>1 DEF LaunchReturns
<1>2. CASE LaunchRaises
  BY <1>2 DEF LaunchRaises, Leave
<1>3. CASE PhaseSucceeds
  BY <1>3, FollowingPhase DEF PhaseSucceeds
<1>4. CASE CommandReturns
  BY <1>4 DEF CommandReturns, Leave
<1>5. CASE PhaseRaises
  BY <1>5 DEF PhaseRaises, Leave
<1>6. CASE Upload
  BY <1>6 DEF Upload, UploadSucceeds
<1>7. CASE CancelBody
  BY <1>7 DEF CancelBody, Leave
<1>8. CASE Finally
  BY <1>8 DEF Finally, Done
<1>9. CASE CancelFinally
  BY <1>9 DEF CancelFinally
<1>10. CASE WatchdogFires
  BY <1>10 DEF WatchdogFires, LoopBlocked
<1>11. ASSUME NEW t \in Tasks, Terminating(t) PROVE NoSilentSurvivor'
  <2>1. CASE DeleteAccepted(t)
    BY <2>1 DEF DeleteAccepted, DeleteEffect
  <2>2. CASE Acknowledged(t)
    BY <2>2 DEF Acknowledged, Done, LoopBlocked
  <2>3. CASE TerminateRaises(t)
    BY <2>3 DEF TerminateRaises, Done, DeleteEffect, LoopBlocked
  <2>4. QED
    BY <1>11, <2>1, <2>2, <2>3 DEF Terminating
<1>12. CASE LateCreate
  BY <1>12 DEF LateCreate
<1>13. CASE StrayDelete
  BY <1>13 DEF StrayDelete, DeleteEffect
<1>14. CASE FinishDeletion
  BY <1>14 DEF FinishDeletion
<1>15. CASE UNCHANGED vars
  BY <1>15 DEF vars
<1>16. QED
  BY <1>1, <1>2, <1>3, <1>4, <1>5, <1>6, <1>7, <1>8, <1>9, <1>10, <1>11, <1>12, <1>13, <1>14, <1>15
  DEF Next, Body

-----------------------------------------------------------------------------
(* The inductive invariant holds throughout.                               *)
LEMMA SpecIInv == Spec => []IInv
<1>1. IInv /\ [Next]_vars => IInv'
  BY TypesPreserved, ArmedPreserved, BoundPreserved, KeptPreserved, GonePreserved,
     SurvivorPreserved DEF IInv
<1>2. QED
  BY <1>1, InitIInv, PTL DEF Spec

(* Every variable keeps its type.                                          *)
THEOREM TypeCorrect == Spec => []TypeOK
<1>1. IInv => TypeOK
  BY DEF IInv
<1>2. QED
  BY <1>1, SpecIInv, PTL

(* A result with terminated=True tells the truth about the guard's pod.    *)
THEOREM TerminatedIsTrue == Spec => []TerminatedMeansGone
<1>1. IInv => TerminatedMeansGone
  BY DEF IInv
<1>2. QED
  BY <1>1, SpecIInv, PTL

(* A pod that outlives a terminating session is never passed over.         *)
THEOREM SurvivorsAreReported == Spec => []NoSilentSurvivor
<1>1. IInv => NoSilentSurvivor
  BY DEF IInv
<1>2. QED
  BY <1>1, SpecIInv, PTL

(* terminate_after_exec=False keeps the pod.                               *)
THEOREM KeptIsKept == Spec => []KeepMeansKept
<1>1. IInv => KeepMeansKept
  BY DEF IInv, TypeOK, Bound, Kept, KeepMeansKept
<1>2. QED
  BY <1>1, SpecIInv, PTL

-----------------------------------------------------------------------------
(* ship_and_run_detached, for any number of sessions on one pod.           *)

(* Whoever has left something on the pod has got that far: a script or a   *)
(* job that ran it means an upload, a marker or a returned exit code a job *)
(* that ended.                                                             *)
Origins ==
  /\ script # Nobody => at[script] \notin {"idle", "prepare"}
  /\ marker # Nobody => job[marker] = "ended"
  /\ \A s \in Sessions :
       /\ at[s] \in {"idle", "prepare", "script", "chmod", "launch"} => job[s] = "none"
       /\ ran[s] # Nobody => at[ran[s]] \notin {"idle", "prepare"}
       /\ results[s].of # Nobody => job[results[s].of] = "ended"
       /\ results[s].how = "exit" => results[s].of # Nobody

(* The deadline is tested before every poll, so only one poll and one sleep*)
(* may lie behind it.                                                      *)
InTime ==
  \A s \in Sessions : at[s] = "sleep" => elapsed[s] <= Timeout + ExecLimit

DetachedIInv == DetachedTypeOK /\ Origins /\ InTime /\ TimeoutKept

(* Nothing has happened on the pod yet.                                    *)
LEMMA InitDetached == DetachedInit => DetachedIInv
BY DetachedAssumption
DEF DetachedInit, DetachedIInv, DetachedTypeOK, Markers, SessionPlaces, Endings, Origins,
    InTime, TimeoutKept

(* Whoever leaves the body gets a result of the right type.                *)
LEMMA LeaveBodyTypes ==
  ASSUME DetachedTypeOK, NEW s \in Sessions, NEW how \in Endings, NEW of \in Markers,
         LeaveBody(s, how, of)
  PROVE  /\ at' \in [Sessions -> SessionPlaces]
         /\ results' \in [Sessions -> [how : Endings, of : Markers, terminated : BOOLEAN]]
<1>1. at' \in [Sessions -> SessionPlaces]
  BY DEF LeaveBody, Goto, DetachedTypeOK, SessionPlaces
<1>2. results[s] \in [how : Endings, of : Markers, terminated : BOOLEAN]
  BY DEF DetachedTypeOK
<1>3. [results[s] EXCEPT !.how = how, !.of = of]
        \in [how : Endings, of : Markers, terminated : BOOLEAN]
  BY <1>2
<1>4. results' = [results EXCEPT ![s] = [results[s] EXCEPT !.how = how, !.of = of]]
  BY DEF LeaveBody
<1>5. results' \in [Sessions -> [how : Endings, of : Markers, terminated : BOOLEAN]]
  BY <1>3, <1>4 DEF DetachedTypeOK
<1>6. QED
  BY <1>1, <1>5

(* Every action of a session or its job keeps the types.                   *)
LEMMA DetachedTypesPreserved == DetachedTypeOK /\ [DetachedNext]_detachedVars => DetachedTypeOK'
<1> SUFFICES ASSUME DetachedTypeOK, [DetachedNext]_detachedVars PROVE DetachedTypeOK'
  OBVIOUS
<1> USE DetachedAssumption
    DEF DetachedTypeOK, Markers, SessionPlaces, Endings, remoteVars, sessionVars
<1>1. ASSUME NEW s \in Sessions, Provision(s) PROVE DetachedTypeOK'
  <2>1. guard' \subseteq Sessions /\ host' \in {"none", "up", "gone"}
    BY <1>1 DEF Provision
  <2>2. UNCHANGED <<remoteVars, terminators, elapsed>>
    BY <1>1 DEF Provision
  <2>3. CASE Goto(s, "prepare") /\ UNCHANGED results
    BY <2>1, <2>2, <2>3 DEF Goto
  <2>4. CASE \E how \in {"raise", "130"} : LeaveBody(s, how, Nobody)
    BY <2>1, <2>2, <2>4, LeaveBodyTypes
  <2>5. ASSUME NEW how \in {"raise", "130"}, Goto(s, "done"),
               results' = [results EXCEPT ![s].how = how]
        PROVE  DetachedTypeOK'
    BY <2>1, <2>2, <2>5 DEF Goto
  <2>6. QED
    BY <1>1, <2>3, <2>4, <2>5 DEF Provision
<1>2. ASSUME NEW s \in Sessions, Reattach(s) PROVE DetachedTypeOK'
  BY <1>2 DEF Reattach, Goto
<1>3. ASSUME NEW s \in Sessions, Prepare(s) \/ Raises(s) PROVE DetachedTypeOK'
  BY <1>3, LeaveBodyTypes DEF Prepare, Raises, Goto
<1>4. ASSUME NEW s \in Sessions, UploadScript(s) \/ Chmod(s) PROVE DetachedTypeOK'
  BY <1>4 DEF UploadScript, Chmod, Goto
<1>5. ASSUME NEW s \in Sessions, LaunchJob(s) PROVE DetachedTypeOK'
  BY <1>5, LeaveBodyTypes DEF LaunchJob, Goto
<1>6. ASSUME NEW s \in Sessions, TimesOut(s) PROVE DetachedTypeOK'
  BY <1>6, LeaveBodyTypes DEF TimesOut
<1>7. ASSUME NEW s \in Sessions, Poll(s) PROVE DetachedTypeOK'
  BY <1>7 DEF Poll, Goto
<1>8. ASSUME NEW s \in Sessions, PollFails(s) \/ Sleep(s) PROVE DetachedTypeOK'
  BY <1>8 DEF PollFails, Sleep, Goto
<1>9. ASSUME NEW s \in Sessions, Download(s) PROVE DetachedTypeOK'
  BY <1>9 DEF Download, Goto
<1>10. ASSUME NEW s \in Sessions, FinallyBlock(s) PROVE DetachedTypeOK'
  <2>1. /\ at' \in [Sessions -> SessionPlaces]
        /\ UNCHANGED <<script, marker, ran, terminators, guard, elapsed>>
    BY <1>10 DEF FinallyBlock, Goto
  <2>2. PodEnds \/ PodStays
    BY <1>10 DEF FinallyBlock
  <2>3. /\ host' \in {"none", "up", "gone"}
        /\ job' \in [Sessions -> {"none", "starting", "running", "ended", "killed"}]
    BY <2>2 DEF PodEnds, PodStays
  <2>4. results' \in [Sessions -> [how : Endings, of : Markers, terminated : BOOLEAN]]
    <3>1. /\ results[s] \in [how : Endings, of : Markers, terminated : BOOLEAN]
          /\ {TRUE} \subseteq BOOLEAN /\ {"raise"} \subseteq Endings
      OBVIOUS
    <3>2. CASE results' = [results EXCEPT ![s].terminated = TRUE]
      BY <3>1, <3>2
    <3>3. CASE results' = [results EXCEPT ![s].how = "raise"]
      BY <3>1, <3>3
    <3>4. QED
      BY <1>10, <3>2, <3>3 DEF FinallyBlock
  <2>5. QED
    BY <2>1, <2>3, <2>4
<1>11. ASSUME NEW s \in Sessions, Job(s) PROVE DetachedTypeOK'
  <2>1. CASE JobStarts(s)
    BY <2>1 DEF JobStarts
  <2>2. CASE JobEnds(s)
    BY <2>2 DEF JobEnds
  <2>3. QED
    BY <1>11, <2>1, <2>2 DEF Job
<1>12. ASSUME NEW s \in Sessions, Cancel(s) PROVE DetachedTypeOK'
  BY <1>12, LeaveBodyTypes DEF Cancel
<1>13. ASSUME NEW s \in Sessions, Watchdog(s) PROVE DetachedTypeOK'
  BY <1>13 DEF Watchdog, PodEnds
<1>14. CASE UNCHANGED detachedVars
  BY <1>14 DEF detachedVars
<1>15. QED
  BY <1>1, <1>2, <1>3, <1>4, <1>5, <1>6, <1>7, <1>8, <1>9, <1>10, <1>11, <1>12, <1>13, <1>14
  DEF DetachedNext, Step

(* No session goes back before its upload, and a job that ended stays so.  *)
LEMMA OriginsPreserved ==
  DetachedTypeOK /\ Origins /\ [DetachedNext]_detachedVars => Origins'
<1> SUFFICES ASSUME DetachedTypeOK, Origins, [DetachedNext]_detachedVars PROVE Origins'
  OBVIOUS
<1> USE DetachedAssumption
    DEF DetachedTypeOK, Markers, SessionPlaces, Origins, remoteVars, sessionVars
<1>1. ASSUME NEW s \in Sessions, Provision(s) PROVE Origins'
  BY <1>1 DEF Provision, Goto, LeaveBody
<1>2. ASSUME NEW s \in Sessions, Reattach(s) PROVE Origins'
  BY <1>2 DEF Reattach, Goto
<1>3. ASSUME NEW s \in Sessions, Prepare(s) \/ Raises(s) PROVE Origins'
  BY <1>3 DEF Prepare, Raises, Goto, LeaveBody
<1>4. ASSUME NEW s \in Sessions, UploadScript(s) \/ Chmod(s) PROVE Origins'
  BY <1>4 DEF UploadScript, Chmod, Goto
<1>5. ASSUME NEW s \in Sessions, LaunchJob(s) PROVE Origins'
  BY <1>5 DEF LaunchJob, Goto, LeaveBody
<1>6. ASSUME NEW s \in Sessions, TimesOut(s) PROVE Origins'
  BY <1>6 DEF TimesOut, Goto, LeaveBody
<1>7. ASSUME NEW s \in Sessions, Poll(s) PROVE Origins'
  BY <1>7 DEF Poll, Goto
<1>8. ASSUME NEW s \in Sessions, PollFails(s) \/ Sleep(s) PROVE Origins'
  BY <1>8 DEF PollFails, Sleep, Goto
<1>9. ASSUME NEW s \in Sessions, Download(s) PROVE Origins'
  BY <1>9 DEF Download, Goto
<1>10. ASSUME NEW s \in Sessions, FinallyBlock(s) PROVE Origins'
  BY <1>10 DEF FinallyBlock, Goto, PodEnds, PodStays
<1>11. ASSUME NEW s \in Sessions, Job(s) PROVE Origins'
  BY <1>11 DEF Job, JobStarts, JobEnds
<1>12. ASSUME NEW s \in Sessions, Cancel(s) PROVE Origins'
  BY <1>12 DEF Cancel, Goto, LeaveBody
<1>13. ASSUME NEW s \in Sessions, Watchdog(s) PROVE Origins'
  BY <1>13 DEF Watchdog, PodEnds
<1>14. CASE UNCHANGED detachedVars
  BY <1>14 DEF detachedVars
<1>15. QED
  BY <1>1, <1>2, <1>3, <1>4, <1>5, <1>6, <1>7, <1>8, <1>9, <1>10, <1>11, <1>12, <1>13, <1>14
  DEF DetachedNext, Step

(* Only polls and sleeps take time.                                        *)
LEMMA InTimePreserved ==
  DetachedTypeOK /\ InTime /\ TimeoutKept /\ [DetachedNext]_detachedVars
    => InTime' /\ TimeoutKept'
<1> SUFFICES ASSUME DetachedTypeOK, InTime, TimeoutKept, [DetachedNext]_detachedVars
             PROVE InTime' /\ TimeoutKept'
  OBVIOUS
<1> USE DetachedAssumption DEF DetachedTypeOK, InTime, TimeoutKept, remoteVars, sessionVars
<1>1. ASSUME NEW s \in Sessions, Poll(s) \/ PollFails(s) PROVE InTime' /\ TimeoutKept'
  <2>1. PICK d \in {0, ExecLimit} : elapsed' = [elapsed EXCEPT ![s] = @ + d]
    BY <1>1 DEF Poll, PollFails
  <2>2. PICK place \in {"sleep", "download"} : at' = [at EXCEPT ![s] = place]
    BY <1>1 DEF Poll, PollFails, Goto
  <2>3. elapsed[s] <= Timeout /\ d \in Nat /\ d <= ExecLimit
    BY <1>1, <2>1 DEF Poll, PollFails
  <2>4. elapsed'[s] <= Timeout + ExecLimit /\ \A t \in Sessions \ {s} : elapsed'[t] = elapsed[t]
    BY <2>1, <2>3
  <2>5. \A t \in Sessions \ {s} : at'[t] = at[t]
    BY <2>2
  <2>6. QED
    BY <2>1, <2>4, <2>5
<1>2. ASSUME NEW s \in Sessions, Sleep(s) PROVE InTime' /\ TimeoutKept'
  BY <1>2 DEF Sleep, Goto
<1>3. ASSUME NEW s \in Sessions, Provision(s) \/ Reattach(s) \/ Cancel(s) \/ Watchdog(s) \/ Job(s)
      PROVE InTime' /\ TimeoutKept'
  BY <1>3 DEF Provision, Reattach, Cancel, Watchdog, Job, JobStarts, JobEnds, Goto, LeaveBody
<1>4. ASSUME NEW s \in Sessions,
             \/ Prepare(s) \/ UploadScript(s) \/ Chmod(s) \/ LaunchJob(s)
             \/ Raises(s) \/ TimesOut(s) \/ Download(s) \/ FinallyBlock(s)
      PROVE InTime' /\ TimeoutKept'
  BY <1>4 DEF Prepare, UploadScript, Chmod, LaunchJob, Raises, TimesOut, Download,
              FinallyBlock, Goto, LeaveBody
<1>5. CASE UNCHANGED detachedVars
  BY <1>5 DEF detachedVars
<1>6. QED
  BY <1>1, <1>2, <1>3, <1>4, <1>5 DEF DetachedNext, Step

(* The invariant of the sessions, for every behaviour.                     *)
LEMMA DetachedInvariant == DetachedSpec => []DetachedIInv
<1>1. DetachedIInv /\ [DetachedNext]_detachedVars => DetachedIInv'
  BY DetachedTypesPreserved, OriginsPreserved, InTimePreserved DEF DetachedIInv
<1>2. QED
  BY <1>1, InitDetached, PTL DEF DetachedSpec

(* Every variable of the sessions keeps its type.                          *)
THEOREM DetachedTypeCorrect == DetachedSpec => []DetachedTypeOK
<1>1. DetachedIInv => DetachedTypeOK
  BY DEF DetachedIInv
<1>2. QED
  BY <1>1, DetachedInvariant, PTL

(* An exit code that a session returns was written by a job that ended,    *)
(* and by the session's own as long as nobody else has uploaded or         *)
(* launched anything, however many sessions share the pod.                 *)
THEOREM ExitCodeIsWritten == DetachedSpec => []ExitIsReal
<1>1. DetachedIInv => ExitIsReal
  BY DetachedAssumption DEF DetachedIInv, DetachedTypeOK, Markers, Origins, ExitIsReal
<1>2. QED
  BY <1>1, DetachedInvariant, PTL

(* A session's polling ends within its timeout, one poll and one sleep.    *)
THEOREM PollingEndsInTime == DetachedSpec => []TimeoutKept
<1>1. DetachedIInv => TimeoutKept
  BY DEF DetachedIInv
<1>2. QED
  BY <1>1, DetachedInvariant, PTL

=============================================================================
