----------------------------- MODULE ShipAndRun -----------------------------
(***************************************************************************)
(* ship_and_run of runner.py with the PodGuard watchdog of guard.py: one   *)
(* coroutine that launches a pod, ships a payload, runs a script and tears *)
(* down, a watchdog task on the same event loop, signals that cancel the   *)
(* coroutine, threads that outlive a cancelled await, and the provider.    *)
(* Launching and terminating are taken at the level the modules Launch and *)
(* Terminate establish for them.                                           *)
(***************************************************************************)
EXTENDS Integers

CONSTANT MaxCancels  \* bound: cancellations delivered to the coroutine

ASSUME ShipAssumption == MaxCancels \in Nat

VARIABLES
  terminateAfter,  \* terminate_after_exec, also the guard's auto_terminate
  mode,            \* upload_mode
  pc,              \* where the coroutine is
  tpc,             \* terminate() calls of the coroutine and of the watchdog
  ending,          \* how the body was left: "open", "return", "raise", "cancelled"
  result,          \* returncode, terminated, pod, breach_log of the result
  guardPod,        \* guard.pod is set
  wd,              \* watchdog task: "none", "sleeping", "terminating", "ended"
  wdFailed,        \* the watchdog's terminate() raised into its task
  breaches,        \* len(guard.breach_log)
  swallowed,       \* guard.terminate took an error text for "not found"
  pod,             \* provider: "none", "up", "stopping", "gone"
  creating,        \* a create thread nobody awaits is still under way
  strays,          \* tasks cancelled while their DELETE thread was under way
  cancels          \* cancellations delivered so far

runVars == <<terminateAfter, mode>>
mainVars == <<pc, ending, result, cancels>>
guardVars == <<guardPod, wd, wdFailed, breaches, swallowed>>
cloudVars == <<pod, creating, strays>>
vars == <<runVars, mainVars, guardVars, cloudVars, tpc>>

Tasks == {"main", "watchdog"}
Places == {"launch", "ready", "gpu", "upload", "extract", "exec", "finally", "terminate", "done"}

TypeOK ==
  /\ terminateAfter \in BOOLEAN /\ mode \in {"sftp_walk", "tarball"}
  /\ pc \in Places /\ tpc \in [Tasks -> {"off", "delete", "verify"}]
  /\ ending \in {"open", "return", "raise", "cancelled"}
  /\ result \in [rc : {"unset", "gpu", "script", "130"}, terminated : BOOLEAN,
                 pod : BOOLEAN, breaches : 0..1]
  /\ guardPod \in BOOLEAN /\ wd \in {"none", "sleeping", "terminating", "ended"}
  /\ wdFailed \in BOOLEAN /\ breaches \in 0..1 /\ swallowed \in BOOLEAN
  /\ pod \in {"none", "up", "stopping", "gone"} /\ creating \in BOOLEAN
  /\ strays \subseteq Tasks /\ cancels \in 0..MaxCancels

Init ==
  /\ terminateAfter \in BOOLEAN /\ mode \in {"sftp_walk", "tarball"}
  /\ pc = "launch" /\ tpc = [t \in Tasks |-> "off"] /\ ending = "open"
  /\ result = [rc |-> "unset", terminated |-> FALSE, pod |-> FALSE, breaches |-> 0]
  /\ guardPod = FALSE /\ wd = "none" /\ wdFailed = FALSE
  /\ breaches = 0 /\ swallowed = FALSE
  /\ pod = "none" /\ creating = FALSE /\ strays = {} /\ cancels = 0

-----------------------------------------------------------------------------
(* Both upload modes call sftp.put on the event loop's own thread: nothing *)
(* else on the loop runs, no cancellation is delivered.                    *)
LoopBlocked == pc = "upload"

Leave(how) == pc' = "finally" /\ ending' = how

(* launch() returns; attach() binds the pod and starts the watchdog.       *)
LaunchReturns ==
  /\ pc = "launch" /\ pod' = "up"
  /\ pc' = "ready"
  /\ guardPod' = TRUE /\ wd' = "sleeping"
  /\ result' = [result EXCEPT !.pod = TRUE]
  /\ UNCHANGED <<runVars, ending, cancels, wdFailed, breaches, swallowed, creating, strays, tpc>>

(* LaunchFailure leaves nothing behind, AllocationUnknown may.             *)
LaunchRaises ==
  /\ pc = "launch"
  /\ creating' \in BOOLEAN
  /\ Leave("raise")
  /\ UNCHANGED <<runVars, result, cancels, guardVars, pod, strays, tpc>>

(* A create whose caller is gone becomes a pod.                            *)
LateCreate ==
  /\ creating /\ creating' = FALSE
  /\ pod' = "up"
  /\ UNCHANGED <<runVars, mainVars, guardVars, strays, tpc>>

Following == [ready |-> "gpu", gpu |-> "upload", extract |-> "exec"]

(* wait_ready and the SSH details, a passing GPU check, the extraction.    *)
PhaseSucceeds ==
  /\ pc \in DOMAIN Following
  /\ pc' = Following[pc]
  /\ UNCHANGED <<runVars, ending, result, cancels, guardVars, cloudVars, tpc>>

(* The blocking part of the upload ends; a tarball is then extracted.      *)
UploadSucceeds ==
  /\ pc = "upload"
  /\ pc' = IF mode = "tarball" THEN "extract" ELSE "exec"
  /\ UNCHANGED <<runVars, ending, result, cancels, guardVars, cloudVars, tpc>>

(* The GPU check or the script returns an exit code: the result is ready.  *)
CommandReturns ==
  /\ \/ pc = "gpu" /\ result' = [result EXCEPT !.rc = "gpu"]
     \/ pc = "exec" /\ result' = [result EXCEPT !.rc = "script"]
  /\ Leave("return")
  /\ UNCHANGED <<runVars, cancels, guardVars, cloudVars, tpc>>

PhaseRaises ==
  /\ pc \in {"ready", "gpu", "upload", "extract", "exec"}
  /\ Leave("raise")
  /\ UNCHANGED <<runVars, result, cancels, guardVars, cloudVars, tpc>>

(* CancelledError in the body: returncode 130, then finally.  If the create*)
(* was being awaited its thread goes on, or has finished unnoticed.        *)
CancelBody ==
  /\ pc \in {"launch", "ready", "gpu", "extract", "exec"} /\ cancels < MaxCancels
  /\ cancels' = cancels + 1
  /\ result' = [result EXCEPT !.rc = "130"]
  /\ creating' \in IF pc = "launch" THEN BOOLEAN ELSE {FALSE}
  /\ Leave("return")
  /\ UNCHANGED <<runVars, guardVars, pod, strays, tpc>>

-----------------------------------------------------------------------------
Done(terminated) ==
  /\ pc' = "done"
  /\ result' = [result EXCEPT !.terminated = terminated, !.breaches = breaches]

(* finally: guard.terminate() cancels the watchdog and terminates the bound*)
(* pod if there is one; otherwise the pod stays and is handed back.        *)
Finally ==
  /\ pc = "finally"
  /\ IF ~terminateAfter
     THEN Done(FALSE) /\ UNCHANGED <<wd, tpc, strays>>
     ELSE /\ wd' = IF wd = "none" THEN wd ELSE "ended"
          /\ strays' = strays \union
               (IF tpc["watchdog"] = "delete" THEN {"watchdog"} ELSE {})
          /\ IF guardPod
             THEN /\ pc' = "terminate" /\ UNCHANGED result
                  /\ tpc' = [t \in Tasks |-> IF t = "main" THEN "delete" ELSE "off"]
             ELSE /\ Done(TRUE)
                  /\ tpc' = [t \in Tasks |-> "off"]
  /\ UNCHANGED <<runVars, ending, cancels, guardPod, wdFailed, breaches, swallowed, pod, creating>>

(* Fault: the cancellation inside finally is swallowed.                    *)
CancelFinallyQuietly ==
  /\ pc = "terminate" /\ cancels < MaxCancels
  /\ cancels' = cancels + 1
  /\ pc' = "done" /\ UNCHANGED ending
  /\ strays' = strays \union (IF tpc["main"] = "delete" THEN {"main"} ELSE {})
  /\ tpc' = [tpc EXCEPT !["main"] = "off"]
  /\ UNCHANGED <<runVars, result, guardVars, pod, creating>>

(* A cancellation inside finally ends the coroutine on the spot.           *)
CancelFinally ==
  /\ pc = "terminate" /\ cancels < MaxCancels
  /\ cancels' = cancels + 1
  /\ pc' = "done" /\ ending' = "cancelled"
  /\ strays' = strays \union (IF tpc["main"] = "delete" THEN {"main"} ELSE {})
  /\ tpc' = [tpc EXCEPT !["main"] = "off"]
  /\ UNCHANGED <<runVars, result, guardVars, pod, creating>>

(* Faults: the watchdog always terminates; it never does.                  *)
WatchdogAlways ==
  /\ wd = "sleeping" /\ ~LoopBlocked
  /\ wd' = "terminating" /\ tpc' = [tpc EXCEPT !["watchdog"] = "delete"]
  /\ UNCHANGED <<runVars, mainVars, guardPod, wdFailed, breaches, swallowed, cloudVars>>

WatchdogNever ==
  /\ wd = "sleeping" /\ ~LoopBlocked
  /\ wd' = "ended" /\ breaches' = breaches + 1
  /\ UNCHANGED <<runVars, mainVars, guardPod, wdFailed, swallowed, cloudVars, tpc>>

(* The runtime limit passes: terminate, or only record the breach.         *)
WatchdogFires ==
  /\ wd = "sleeping" /\ ~LoopBlocked
  /\ IF terminateAfter
     THEN /\ wd' = "terminating" /\ UNCHANGED breaches
          /\ tpc' = [tpc EXCEPT !["watchdog"] = "delete"]
     ELSE /\ wd' = "ended" /\ breaches' = breaches + 1
          /\ UNCHANGED tpc
  /\ UNCHANGED <<runVars, mainVars, guardPod, wdFailed, swallowed, cloudVars>>

-----------------------------------------------------------------------------
DeleteEffect == IF pod = "up" THEN {"up", "stopping", "gone"} ELSE {pod}

DeleteAccepted(t) ==
  /\ tpc[t] = "delete" /\ pod \in {"up", "stopping"}
  /\ pod' \in DeleteEffect \ {"up"}
  /\ tpc' = [tpc EXCEPT ![t] = "verify"]
  /\ UNCHANGED <<runVars, mainVars, guardVars, creating, strays>>

(* Fault: an accepted DELETE is taken for absence.                         *)
AcknowledgedEarly(t) ==
  /\ tpc[t] = "verify" /\ ~(t = "watchdog" /\ LoopBlocked)
  /\ tpc' = [tpc EXCEPT ![t] = "off"]
  /\ IF t = "main" THEN Done(TRUE) /\ UNCHANGED wd
                   ELSE wd' = "ended" /\ UNCHANGED <<pc, result>>
  /\ UNCHANGED <<runVars, ending, cancels, guardPod, wdFailed, breaches, swallowed, cloudVars>>

(* 404, or absence from the listing: pod.terminate() returns.              *)
Acknowledged(t) ==
  /\ tpc[t] # "off" /\ pod = "gone" /\ ~(t = "watchdog" /\ LoopBlocked)
  /\ tpc' = [tpc EXCEPT ![t] = "off"]
  /\ IF t = "main" THEN Done(TRUE) /\ UNCHANGED wd
                   ELSE wd' = "ended" /\ UNCHANGED <<pc, result>>
  /\ UNCHANGED <<runVars, ending, cancels, guardPod, wdFailed, breaches, swallowed, cloudVars>>

(* pod.terminate() raises: no answer, an error status, a listing failure,  *)
(* or CleanupPendingError.  The guard takes any text with "not found" for  *)
(* success; the watchdog's exception stays in its task.                    *)
TerminateRaises(t) ==
  /\ tpc[t] # "off" /\ ~(t = "watchdog" /\ LoopBlocked)
  /\ pod' \in IF tpc[t] = "delete" THEN DeleteEffect ELSE {pod}
  /\ tpc' = [tpc EXCEPT ![t] = "off"]
  /\ IF t = "watchdog"
     THEN wd' = "ended" /\ wdFailed' = TRUE /\ UNCHANGED <<swallowed, pc, ending, result>>
     ELSE /\ \/ swallowed' = TRUE /\ Done(TRUE) /\ UNCHANGED ending
             \/ pc' = "done" /\ ending' = "raise" /\ UNCHANGED <<swallowed, result>>
          /\ UNCHANGED <<wd, wdFailed>>
  /\ UNCHANGED <<runVars, cancels, guardPod, breaches, creating, strays>>

StrayDelete ==
  /\ \E t \in strays : strays' = strays \ {t}
  /\ pod' \in DeleteEffect
  /\ UNCHANGED <<runVars, mainVars, guardVars, creating, tpc>>

FinishDeletion ==
  /\ pod = "stopping" /\ pod' = "gone"
  /\ UNCHANGED <<runVars, mainVars, guardVars, creating, strays, tpc>>

-----------------------------------------------------------------------------
Upload == UploadSucceeds
Body == LaunchReturns \/ LaunchRaises \/ PhaseSucceeds \/ CommandReturns \/ PhaseRaises
Terminating(t) == DeleteAccepted(t) \/ Acknowledged(t) \/ TerminateRaises(t)

Next ==
  \/ Body \/ Upload \/ CancelBody \/ Finally \/ CancelFinally
  \/ WatchdogFires \/ (\E t \in Tasks : Terminating(t))
  \/ LateCreate \/ StrayDelete \/ FinishDeletion

(* The REST calls have a 30 s timeout and the watchdog's timer expires:    *)
(* teardown and watchdog are weakly fair.  A remote step may hang.         *)
TeardownFairness ==
  /\ WF_vars(Finally) /\ WF_vars(WatchdogFires)
  /\ \A t \in Tasks : WF_vars(Terminating(t))
  /\ WF_vars(FinishDeletion)

(* Only sftp.put is assumed to come to an end.                             *)
Spec == Init /\ [][Next]_vars /\ TeardownFairness /\ WF_vars(Upload)

(* sftp.put has no timeout either: a peer that stops reading blocks it.    *)
SpecHangingUpload == Init /\ [][Next]_vars /\ TeardownFairness

-----------------------------------------------------------------------------
(* A result with terminated=True tells the truth about the pod the guard   *)
(* was bound to, whatever the watchdog and stray DELETEs did meanwhile; the*)
(* one exception is an error text that merely contains "not found"         *)
(* (guard.py:63, runner.py:211-213).                                       *)
TerminatedMeansGone ==
  result.terminated /\ guardPod /\ ~swallowed => pod = "gone"

(* A bound pod is never forgotten: when the coroutine is over and was to   *)
(* terminate, a pod still up means that the caller got an exception, or    *)
(* that the error text was swallowed.                                      *)
NoSilentSurvivor ==
  pc = "done" /\ terminateAfter /\ guardPod /\ pod = "up"
    => ending \in {"raise", "cancelled"} \/ swallowed

(* terminate_after_exec=False keeps the pod: neither the coroutine nor its *)
(* watchdog ever deletes it, and whoever gets a result gets the pod.       *)
KeepMeansKept ==
  ~terminateAfter =>
    /\ pod \in {"none", "up"} /\ strays = {}
    /\ pc = "done" /\ ending = "return" /\ guardPod => result.pod /\ pod = "up"

(* "Watchdog that auto-terminates a pod after max_runtime_seconds"         *)
(* (guard.py:22): even if a remote step hangs for ever, a bound pod is     *)
(* deleted, or somebody's attempt to delete it failed.                     *)
WatchdogLimitsRuntime ==
  (guardPod /\ terminateAfter)
    ~> (pod # "up" \/ wdFailed \/ ending \in {"raise", "cancelled"} \/ swallowed)

(* "When True (the default) the pod is terminated in finally"              *)
(* (runner.py:106): no result says so while the pod launched is up.        *)
PodTerminatedInFinally ==
  pc = "done" /\ ending = "return" /\ result.terminated /\ ~swallowed => pod # "up"

=============================================================================
