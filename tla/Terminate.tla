------------------------------ MODULE Terminate ------------------------------
(***************************************************************************)
(* Terminating one pod: terminate_pod, reconcile_pod_cleanup and           *)
(* _wait_for_pod_absence of api.py, as called by Pod.terminate (pod.py)    *)
(* and discovery.terminate.  Several callers (a CLI command, a watchdog, a *)
(* second process) may terminate or reconcile the same pod at once.        *)
(* The provider accepts a DELETE before the pod is gone, and its listing   *)
(* may keep showing a pod for a while after it is gone, but never omits a  *)
(* pod that still exists.                                                  *)
(***************************************************************************)
EXTENDS Integers

CONSTANTS
  Callers,  \* who may terminate or reconcile the pod
  Timeout,  \* verify_timeout_seconds
  Poll      \* time that passes between two listings

ASSUME TerminateAssumption == Timeout \in Nat /\ Poll \in Nat \ {0}

VARIABLES
  pod,        \* provider: "up", "stopping" (DELETE accepted) or "gone"
  listed,     \* provider: the account listing shows the pod
  pc,         \* where each caller is
  op,         \* the function each caller is executing
  waited,     \* time since the verification of each caller began
  outcome,    \* how each caller's last call ended, "open" while it runs
  asked,      \* callers that ever called terminate (history)
  disowned,   \* callers whose DELETE got a 404 for a pod still there (history)
  abandoned   \* callers cancelled while their DELETE was under way

providerVars == <<pod, listed>>
callVars == <<pc, op, waited, outcome, asked, disowned, abandoned>>
vars == <<providerVars, callVars>>

Places == {"idle", "delete", "verify", "sleep", "emit", "emitError", "emitPending"}
Results == {"none", "open", "terminated", "absent", "pending", "error", "hook", "cancelled"}

TypeOK ==
  /\ pod \in {"up", "stopping", "gone"} /\ listed \in BOOLEAN
  /\ pc \in [Callers -> Places]
  /\ op \in [Callers -> {"terminate", "reconcile"}]
  /\ waited \in [Callers -> Nat]
  /\ outcome \in [Callers -> Results]
  /\ asked \subseteq Callers /\ disowned \subseteq Callers /\ abandoned \subseteq Callers

Init ==
  /\ pod = "up" /\ listed = TRUE
  /\ pc = [a \in Callers |-> "idle"]
  /\ op = [a \in Callers |-> "terminate"]
  /\ waited = [a \in Callers |-> 0]
  /\ outcome = [a \in Callers |-> "none"]
  /\ asked = {} /\ disowned = {} /\ abandoned = {}

-----------------------------------------------------------------------------
Goto(a, place) == pc' = [pc EXCEPT ![a] = place] /\ UNCHANGED outcome

Finish(a, o) ==
  /\ pc' = [pc EXCEPT ![a] = "idle"]
  /\ outcome' = [outcome EXCEPT ![a] = o]

(* What a DELETE that reaches the provider can do to the pod.              *)
DeleteEffect == IF pod = "up" THEN {"up", "stopping", "gone"} ELSE {pod}

-----------------------------------------------------------------------------
StartTerminate(a) ==
  /\ pc[a] = "idle" /\ outcome[a] = "none"
  /\ pc' = [pc EXCEPT ![a] = "delete"]
  /\ op' = [op EXCEPT ![a] = "terminate"]
  /\ outcome' = [outcome EXCEPT ![a] = "open"]
  /\ asked' = asked \union {a}
  /\ UNCHANGED <<providerVars, waited, disowned, abandoned>>

(* reconcile_pod_cleanup: from scratch, or after a pending termination; it *)
(* only polls.                                                             *)
StartReconcile(a) ==
  /\ pc[a] = "idle" /\ outcome[a] \in {"none", "pending"}
  /\ pc' = [pc EXCEPT ![a] = "verify"]
  /\ op' = [op EXCEPT ![a] = "reconcile"]
  /\ waited' = [waited EXCEPT ![a] = 0]
  /\ outcome' = [outcome EXCEPT ![a] = "open"]
  /\ UNCHANGED <<providerVars, asked, disowned, abandoned>>

(* Fault: acceptance is taken for absence.                                 *)
AcceptedIsGone(a) ==
  /\ pc[a] = "delete" /\ pod # "gone"
  /\ pod' \in DeleteEffect \ {"up"}
  /\ waited' = [waited EXCEPT ![a] = 0]
  /\ Goto(a, "emit")
  /\ UNCHANGED <<listed, op, asked, disowned, abandoned>>

(* 200, 202, 204: the provider took the deletion on; verification begins.  *)
DeleteAccepted(a) ==
  /\ pc[a] = "delete" /\ pod # "gone"
  /\ pod' \in DeleteEffect \ {"up"}
  /\ waited' = [waited EXCEPT ![a] = 0]
  /\ Goto(a, "verify")
  /\ UNCHANGED <<listed, op, asked, disowned, abandoned>>

(* 404 is idempotent success, taken at its word (api.py:748): the provider *)
(* may say so of a pod that another caller's DELETE is still removing.     *)
DeleteNotFound(a) ==
  /\ pc[a] = "delete" /\ pod # "up"
  /\ disowned' = IF pod = "gone" THEN disowned ELSE disowned \union {a}
  /\ Goto(a, "emit")
  /\ UNCHANGED <<providerVars, op, waited, asked, abandoned>>

(* Fault: any answer begins the verification.                              *)
DeleteFailsVerified(a) ==
  /\ pc[a] = "delete"
  /\ pod' \in DeleteEffect
  /\ Goto(a, "verify")
  /\ UNCHANGED <<listed, op, waited, asked, disowned, abandoned>>

(* Another status, or no answer at all: the pod may be going nonetheless.  *)
DeleteFails(a) ==
  /\ pc[a] = "delete"
  /\ pod' \in DeleteEffect
  /\ Goto(a, "emitError")
  /\ UNCHANGED <<listed, op, waited, asked, disowned, abandoned>>

-----------------------------------------------------------------------------
(* Fault: a reconcile reports pending whatever the listing shows.          *)
ListAbsentPending(a) ==
  /\ pc[a] = "verify" /\ ~listed
  /\ IF op[a] = "terminate" THEN Goto(a, "emit") ELSE Finish(a, "pending")
  /\ UNCHANGED <<providerVars, op, waited, asked, disowned, abandoned>>

(* The listing no longer shows this id.                                    *)
ListAbsent(a) ==
  /\ pc[a] = "verify" /\ ~listed
  /\ IF op[a] = "terminate" THEN Goto(a, "emit") ELSE Finish(a, "absent")
  /\ UNCHANGED <<providerVars, op, waited, asked, disowned, abandoned>>

(* Still shown, and time is left: sleep and look again.                    *)
ListPresent(a) ==
  /\ pc[a] = "verify" /\ listed /\ waited[a] < Timeout
  /\ Goto(a, "sleep")
  /\ UNCHANGED <<providerVars, op, waited, asked, disowned, abandoned>>

(* Still shown at the deadline: CleanupPendingError.                       *)
ListTimesOut(a) ==
  /\ pc[a] = "verify" /\ listed /\ waited[a] >= Timeout
  /\ IF op[a] = "terminate" THEN Goto(a, "emitPending") ELSE Finish(a, "pending")
  /\ UNCHANGED <<providerVars, op, waited, asked, disowned, abandoned>>

(* list_pods raises when the SDK and the REST listing both fail.           *)
ListFails(a) ==
  /\ pc[a] = "verify"
  /\ IF op[a] = "terminate" THEN Goto(a, "emitError") ELSE Finish(a, "error")
  /\ UNCHANGED <<providerVars, op, waited, asked, disowned, abandoned>>

(* Fault: the time slept does not count.                                   *)
SleepUncounted(a) ==
  /\ pc[a] = "sleep"
  /\ Goto(a, "verify")
  /\ UNCHANGED <<providerVars, op, waited, asked, disowned, abandoned>>

Sleep(a) ==
  /\ pc[a] = "sleep"
  /\ waited' = [waited EXCEPT ![a] = @ + Poll]
  /\ Goto(a, "verify")
  /\ UNCHANGED <<providerVars, op, asked, disowned, abandoned>>

-----------------------------------------------------------------------------
(* Pod.terminate and discovery.terminate report through a hook; a raising  *)
(* hook replaces the result, success included.                             *)
Emit(a) ==
  /\ \/ pc[a] = "emit" /\ \E o \in {"terminated", "hook"} : Finish(a, o)
     \/ pc[a] = "emitPending" /\ \E o \in {"pending", "hook"} : Finish(a, o)
     \/ pc[a] = "emitError" /\ \E o \in {"error", "hook"} : Finish(a, o)
  /\ UNCHANGED <<providerVars, op, waited, asked, disowned, abandoned>>

(* The awaiting task is cancelled; the thread that sends the DELETE is not.*)
Cancel(a) ==
  /\ pc[a] # "idle"
  /\ Finish(a, "cancelled")
  /\ abandoned' = IF pc[a] = "delete" THEN abandoned \union {a} ELSE abandoned
  /\ UNCHANGED <<providerVars, op, waited, asked, disowned>>

AbandonedDelete(a) ==
  /\ a \in abandoned
  /\ pod' \in DeleteEffect
  /\ abandoned' = abandoned \ {a}
  /\ UNCHANGED <<listed, pc, op, waited, outcome, asked, disowned>>

-----------------------------------------------------------------------------
(* The provider finishes a deletion, and later forgets the id.             *)
FinishDeletion ==
  /\ pod = "stopping" /\ pod' = "gone"
  /\ UNCHANGED <<listed, callVars>>

Unlist ==
  /\ pod = "gone" /\ listed /\ listed' = FALSE
  /\ UNCHANGED <<pod, callVars>>

Step(a) ==
  \/ DeleteAccepted(a) \/ DeleteNotFound(a) \/ DeleteFails(a)
  \/ ListAbsent(a) \/ ListPresent(a) \/ ListTimesOut(a) \/ ListFails(a)
  \/ Sleep(a) \/ Emit(a)

Next ==
  \/ \E a \in Callers :
       StartTerminate(a) \/ StartReconcile(a) \/ Step(a) \/ Cancel(a) \/ AbandonedDelete(a)
  \/ FinishDeletion \/ Unlist

(* HTTP calls have timeouts, so a running call takes its next step; the    *)
(* provider completes what it accepted; a caller told "pending" comes back *)
(* to reconcile, as README.md asks.                                        *)
Fairness ==
  /\ \A a \in Callers :
       /\ WF_vars(Step(a))
       /\ WF_vars(outcome[a] = "pending" /\ StartReconcile(a))
  /\ WF_vars(FinishDeletion) /\ WF_vars(Unlist)

Spec == Init /\ [][Next]_vars /\ Fairness

-----------------------------------------------------------------------------
(* terminate_pod's promise: "return only after provider-side deletion is   *)
(* verified" (api.py:731), for every caller, whoever else is deleting, and *)
(* likewise for a reconcile that returns normally.  One answer is not      *)
(* verified: a 404 while another's deletion is under way, and then the pod *)
(* is on its way out.                                                      *)
AckMeansGone ==
  \A a \in Callers : outcome[a] \in {"terminated", "absent"} =>
    pod = "gone" \/ (pod = "stopping" /\ a \in disowned)

(* "Termination was accepted, but exact provider-side absence is           *)
(* unresolved" (errors.py:77): whenever Pod.terminate raises that, the     *)
(* pod is on its way out, even if others terminate it at the same time.    *)
PendingMeansAccepted ==
  \A a \in Callers : op[a] = "terminate" /\ outcome[a] = "pending" => pod # "up"

(* Reconciling is safe to do on a pod somebody still needs: callers that   *)
(* never terminated cannot make it go (api.py:710, "without issuing        *)
(* another delete").                                                       *)
ReconcileNeverDeletes == pod # "up" => asked # {}

(* Together, and for every answer: callers on the same pod keep the        *)
(* promise of Teardown.                                                    *)
Promise == INSTANCE Teardown WITH answer <- outcome
KeepsTeardown == Promise!Spec

(* A claim the code does not keep, if the provider answers 404 before it   *)
(* has finished: the quotation of AckMeansGone without its exception.      *)
AckIsVerified == \A a \in Callers : outcome[a] = "terminated" => pod = "gone"

(* Every call comes back, however long the pod stays listed.               *)
CallsReturn == \A a \in Callers : pc[a] # "idle" ~> pc[a] = "idle"

(* Once somebody's DELETE was accepted, a caller that keeps reconciling    *)
(* after "cleanup_pending" is not told so for ever.                        *)
PendingResolves ==
  \A a \in Callers : [](pod # "up" => <>[](outcome[a] # "pending"))

=============================================================================
