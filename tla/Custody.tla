------------------------------- MODULE Custody -------------------------------
(***************************************************************************)
(* What acquiring a pod promises its caller, whatever the retries behind   *)
(* it: at most one pod is ever held for the request, and the way the call  *)
(* ends says truthfully whether there is one.  errors.py names the three   *)
(* failures: LaunchFailure (no pod), PostCreateHookFailure (a known pod)   *)
(* and AllocationUnknown (perhaps a pod).                                  *)
(***************************************************************************)
VARIABLES
  pods,    \* pods the provider holds for this request
  report   \* "open" while the call runs, then how it ended

vars == <<pods, report>>

Known == {"pod", "named"}
Nothing == {"failed", "raised"}
Uncertain == {"unknown", "cancelled"}

Init == pods = {} /\ report = "open"

(* The provider allocates; never after the caller was told there is none.  *)
Allocate ==
  /\ pods = {} /\ report \in Uncertain \union {"open"}
  /\ pods' # {} /\ \A m, n \in pods' : m = n
  /\ UNCHANGED report

Report ==
  /\ report = "open"
  /\ \/ report' \in Known /\ pods # {}
     \/ report' \in Nothing /\ pods = {}
     \/ report' \in Uncertain
  /\ UNCHANGED pods

Next == Allocate \/ Report

Spec == Init /\ [][Next]_vars
=============================================================================
