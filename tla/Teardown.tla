------------------------------ MODULE Teardown ------------------------------
(***************************************************************************)
(* What terminating a pod promises, whoever does it and however many at    *)
(* once: the pod goes only if somebody asked for it and never comes back,  *)
(* every call is answered once, and the answer is true.  errors.py has the *)
(* answer between success and failure, CleanupPendingError: the provider   *)
(* accepted the deletion, but the pod may still be there.                  *)
(***************************************************************************)
CONSTANT Callers  \* who may ask for the deletion, or after it

VARIABLES
  pod,       \* "up", "stopping" or "gone"
  asked,     \* callers that ever asked for the deletion
  disowned,  \* those whom the provider told, too early, that there is no pod
  answer     \* what each caller was last told, "open" while it waits

vars == <<pod, asked, disowned, answer>>

Init ==
  pod = "up" /\ asked = {} /\ disowned = {} /\ answer = [a \in Callers |-> "none"]

(* A caller asks for the deletion.                                         *)
Ask(a) ==
  /\ answer[a] = "none"
  /\ asked' = asked \union {a}
  /\ answer' = [answer EXCEPT ![a] = "open"]
  /\ UNCHANGED <<pod, disowned>>

(* A caller asks whether the pod is gone, for the first time or after it   *)
(* was told that the deletion is pending.                                  *)
AskAfter(a) ==
  /\ answer[a] \in {"none", "pending"}
  /\ answer' = [answer EXCEPT ![a] = "open"]
  /\ UNCHANGED <<pod, asked, disowned>>

(* The provider disowns a pod that it is removing to one who asked it to.  *)
Disown(a) ==
  /\ answer[a] = "open" /\ a \in asked /\ pod = "stopping"
  /\ disowned' = disowned \union {a}
  /\ UNCHANGED <<pod, asked, answer>>

Remove ==
  /\ asked # {} /\ pod # "gone"
  /\ pod' \in {"stopping", "gone"}
  /\ UNCHANGED <<asked, disowned, answer>>

(* Success means gone, or going and disowned; pending, to one who asked    *)
(* for the deletion, means that it was accepted.  The other answers leave  *)
(* it open.                                                                *)
Answer(a) ==
  /\ answer[a] = "open"
  /\ \/ /\ a \in asked /\ (pod = "gone" \/ (pod = "stopping" /\ a \in disowned))
        /\ answer' = [answer EXCEPT ![a] = "terminated"]
     \/ pod = "gone" /\ answer' = [answer EXCEPT ![a] = "absent"]
     \/ (a \in asked => pod # "up") /\ answer' = [answer EXCEPT ![a] = "pending"]
     \/ \E o \in {"error", "hook", "cancelled"} : answer' = [answer EXCEPT ![a] = o]
  /\ UNCHANGED <<pod, asked, disowned>>

Next ==
  Remove \/ \E a \in Callers : Ask(a) \/ AskAfter(a) \/ Disown(a) \/ Answer(a)

Spec == Init /\ [][Next]_vars
=============================================================================
