-------------------------- MODULE TerminationProofs --------------------------
(***************************************************************************)
(* Proofs about Terminate for every set of callers and every timeout.  The *)
(* inductive invariant says what each place in a call knows of the pod: a  *)
(* terminator that verifies has had its DELETE accepted, one that is about *)
(* to acknowledge has seen the pod gone or was told so while it was going, *)
(* and a pod missing from the listing is gone.                             *)
(***************************************************************************)
EXTENDS Terminate, Sweep, TLAPS

ListingIsSound == ~listed => pod = "gone"

Knowledge ==
  \A a \in Callers :
    /\ pc[a] \in {"verify", "sleep", "emitPending"} /\ op[a] = "terminate" => pod # "up"
    /\ pc[a] = "emitPending" => op[a] = "terminate"
    /\ pc[a] = "emit" => pod = "gone" \/ (pod = "stopping" /\ a \in disowned)
    /\ outcome[a] \in {"terminated", "absent"} =>
         pod = "gone" \/ (pod = "stopping" /\ a \in disowned)
    /\ outcome[a] = "pending" /\ op[a] = "terminate" => pod # "up"

(* A DELETE under way belongs to a caller that asked for it.               *)
DeletesAreAsked ==
  /\ abandoned \subseteq asked
  /\ \A a \in Callers : pc[a] = "delete" => a \in asked
  /\ pod # "up" => asked # {}

IInv == TypeOK /\ ListingIsSound /\ Knowledge /\ DeletesAreAsked
-----------------------------------------------------------------------------
(* Before any call the pod is up and listed.                               *)
LEMMA InitIInv == Init => IInv
BY DEF Init, IInv, TypeOK, ListingIsSound, Knowledge, DeletesAreAsked, Places, Results

(* Every step keeps the types.                                             *)
LEMMA TypesPreserved == TypeOK /\ [Next]_vars => TypeOK'
<1> SUFFICES ASSUME TypeOK, [Next]_vars PROVE TypeOK'
  OBVIOUS
<1> USE TerminateAssumption DEF TypeOK, Places, Results, providerVars, callVars
<1>1. ASSUME NEW a \in Callers, StartTerminate(a) PROVE TypeOK'
  BY <1>1 DEF StartTerminate
<1>2. ASSUME NEW a \in Callers, StartReconcile(a) PROVE TypeOK'
  BY <1>2 DEF StartReconcile
<1>3. ASSUME NEW a \in Callers, DeleteAccepted(a) PROVE TypeOK'
  BY <1>3 DEF DeleteAccepted, Goto, DeleteEffect
<1>4. ASSUME NEW a \in Callers, DeleteNotFound(a) PROVE TypeOK'
  BY <1>4 DEF DeleteNotFound, Goto
<1>5. ASSUME NEW a \in Callers, DeleteFails(a) PROVE TypeOK'
  BY <1>5 DEF DeleteFails, Goto, DeleteEffect
<1>6. ASSUME NEW a \in Callers, ListAbsent(a) PROVE TypeOK'
  BY <1>6 DEF ListAbsent, Goto, Finish
<1>7. ASSUME NEW a \in Callers, ListPresent(a) PROVE TypeOK'
  BY <1>7 DEF ListPresent, Goto
<1>8. ASSUME NEW a \in Callers, ListTimesOut(a) PROVE TypeOK'
  BY <1>8 DEF ListTimesOut, Goto, Finish
<1>9. ASSUME NEW a \in Callers, ListFails(a) PROVE TypeOK'
  BY <1>9 DEF ListFails, Goto, Finish
<1>10. ASSUME NEW a \in Callers, Sleep(a) PROVE TypeOK'
  BY <1>10 DEF Sleep, Goto
<1>11. ASSUME NEW a \in Callers, Emit(a) PROVE TypeOK'
  BY <1>11 DEF Emit, Finish
<1>12. ASSUME NEW a \in Callers, Cancel(a) PROVE TypeOK'
  BY <1>12 DEF Cancel, Finish
<1>13. ASSUME NEW a \in Callers, AbandonedDelete(a) PROVE TypeOK'
  BY <1>13 DEF AbandonedDelete, DeleteEffect
<1>14. CASE FinishDeletion
  BY <1>14 DEF FinishDeletion
<1>15. CASE Unlist
  BY <1>15 DEF Unlist
<1>16. CASE UNCHANGED vars
  BY <1>16 DEF vars
<1>17. QED
  BY <1>1, <1>2, <1>3, <1>4, <1>5, <1>6, <1>7, <1>8, <1>9, <1>10, <1>11, <1>12, <1>13, <1>14,
     <1>15, <1>16 DEF Next, Step

(* A pod leaves the listing only once it is gone, and stays gone.          *)
LEMMA ListingPreserved == TypeOK /\ ListingIsSound /\ [Next]_vars => ListingIsSound'
<1> SUFFICES ASSUME TypeOK, ListingIsSound, [Next]_vars PROVE ListingIsSound'
  OBVIOUS
<1> USE DEF TypeOK, ListingIsSound, providerVars, callVars
<1>1. ASSUME NEW a \in Callers, StartTerminate(a) PROVE ListingIsSound'
  BY <1>1 DEF StartTerminate
<1>2. ASSUME NEW a \in Callers, StartReconcile(a) PROVE ListingIsSound'
  BY <1>2 DEF StartReconcile
<1>3. ASSUME NEW a \in Callers, DeleteAccepted(a) PROVE ListingIsSound'
  BY <1>3 DEF DeleteAccepted, Goto, DeleteEffect
<1>4. ASSUME NEW a \in Callers, DeleteNotFound(a) PROVE ListingIsSound'
  BY <1>4 DEF DeleteNotFound, Goto
<1>5. ASSUME NEW a \in Callers, DeleteFails(a) PROVE ListingIsSound'
  BY <1>5 DEF DeleteFails, Goto, DeleteEffect
<1>6. ASSUME NEW a \in Callers, ListAbsent(a) PROVE ListingIsSound'
  BY <1>6 DEF ListAbsent, Goto, Finish
<1>7. ASSUME NEW a \in Callers, ListPresent(a) PROVE ListingIsSound'
  BY <1>7 DEF ListPresent, Goto
<1>8. ASSUME NEW a \in Callers, ListTimesOut(a) PROVE ListingIsSound'
  BY <1>8 DEF ListTimesOut, Goto, Finish
<1>9. ASSUME NEW a \in Callers, ListFails(a) PROVE ListingIsSound'
  BY <1>9 DEF ListFails, Goto, Finish
<1>10. ASSUME NEW a \in Callers, Sleep(a) PROVE ListingIsSound'
  BY <1>10 DEF Sleep, Goto
<1>11. ASSUME NEW a \in Callers, Emit(a) PROVE ListingIsSound'
  BY <1>11 DEF Emit, Finish
<1>12. ASSUME NEW a \in Callers, Cancel(a) PROVE ListingIsSound'
  BY <1>12 DEF Cancel, Finish
<1>13. ASSUME NEW a \in Callers, AbandonedDelete(a) PROVE ListingIsSound'
  BY <1>13 DEF AbandonedDelete, DeleteEffect
<1>14. CASE FinishDeletion
  BY <1>14 DEF FinishDeletion
<1>15. CASE Unlist
  BY <1>15 DEF Unlist
<1>16. CASE UNCHANGED vars
  BY <1>16 DEF vars
<1>17. QED
  BY <1>1, <1>2, <1>3, <1>4, <1>5, <1>6, <1>7, <1>8, <1>9, <1>10, <1>11, <1>12, <1>13, <1>14,
     <1>15, <1>16 DEF Next, Step

(* What a place knows stays true while others act on the same pod.         *)
LEMMA KnowledgePreserved ==
  TypeOK /\ ListingIsSound /\ Knowledge /\ [Next]_vars => Knowledge'
<1> SUFFICES ASSUME TypeOK, ListingIsSound, Knowledge, [Next]_vars PROVE Knowledge'
  OBVIOUS
<1> USE DEF TypeOK, ListingIsSound, Knowledge, providerVars, callVars
<1>1. ASSUME NEW a \in Callers, StartTerminate(a) PROVE Knowledge'
  BY <1>1 DEF StartTerminate
<1>2. ASSUME NEW a \in Callers, StartReconcile(a) PROVE Knowledge'
  BY <1>2 DEF StartReconcile
<1>3. ASSUME NEW a \in Callers, DeleteAccepted(a) PROVE Knowledge'
  BY <1>3 DEF DeleteAccepted, Goto, DeleteEffect
<1>4. ASSUME NEW a \in Callers, DeleteNotFound(a) PROVE Knowledge'
  BY <1>4 DEF DeleteNotFound, Goto
<1>5. ASSUME NEW a \in Callers, DeleteFails(a) PROVE Knowledge'
  BY <1>5 DEF DeleteFails, Goto, DeleteEffect
<1>6. ASSUME NEW a \in Callers, ListAbsent(a) PROVE Knowledge'
  BY <1>6 DEF ListAbsent, Goto, Finish
<1>7. ASSUME NEW a \in Callers, ListPresent(a) PROVE Knowledge'
  BY <1>7 DEF ListPresent, Goto
<1>8. ASSUME NEW a \in Callers, ListTimesOut(a) PROVE Knowledge'
  BY <1>8 DEF ListTimesOut, Goto, Finish
<1>9. ASSUME NEW a \in Callers, ListFails(a) PROVE Knowledge'
  BY <1>9 DEF ListFails, Goto, Finish
<1>10. ASSUME NEW a \in Callers, Sleep(a) PROVE Knowledge'
  BY <1>10 DEF Sleep, Goto
<1>11. ASSUME NEW a \in Callers, Emit(a) PROVE Knowledge'
  BY <1>11 DEF Emit, Finish
<1>12. ASSUME NEW a \in Callers, Cancel(a) PROVE Knowledge'
  BY <1>12 DEF Cancel, Finish
<1>13. ASSUME NEW a \in Callers, AbandonedDelete(a) PROVE Knowledge'
  BY <1>13 DEF AbandonedDelete, DeleteEffect
<1>14. CASE FinishDeletion
  BY <1>14 DEF FinishDeletion
<1>15. CASE Unlist
  BY <1>15 DEF Unlist
<1>16. CASE UNCHANGED vars
  BY <1>16 DEF vars
<1>17. QED
  BY <1>1, <1>2, <1>3, <1>4, <1>5, <1>6, <1>7, <1>8, <1>9, <1>10, <1>11, <1>12, <1>13, <1>14,
     <1>15, <1>16 DEF Next, Step

(* Only terminate issues deletes.                                          *)
LEMMA AskedPreserved ==
  TypeOK /\ DeletesAreAsked /\ [Next]_vars => DeletesAreAsked'
<1> SUFFICES ASSUME TypeOK, DeletesAreAsked, [Next]_vars PROVE DeletesAreAsked'
  OBVIOUS
<1> USE DEF TypeOK, DeletesAreAsked, providerVars, callVars
<1>1. ASSUME NEW a \in Callers, StartTerminate(a) PROVE DeletesAreAsked'
  BY <1>1 DEF StartTerminate
<1>2. ASSUME NEW a \in Callers, StartReconcile(a) PROVE DeletesAreAsked'
  BY <1>2 DEF StartReconcile
<1>3. ASSUME NEW a \in Callers, DeleteAccepted(a) PROVE DeletesAreAsked'
  BY <1>3 DEF DeleteAccepted, Goto, DeleteEffect
<1>4. ASSUME NEW a \in Callers, DeleteNotFound(a) PROVE DeletesAreAsked'
  BY <1>4 DEF DeleteNotFound, Goto
<1>5. ASSUME NEW a \in Callers, DeleteFails(a) PROVE DeletesAreAsked'
  BY <1>5 DEF DeleteFails, Goto, DeleteEffect
<1>6. ASSUME NEW a \in Callers, ListAbsent(a) PROVE DeletesAreAsked'
  BY <1>6 DEF ListAbsent, Goto, Finish
<1>7. ASSUME NEW a \in Callers, ListPresent(a) PROVE DeletesAreAsked'
  BY <1>7 DEF ListPresent, Goto
<1>8. ASSUME NEW a \in Callers, ListTimesOut(a) PROVE DeletesAreAsked'
  BY <1>8 DEF ListTimesOut, Goto, Finish
<1>9. ASSUME NEW a \in Callers, ListFails(a) PROVE DeletesAreAsked'
  BY <1>9 DEF ListFails, Goto, Finish
<1>10. ASSUME NEW a \in Callers, Sleep(a) PROVE DeletesAreAsked'
  BY <1>10 DEF Sleep, Goto
<1>11. ASSUME NEW a \in Callers, Emit(a) PROVE DeletesAreAsked'
  BY <1>11 DEF Emit, Finish
<1>12. ASSUME NEW a \in Callers, Cancel(a) PROVE DeletesAreAsked'
  BY <1>12 DEF Cancel, Finish
<1>13. ASSUME NEW a \in Callers, AbandonedDelete(a) PROVE DeletesAreAsked'
  BY <1>13 DEF AbandonedDelete, DeleteEffect
<1>14. CASE FinishDeletion
  BY <1>14 DEF FinishDeletion
<1>15. CASE Unlist
  BY <1>15 DEF Unlist
<1>16. CASE UNCHANGED vars
  BY <1>16 DEF vars
<1>17. QED
  BY <1>1, <1>2, <1>3, <1>4, <1>5, <1>6, <1>7, <1>8, <1>9, <1>10, <1>11, <1>12, <1>13, <1>14,
     <1>15, <1>16 DEF Next, Step

(* The inductive invariant holds throughout.                               *)
LEMMA SpecIInv == Spec => []IInv
<1>1. IInv /\ [Next]_vars => IInv'
  BY TypesPreserved, ListingPreserved, KnowledgePreserved, AskedPreserved DEF IInv
<1>2. QED
  BY <1>1, InitIInv, PTL DEF Spec

(* Every variable keeps its type.                                          *)
THEOREM TypeCorrect == Spec => []TypeOK
<1>1. IInv => TypeOK
  BY DEF IInv
<1>2. QED
  BY <1>1, SpecIInv, PTL

(* No caller, among any number of them, is told that the pod is gone while *)
(* the provider still has it, but one whose DELETE got a 404 while it was  *)
(* being removed.                                                          *)
THEOREM AcknowledgementIsTrue == Spec => []AckMeansGone
<1>1. IInv => AckMeansGone
  BY DEF IInv, Knowledge, AckMeansGone
<1>2. QED
  BY <1>1, SpecIInv, PTL

(* "cleanup_pending" is only reported of a pod whose deletion was accepted.*)
THEOREM PendingIsTrue == Spec => []PendingMeansAccepted
<1>1. IInv => PendingMeansAccepted
  BY DEF IInv, Knowledge, PendingMeansAccepted
<1>2. QED
  BY <1>1, SpecIInv, PTL

(* Reconciling alone never makes a pod go.                                 *)
THEOREM ReconcileIsReadOnly == Spec => []ReconcileNeverDeletes
<1>1. IInv => ReconcileNeverDeletes
  BY DEF IInv, DeletesAreAsked, ReconcileNeverDeletes
<1>2. QED
  BY <1>1, SpecIInv, PTL

-----------------------------------------------------------------------------
(* Terminate implements Teardown.                                          *)

(* A call that runs has not been answered; one that terminates has asked,  *)
(* and one that reconciles after asking does so since the deletion was     *)
(* accepted.                                                               *)
Answering ==
  \A a \in Callers :
    /\ pc[a] = "idle" <=> outcome[a] # "open"
    /\ a \in asked => outcome[a] # "none"
    /\ op[a] = "terminate" /\ pc[a] # "idle" => a \in asked
    /\ pc[a] \in {"delete", "emit", "emitPending"} => op[a] = "terminate"
    /\ op[a] = "reconcile" /\ a \in asked => pod # "up"

(* A pod once on its way stays so.                                         *)
LEMMA NeverUpAgain == TypeOK /\ [Next]_vars => (pod # "up" => pod' # "up")
BY DEF TypeOK, Next, Step, vars, providerVars, callVars, Goto, Finish, DeleteEffect,
  StartTerminate, StartReconcile, DeleteAccepted, DeleteNotFound, DeleteFails, ListAbsent,
  ListPresent, ListTimesOut, ListFails, Sleep, Emit, Cancel, AbandonedDelete, FinishDeletion, Unlist

(* Every step keeps calls and answers in step.                             *)
LEMMA AnsweringPreserved == IInv /\ Answering /\ [Next]_vars => Answering'
<1> SUFFICES ASSUME IInv, Answering, [Next]_vars PROVE Answering'
  OBVIOUS
<1>0. TypeOK /\ Knowledge /\ (pod # "up" => pod' # "up")
  BY NeverUpAgain DEF IInv
<1> USE DEF TypeOK, Answering, providerVars, callVars
<1>1. ASSUME NEW a \in Callers, StartTerminate(a) PROVE Answering'
  BY <1>0, <1>1 DEF StartTerminate
<1>2. ASSUME NEW a \in Callers, StartReconcile(a) PROVE Answering'
  BY <1>0, <1>2 DEF StartReconcile, Knowledge
<1>3. ASSUME NEW a \in Callers, DeleteAccepted(a) PROVE Answering'
  BY <1>0, <1>3 DEF DeleteAccepted, Goto, DeleteEffect
<1>4. ASSUME NEW a \in Callers, DeleteNotFound(a) PROVE Answering'
  BY <1>0, <1>4 DEF DeleteNotFound, Goto
<1>5. ASSUME NEW a \in Callers, DeleteFails(a) PROVE Answering'
  BY <1>0, <1>5 DEF DeleteFails, Goto, DeleteEffect
<1>6. ASSUME NEW a \in Callers, ListAbsent(a) PROVE Answering'
  BY <1>0, <1>6 DEF ListAbsent, Goto, Finish
<1>7. ASSUME NEW a \in Callers, ListPresent(a) PROVE Answering'
  BY <1>0, <1>7 DEF ListPresent, Goto
<1>8. ASSUME NEW a \in Callers, ListTimesOut(a) PROVE Answering'
  BY <1>0, <1>8 DEF ListTimesOut, Goto, Finish
<1>9. ASSUME NEW a \in Callers, ListFails(a) PROVE Answering'
  BY <1>0, <1>9 DEF ListFails, Goto, Finish
<1>10. ASSUME NEW a \in Callers, Sleep(a) PROVE Answering'
  BY <1>0, <1>10 DEF Sleep, Goto
<1>11. ASSUME NEW a \in Callers, Emit(a) PROVE Answering'
  BY <1>0, <1>11 DEF Emit, Finish
<1>12. ASSUME NEW a \in Callers, Cancel(a) PROVE Answering'
  BY <1>0, <1>12 DEF Cancel, Finish
<1>13. ASSUME NEW a \in Callers, AbandonedDelete(a) PROVE Answering'
  BY <1>0, <1>13 DEF AbandonedDelete, DeleteEffect
<1>14. CASE FinishDeletion
  BY <1>0, <1>14 DEF FinishDeletion
<1>15. CASE Unlist
  BY <1>0, <1>15 DEF Unlist
<1>16. CASE UNCHANGED vars
  BY <1>0, <1>16 DEF vars
<1>17. QED
  BY <1>1, <1>2, <1>3, <1>4, <1>5, <1>6, <1>7, <1>8, <1>9, <1>10, <1>11, <1>12, <1>13, <1>14,
     <1>15, <1>16 DEF Next, Step

(* A step that changes what a caller was told is a request or an answer.   *)
LEMMA AnswerStep ==
  ASSUME IInv, Answering, NEW a \in Callers, NEW o,
         pc[a] # "idle", Finish(a, o), UNCHANGED <<pod, asked, disowned>>,
         \/ /\ o = "terminated" /\ op[a] = "terminate"
            /\ pod = "gone" \/ (pod = "stopping" /\ a \in disowned)
         \/ o = "absent" /\ pod = "gone"
         \/ o = "pending" /\ (a \in asked => pod # "up")
         \/ o \in {"error", "hook", "cancelled"}
  PROVE  Promise!Answer(a)
BY DEF Answering, Finish, Promise!Answer

(* Every step is one of Teardown, or changes neither the pod nor what a    *)
(* caller was told.                                                        *)
LEMMA TeardownStep ==
  IInv /\ Answering /\ [Next]_vars => [Promise!Next]_<<pod, asked, disowned, outcome>>
<1> SUFFICES ASSUME IInv, Answering, [Next]_vars
             PROVE  [Promise!Next]_<<pod, asked, disowned, outcome>>
  OBVIOUS
<1>0. TypeOK /\ ListingIsSound /\ Knowledge /\ DeletesAreAsked
  BY DEF IInv
<1>1. ASSUME asked # {}, pod' \in DeleteEffect, UNCHANGED <<asked, disowned, outcome>>
      PROVE  [Promise!Next]_<<pod, asked, disowned, outcome>>
  BY <1>0, <1>1 DEF TypeOK, DeleteEffect, Promise!Next, Promise!Remove
<1>2. ASSUME NEW a \in Callers, StartTerminate(a) PROVE Promise!Next
  BY <1>2 DEF StartTerminate, providerVars, Promise!Next, Promise!Ask
<1>3. ASSUME NEW a \in Callers, StartReconcile(a) PROVE Promise!Next
  BY <1>3 DEF StartReconcile, providerVars, Promise!Next, Promise!AskAfter
<1>4. ASSUME NEW a \in Callers, DeleteAccepted(a) \/ DeleteFails(a)
      PROVE  [Promise!Next]_<<pod, asked, disowned, outcome>>
  <2>1. asked # {}
    BY <1>0, <1>4 DEF DeleteAccepted, DeleteFails, DeletesAreAsked
  <2>2. QED
    BY <1>1, <1>4, <2>1 DEF DeleteAccepted, DeleteFails, Goto
<1>5. ASSUME NEW a \in Callers, ListPresent(a) \/ Sleep(a)
      PROVE  UNCHANGED <<pod, asked, disowned, outcome>>
  BY <1>5 DEF ListPresent, Sleep, Goto, providerVars
<1>6. ASSUME NEW a \in Callers, ListAbsent(a) \/ ListTimesOut(a) \/ ListFails(a)
      PROVE  [Promise!Next]_<<pod, asked, disowned, outcome>>
  <2>1. UNCHANGED <<pod, asked, disowned>> /\ pc[a] # "idle"
    BY <1>6 DEF ListAbsent, ListTimesOut, ListFails, providerVars
  <2>2. CASE op[a] = "terminate"
    BY <1>6, <2>1, <2>2 DEF ListAbsent, ListTimesOut, ListFails, Goto
  <2>3. CASE op[a] = "reconcile"
    <3>1. a \in asked => pod # "up"
      BY <2>3 DEF Answering
    <3>2. CASE ListAbsent(a)
      BY <1>0, <2>1, <2>3, <3>2, AnswerStep DEF ListAbsent, ListingIsSound, Promise!Next
    <3>3. CASE ListTimesOut(a)
      BY <2>1, <2>3, <3>1, <3>3, AnswerStep DEF ListTimesOut, Promise!Next
    <3>4. CASE ListFails(a)
      BY <2>1, <2>3, <3>4, AnswerStep DEF ListFails, Promise!Next
    <3>5. QED
      BY <1>6, <3>2, <3>3, <3>4
  <2>4. QED
    BY <1>0, <2>2, <2>3 DEF TypeOK
<1>7. ASSUME NEW a \in Callers, Emit(a) PROVE Promise!Next
  <2>1. UNCHANGED <<pod, asked, disowned>> /\ pc[a] # "idle"
    BY <1>7 DEF Emit, providerVars
  <2>2. CASE pc[a] = "emit" /\ \E o \in {"terminated", "hook"} : Finish(a, o)
    BY <1>0, <2>1, <2>2, AnswerStep DEF Knowledge, Answering, Promise!Next
  <2>3. CASE pc[a] = "emitPending" /\ \E o \in {"pending", "hook"} : Finish(a, o)
    BY <1>0, <2>1, <2>3, AnswerStep DEF Knowledge, Promise!Next
  <2>4. CASE pc[a] = "emitError" /\ \E o \in {"error", "hook"} : Finish(a, o)
    BY <2>1, <2>4, AnswerStep DEF Promise!Next
  <2>5. QED
    BY <1>7, <2>2, <2>3, <2>4 DEF Emit
<1>8. ASSUME NEW a \in Callers, Cancel(a) PROVE Promise!Next
  BY <1>8, AnswerStep DEF Cancel, providerVars, Promise!Next
<1>9. ASSUME NEW a \in Callers, AbandonedDelete(a)
      PROVE  [Promise!Next]_<<pod, asked, disowned, outcome>>
  BY <1>0, <1>1, <1>9 DEF AbandonedDelete, DeletesAreAsked
<1>10. CASE FinishDeletion
  BY <1>0, <1>10 DEF FinishDeletion, callVars, DeletesAreAsked, Promise!Next, Promise!Remove
<1>11. CASE Unlist
  BY <1>11 DEF Unlist, callVars
<1>12. CASE UNCHANGED vars
  BY <1>12 DEF vars, providerVars, callVars
<1>13. ASSUME NEW a \in Callers, DeleteNotFound(a)
       PROVE  [Promise!Next]_<<pod, asked, disowned, outcome>>
  <2>1. UNCHANGED <<pod, asked, outcome>> /\ outcome[a] = "open" /\ a \in asked
    BY <1>0, <1>13 DEF DeleteNotFound, Goto, providerVars, Answering, DeletesAreAsked
  <2>2. CASE pod = "gone"
    BY <1>13, <2>1, <2>2 DEF DeleteNotFound
  <2>3. CASE pod # "gone"
    <3>1. pod = "stopping" /\ disowned' = disowned \union {a}
      BY <1>0, <1>13, <2>3 DEF DeleteNotFound, TypeOK
    <3>2. QED
      BY <2>1, <3>1 DEF Promise!Next, Promise!Disown
  <2>4. QED
    BY <2>2, <2>3
<1>14. QED
  BY <1>2, <1>3, <1>4, <1>5, <1>6, <1>7, <1>8, <1>9, <1>10, <1>11, <1>12, <1>13
  DEF Next, Step

(* Any number of callers, terminating and reconciling one pod in any       *)
(* order, keep the promise of Teardown: the pod goes only if somebody      *)
(* asked, and every call gets one answer, which is true.                   *)
THEOREM TerminateKeepsTeardown == Spec => KeepsTeardown
<1>1. Init => Answering /\ Promise!Init
  BY DEF Init, Answering, Promise!Init
<1>2. IInv /\ Answering /\ [Next]_vars => Answering'
  BY AnsweringPreserved
<1>3. IInv /\ Answering /\ [Next]_vars => [Promise!Next]_<<pod, asked, disowned, outcome>>
  BY TeardownStep
<1>4. QED
  BY <1>1, <1>2, <1>3, SpecIInv, PTL DEF Spec, KeepsTeardown, Promise!Spec, Promise!vars

-----------------------------------------------------------------------------
(* Sweep, for any pods, sweeps, prefixes, ages and delays.                 *)

(* A pod's name is chosen before it is created, and it runs from then on.  *)
PodTimes ==
  \A p \in Pods :
    /\ status[p] = "named" => stamp[p] <= now
    /\ Exists(p) => stamp[p] <= born[p] /\ born[p] <= booted[p] /\ booted[p] <= now

(* What Tick waits for: registrations and listings are in time.            *)
InDelay ==
  /\ \A p \in Owned \ known : Exists(p) => now <= born[p] + RegisterDelay
  /\ \A s \in Sweepers :
       /\ sweeps[s].clock <= now
       /\ sweeps[s].pc = "list" => now <= sweeps[s].clock + ListDelay

(* A pod that is missing from the ids a sweep has read was young then.     *)
KnownInTime ==
  \A s \in Sweepers, p \in Owned :
    sweeps[s].pc # "idle" /\ p \notin sweeps[s].known /\ Exists(p)
      => sweeps[s].clock <= born[p] + RegisterDelay

(* What the selection says of a pod that is still to be terminated.        *)
Selection ==
  \A s \in Sweepers : \A p \in sweeps[s].stale :
    /\ status[p] \notin {"none", "named"}
    /\ sweeps[s].kind = "orphans" /\ p \in Owned
         => sweeps[s].olderThan <= RegisterDelay + ListDelay
    /\ sweeps[s].kind = "prune" /\ p \notin sweeps[s].untimed => now - born[p] >= StaleAge

(* What a sweep must find under a prefix it has listed.                    *)
Due(s, p) ==
  /\ Exists(p) /\ PrefixOf[p] \in Prefixes /\ born[p] < sweeps[s].clock
  /\ \/ sweeps[s].kind = "cleanup" /\ sweeps[s].olderThan = NotGiven
     \/ sweeps[s].kind = "prune" /\ p \in Stamped /\ booted[p] + StaleAge <= sweeps[s].clock

Complete ==
  \A s \in Sweepers :
    /\ \A p \in Pods : Due(s, p) /\ PrefixOf[p] \notin sweeps[s].unlisted => p \in sweeps[s].stale
    /\ \A p \in sweeps[s].terminated : status[p] = "gone"
    /\ sweeps[s].pc = "idle" => sweeps[s].unlisted = Prefixes
    /\ sweeps[s].pc \in {"terminate", "confirm", "done"} => sweeps[s].unlisted = {}
    /\ sweeps[s].pc = "done" => sweeps[s].stale = sweeps[s].terminated \union sweeps[s].failed

SweepIInv ==
  /\ SweepTypeOK /\ PodTimes /\ InDelay /\ KnownInTime /\ Selection /\ Complete
  /\ OwnedIsSpared /\ UptimeProtects

(* The account is empty and no sweep has begun.                            *)
LEMMA InitSweep == SweepInit => SweepIInv
<1> SUFFICES ASSUME SweepInit PROVE SweepIInv
  OBVIOUS
<1>1. PICK kind \in [Sweepers -> Kinds], olderThan \in [Sweepers -> OlderThans] :
        sweeps = [s \in Sweepers |->
          [pc |-> "idle", kind |-> kind[s], clock |-> 0, known |-> {},
           olderThan |-> IF kind[s] = "prune" THEN NotGiven ELSE olderThan[s],
           unlisted |-> Prefixes, untimed |-> {}, stale |-> {},
           terminated |-> {}, failed |-> {}]]
  BY DEF SweepInit
<1>2. 0 \in Times
  BY SweepAssumption DEF Times
<1>3. sweeps \in [Sweepers -> Sweep]
  BY <1>1, <1>2 DEF Sweep
<1>4. SweepTypeOK
  BY <1>2, <1>3 DEF SweepInit, SweepTypeOK
<1>5. PodTimes /\ InDelay /\ KnownInTime /\ Selection
  BY <1>1, SweepAssumption DEF SweepInit, PodTimes, InDelay, KnownInTime, Selection, Exists
<1>6. Complete
  BY <1>1 DEF SweepInit, Complete, Due, Exists
<1>7. OwnedIsSpared /\ UptimeProtects
  BY DEF SweepInit, OwnedIsSpared, UptimeProtects
<1>8. QED
  BY <1>4, <1>5, <1>6, <1>7 DEF SweepIInv

(* What a step of an owner may do to a pod; sweeps do not see it happen.   *)
LEMMA OwnerSteps ==
  ASSUME SweepTypeOK, NEW q \in Pods, Owner(q)
  PROVE  /\ status' \in [Pods -> {"none", "named", "up", "exited", "gone"}]
         /\ stamp' \in [Pods -> Times] /\ born' \in [Pods -> Times] /\ booted' \in [Pods -> Times]
         /\ known' \subseteq Pods /\ known \subseteq known' /\ UNCHANGED <<now, sweeps, kills>>
<1> USE SweepAssumption DEF SweepTypeOK, podVars, Exists
<1>1. CASE ChooseName(q)
  <2>1. (IF q \in Stamped THEN now ELSE 0) \in Times
    BY DEF Times
  <2>2. QED
    BY <1>1, <2>1 DEF ChooseName
<1>2. CASE CreatePod(q)
  BY <1>2 DEF CreatePod
<1>3. CASE Register(q)
  BY <1>3 DEF Register
<1>4. CASE Stop(q)
  BY <1>4 DEF Stop
<1>5. CASE Resume(q)
  BY <1>5 DEF Resume
<1>6. CASE OwnerTerminates(q)
  BY <1>6 DEF OwnerTerminates
<1>7. QED
  BY <1>1, <1>2, <1>3, <1>4, <1>5, <1>6 DEF Owner

(* What a step of a sweep may do to the account: terminate a selected pod. *)
LEMMA SweepSteps ==
  ASSUME SweepTypeOK, NEW s \in Sweepers, Begin(s) \/ SweepStep(s) \/ Confirm(s)
  PROVE  /\ UNCHANGED <<now, stamp, born, booted, known>>
         /\ \A t \in Sweepers \ {s} : sweeps'[t] = sweeps[t]
         /\ status' \in [Pods -> {"none", "named", "up", "exited", "gone"}]
         /\ \/ UNCHANGED <<status, kills>>
            \/ Terminate(s)
         /\ \A p \in Pods : status'[p] \in {status[p], "gone"}
<1> USE DEF SweepTypeOK, podVars
<1>1. CASE Begin(s) \/ ListRaises(s) \/ Confirm(s) \/ Conclude(s)
  BY <1>1 DEF Begin, ListRaises, Confirm, Conclude
<1>2. CASE List(s)
  BY <1>2 DEF List
<1>3. CASE Terminate(s)
  <2>1. PICK p \in sweeps[s].stale :
          /\ status' \in {status, [status EXCEPT ![p] = "gone"]}
          /\ \E w : sweeps' = [sweeps EXCEPT ![s] = w]
    BY <1>3 DEF Terminate
  <2>2. p \in Pods
    BY DEF Sweep
  <2>3. QED
    BY <1>3, <2>1, <2>2 DEF Terminate
<1>4. QED
  BY <1>1, <1>2, <1>3 DEF SweepStep

(* What a sweep takes of the listing of prefix x.                          *)
Taken(s, x, timed, dated) ==
  {p \in Pods : Exists(p) /\ PrefixOf[p] = x /\ Selects(s, p, timed, dated)}

(* What a listing does to a sweep's record.                                *)
LEMMA ListEffect ==
  ASSUME SweepTypeOK, NEW s \in Sweepers, List(s)
  PROVE  \E x \in sweeps[s].unlisted, timed \in SUBSET Pods, dated \in BOOLEAN :
           LET w == sweeps[s]
               v == sweeps'[s]
               taken == Taken(s, x, timed, dated)
           IN  /\ v \in Sweep
               /\ v.kind = w.kind /\ v.olderThan = w.olderThan /\ v.clock = w.clock
               /\ v.known = w.known /\ v.terminated = w.terminated /\ v.failed = w.failed
               /\ v.unlisted = w.unlisted \ {x} /\ v.stale = w.stale \union taken
               /\ v.untimed = w.untimed \union (taken \ timed)
               /\ \/ v.pc = "list"
                  \/ v.pc \in {"confirm", "terminate"} /\ v.unlisted = {}
<1>1. PICK x \in sweeps[s].unlisted :
        LET here == {p \in Pods : Exists(p) /\ PrefixOf[p] = x} IN
        \E timed \in SUBSET {p \in here : status[p] = "up"}, dated \in BOOLEAN :
          sweeps' = [sweeps EXCEPT ![s] =
            Listed(@, x, {p \in here : Selects(s, p, timed, dated)}, timed)]
  BY DEF List
<1> DEFINE here == {p \in Pods : Exists(p) /\ PrefixOf[p] = x}
<1>2. PICK timed \in SUBSET {p \in here : status[p] = "up"}, dated \in BOOLEAN :
        sweeps' = [sweeps EXCEPT ![s] =
          Listed(@, x, {p \in here : Selects(s, p, timed, dated)}, timed)]
  BY <1>1
<1> DEFINE taken == Taken(s, x, timed, dated)
<1>3. /\ timed \in SUBSET Pods /\ taken \in SUBSET Pods
      /\ taken = {p \in here : Selects(s, p, timed, dated)}
  BY DEF Taken
<1>4. sweeps'[s] = Listed(sweeps[s], x, taken, timed) /\ sweeps[s] \in Sweep
  BY <1>2, <1>3 DEF SweepTypeOK
<1> HIDE DEF here, taken
<1>5. sweeps'[s] \in Sweep
  <2> DEFINE w == sweeps[s]
             unlisted == w.unlisted \ {x}
             stale == w.stale \union taken
             untimed == w.untimed \union (taken \ timed)
             place == IF w.unlisted # {x} THEN "list"
                      ELSE IF w.kind = "orphans" THEN "confirm" ELSE "terminate"
  <2>1. sweeps'[s] = [w EXCEPT !.unlisted = unlisted, !.stale = stale, !.untimed = untimed,
                               !.pc = place]
    BY <1>4 DEF Listed
  <2>2. /\ w \in Sweep /\ w.unlisted \in SUBSET Prefixes
        /\ w.stale \in SUBSET Pods /\ w.untimed \in SUBSET Pods
    BY <1>4 DEF Sweep
  <2>3. /\ unlisted \in SUBSET Prefixes /\ stale \in SUBSET Pods /\ untimed \in SUBSET Pods
        /\ place \in {"idle", "list", "confirm", "terminate", "done", "aborted"}
    BY <1>3, <2>2
  <2> HIDE DEF unlisted, stale, untimed, place, w
  <2>4. QED
    BY <2>1, <2>2, <2>3 DEF Sweep
<1>6. LET w == sweeps[s]
          v == sweeps'[s]
      IN  /\ v.kind = w.kind /\ v.olderThan = w.olderThan /\ v.clock = w.clock
          /\ v.known = w.known /\ v.terminated = w.terminated /\ v.failed = w.failed
          /\ v.unlisted = w.unlisted \ {x} /\ v.stale = w.stale \union taken
          /\ v.untimed = w.untimed \union (taken \ timed)
          /\ \/ v.pc = "list"
             \/ v.pc \in {"confirm", "terminate"} /\ v.unlisted = {}
  BY <1>4 DEF Sweep, Listed
<1>7. QED
  BY <1>3, <1>5, <1>6 DEF taken

(* After its listings a sweep keeps what it has read.                      *)
LEMMA AfterListing ==
  ASSUME SweepTypeOK, NEW s \in Sweepers,
         ListRaises(s) \/ Confirm(s) \/ Terminate(s) \/ Conclude(s)
  PROVE  LET w == sweeps[s]
             v == sweeps'[s]
         IN  /\ v.kind = w.kind /\ v.olderThan = w.olderThan /\ v.clock = w.clock
             /\ v.known = w.known /\ v.unlisted = w.unlisted
             /\ v.stale = w.stale /\ v.untimed = w.untimed
             /\ w.pc \in {"list", "confirm", "terminate"}
             /\ \/ v.pc = "aborted"
                \/ w.pc \in {"confirm", "terminate"} /\ v.pc = "terminate"
                \/ Conclude(s) /\ v.pc = "done"
<1> USE DEF SweepTypeOK, Sweep
<1>1. CASE ListRaises(s)
  BY <1>1 DEF ListRaises
<1>2. CASE Confirm(s)
  BY <1>2 DEF Confirm
<1>3. CASE Terminate(s)
  <2>1. PICK p \in sweeps[s].stale :
          \/ sweeps' = [sweeps EXCEPT ![s].terminated = @ \union {p}]
          \/ sweeps' = [sweeps EXCEPT ![s].failed = @ \union {p}]
    BY <1>3 DEF Terminate
  <2>2. sweeps[s].pc = "terminate"
    BY <1>3 DEF Terminate
  <2>3. QED
    BY <2>1, <2>2
<1>4. CASE Conclude(s)
  BY <1>4 DEF Conclude
<1>5. QED
  BY <1>1, <1>2, <1>3, <1>4

(* One sweep's record changes, and only that.                              *)
LEMMA SweepRecord ==
  ASSUME SweepTypeOK, NEW s \in Sweepers, Begin(s) \/ SweepStep(s) \/ Confirm(s)
  PROVE  /\ sweeps' \in [Sweepers -> Sweep]
         /\ sweeps'[s].kind = sweeps[s].kind /\ sweeps'[s].olderThan = sweeps[s].olderThan
<1> USE DEF SweepTypeOK
<1> DEFINE w == sweeps[s]
<1>1. CASE Begin(s)
  <2>1. sweeps'[s] = [w EXCEPT !.pc = "list", !.clock = now, !.known = known]
    BY <1>1 DEF Begin
  <2>2. w \in Sweep
    OBVIOUS
  <2>3. sweeps'[s] \in Sweep /\ sweeps'[s].kind = w.kind /\ sweeps'[s].olderThan = w.olderThan
    BY <2>1, <2>2 DEF Sweep
  <2>4. QED
    BY <1>1, <2>3 DEF Begin
<1>2. CASE List(s)
  <2>1. sweeps'[s] \in Sweep /\ sweeps'[s].kind = w.kind /\ sweeps'[s].olderThan = w.olderThan
    BY <1>2, ListEffect
  <2>2. QED
    BY <1>2, <2>1 DEF List
<1>3. CASE ListRaises(s) \/ Confirm(s) \/ Conclude(s)
  BY <1>3 DEF ListRaises, Confirm, Conclude, Sweep
<1>4. CASE Terminate(s)
  <2>1. PICK p \in sweeps[s].stale :
          \/ sweeps' = [sweeps EXCEPT ![s].terminated = @ \union {p}]
          \/ sweeps' = [sweeps EXCEPT ![s].failed = @ \union {p}]
    BY <1>4 DEF Terminate
  <2>2. p \in Pods
    BY DEF Sweep
  <2>3. QED
    BY <2>1, <2>2 DEF Sweep
<1>5. QED
  BY <1>1, <1>2, <1>3, <1>4 DEF SweepStep

(* Every step keeps the types; an age is that of a pod that exists.        *)
LEMMA SweepTypesPreserved ==
  SweepTypeOK /\ PodTimes /\ [SweepNext]_sweepVars => SweepTypeOK'
<1> SUFFICES ASSUME SweepTypeOK, PodTimes, [SweepNext]_sweepVars PROVE SweepTypeOK'
  OBVIOUS
<1> USE SweepAssumption
<1>1. ASSUME NEW p \in Pods, Owner(p) PROVE SweepTypeOK'
  BY <1>1, OwnerSteps DEF SweepTypeOK
<1>2. ASSUME NEW s \in Sweepers, Begin(s) \/ SweepStep(s) \/ Confirm(s) PROVE SweepTypeOK'
  <2>1. kills' \subseteq [kind : Kinds, age : Times, timed : BOOLEAN, owned : BOOLEAN,
                          olderThan : OlderThans \union {NotGiven}]
    <3>1. CASE UNCHANGED kills
      BY <3>1 DEF SweepTypeOK
    <3>2. CASE Terminate(s)
      <4> DEFINE kill(p) == [kind |-> sweeps[s].kind, age |-> now - born[p],
                             timed |-> p \notin sweeps[s].untimed, owned |-> p \in Owned,
                             olderThan |-> sweeps[s].olderThan]
                 Kills == [kind : Kinds, age : Times, timed : BOOLEAN, owned : BOOLEAN,
                           olderThan : OlderThans \union {NotGiven}]
      <4>1. PICK p \in sweeps[s].stale :
              kills' = IF Exists(p) /\ status'[p] = "gone" THEN kills \union {kill(p)} ELSE kills
        BY <3>2 DEF Terminate
      <4>2. p \in Pods /\ sweeps[s].kind \in Kinds /\ sweeps[s].olderThan \in OlderThans \union {NotGiven}
        BY DEF SweepTypeOK, Sweep
      <4>3. Exists(p) => kill(p) \in Kills
        <5>1. Exists(p) => now - born[p] \in Times
          BY <4>2 DEF SweepTypeOK, PodTimes, Times
        <5>2. QED
          BY <4>2, <5>1
      <4>4. kills \subseteq Kills
        BY DEF SweepTypeOK
      <4> HIDE DEF kill, Kills
      <4>5. kills' \subseteq Kills
        BY <4>1, <4>3, <4>4
      <4>6. QED
        BY <4>5 DEF Kills
    <3>3. QED
      BY <1>2, <3>1, <3>2, SweepSteps
  <2>2. QED
    BY <1>2, <2>1, SweepSteps, SweepRecord DEF SweepTypeOK
<1>3. CASE Tick
  BY <1>3 DEF Tick, SweepTypeOK, podVars, Times
<1>4. CASE UNCHANGED sweepVars
  BY <1>4 DEF sweepVars, podVars, SweepTypeOK
<1>5. QED
  BY <1>1, <1>2, <1>3, <1>4 DEF SweepNext

(* Time only moves the clock forward.                                      *)
LEMMA PodTimesPreserved ==
  SweepTypeOK /\ PodTimes /\ [SweepNext]_sweepVars => PodTimes'
<1> SUFFICES ASSUME SweepTypeOK, PodTimes, [SweepNext]_sweepVars PROVE PodTimes'
  OBVIOUS
<1> USE SweepAssumption DEF SweepTypeOK, PodTimes, Exists, podVars, Times
<1>1. ASSUME NEW p \in Pods, Owner(p) PROVE PodTimes'
  <2>1. CASE ChooseName(p)
    BY <2>1 DEF ChooseName
  <2>2. CASE CreatePod(p)
    BY <2>2 DEF CreatePod
  <2>3. CASE Register(p) \/ Stop(p) \/ Resume(p) \/ OwnerTerminates(p)
    BY <2>3 DEF Register, Stop, Resume, OwnerTerminates
  <2>4. QED
    BY <1>1, <2>1, <2>2, <2>3 DEF Owner
<1>2. ASSUME NEW s \in Sweepers, Begin(s) \/ SweepStep(s) \/ Confirm(s) PROVE PodTimes'
  BY <1>2, SweepSteps
<1>3. CASE Tick
  BY <1>3 DEF Tick
<1>4. CASE UNCHANGED sweepVars
  BY <1>4 DEF sweepVars
<1>5. QED
  BY <1>1, <1>2, <1>3, <1>4 DEF SweepNext

(* A pod that exists after a step existed before it, or was just created.  *)
LEMMA WhoExists ==
  ASSUME SweepTypeOK, PodTimes, [SweepNext]_sweepVars, NEW p \in Pods, Exists(p)'
  PROVE  \/ Exists(p) /\ born'[p] = born[p] /\ booted[p] <= booted'[p] /\ stamp'[p] = stamp[p]
         \/ born'[p] = now /\ now' = now /\ UNCHANGED sweeps
<1> USE SweepAssumption DEF SweepTypeOK, PodTimes, Exists, podVars, Times
<1>1. ASSUME NEW q \in Pods, Owner(q)
      PROVE  \/ Exists(p) /\ born'[p] = born[p] /\ booted[p] <= booted'[p] /\ stamp'[p] = stamp[p]
             \/ born'[p] = now /\ now' = now /\ UNCHANGED sweeps
  <2>1. CASE ChooseName(q) \/ CreatePod(q) \/ Register(q)
    BY <2>1 DEF ChooseName, CreatePod, Register
  <2>2. CASE Stop(q) \/ Resume(q) \/ OwnerTerminates(q)
    BY <2>2 DEF Stop, Resume, OwnerTerminates
  <2>3. QED
    BY <1>1, <2>1, <2>2 DEF Owner
<1>2. ASSUME NEW s \in Sweepers, Begin(s) \/ SweepStep(s) \/ Confirm(s)
      PROVE  Exists(p) /\ born'[p] = born[p] /\ booted[p] <= booted'[p] /\ stamp'[p] = stamp[p]
  BY <1>2, SweepSteps
<1>3. CASE Tick \/ UNCHANGED sweepVars
  BY <1>3 DEF Tick, sweepVars
<1>4. QED
  BY <1>1, <1>2, <1>3 DEF SweepNext

(* A pod that was created stays so, with its creation time.                *)
LEMMA CreatedStays ==
  ASSUME SweepTypeOK, [SweepNext]_sweepVars, NEW p \in Pods, status[p] \notin {"none", "named"}
  PROVE  /\ status'[p] \notin {"none", "named"} /\ born'[p] = born[p]
         /\ status[p] = "gone" => status'[p] = "gone"
<1> USE DEF SweepTypeOK, Exists, podVars
<1>1. ASSUME NEW q \in Pods, Owner(q)
      PROVE  /\ status'[p] \notin {"none", "named"} /\ born'[p] = born[p]
             /\ status[p] = "gone" => status'[p] = "gone"
  BY <1>1 DEF Owner, ChooseName, CreatePod, Register, Stop, Resume, OwnerTerminates
<1>2. ASSUME NEW s \in Sweepers, Begin(s) \/ SweepStep(s) \/ Confirm(s)
      PROVE  /\ status'[p] \notin {"none", "named"} /\ born'[p] = born[p]
             /\ status[p] = "gone" => status'[p] = "gone"
  BY <1>2, SweepSteps
<1>3. CASE Tick \/ UNCHANGED sweepVars
  BY <1>3 DEF Tick, sweepVars
<1>4. QED
  BY <1>1, <1>2, <1>3 DEF SweepNext

(* Tick waits for owners and listings, and nothing else lets them be late. *)
LEMMA InDelayPreserved ==
  SweepTypeOK /\ PodTimes /\ InDelay /\ [SweepNext]_sweepVars => InDelay'
<1> SUFFICES ASSUME SweepTypeOK, PodTimes, InDelay, [SweepNext]_sweepVars PROVE InDelay'
  OBVIOUS
<1> USE SweepAssumption DEF InDelay, Times
<1>1. ASSUME NEW q \in Pods, Owner(q) PROVE InDelay'
  <2>1. ASSUME NEW p \in Owned \ known', Exists(p)' PROVE now' <= born'[p] + RegisterDelay
    <3>1. p \in Pods /\ p \notin known /\ now' = now /\ born' \in [Pods -> Times]
      BY <1>1, <2>1, OwnerSteps
    <3>2. QED
      BY <2>1, <3>1, WhoExists DEF SweepTypeOK
  <2>2. QED
    BY <1>1, <2>1, OwnerSteps
<1>2. ASSUME NEW s \in Sweepers, Begin(s) \/ SweepStep(s) \/ Confirm(s) PROVE InDelay'
  <2>1. sweeps'[s].clock <= now /\ (sweeps'[s].pc = "list" => now <= sweeps'[s].clock + ListDelay)
    <3> USE DEF SweepTypeOK
    <3>1. CASE Begin(s)
      BY <3>1 DEF Begin, Sweep
    <3>2. CASE List(s)
      BY <3>2, ListEffect DEF List
    <3>3. CASE ListRaises(s) \/ Confirm(s) \/ Conclude(s) \/ Terminate(s)
      BY <3>3, AfterListing
    <3>4. QED
      BY <1>2, <3>1, <3>2, <3>3 DEF SweepStep
  <2>2. \A p \in Pods : Exists(p)' => Exists(p)
    BY <1>2, SweepSteps DEF Exists
  <2>3. QED
    BY <1>2, <2>1, <2>2, SweepSteps DEF SweepTypeOK
<1>3. CASE Tick
  BY <1>3 DEF Tick, podVars, Exists, SweepTypeOK, Sweep
<1>4. CASE UNCHANGED sweepVars
  BY <1>4 DEF sweepVars, podVars, Exists
<1>5. QED
  BY <1>1, <1>2, <1>3, <1>4 DEF SweepNext

(* A sweep reads the known ids and the clock in one step.                  *)
LEMMA KnownInTimePreserved ==
  SweepTypeOK /\ PodTimes /\ InDelay /\ KnownInTime /\ [SweepNext]_sweepVars => KnownInTime'
<1> SUFFICES ASSUME SweepTypeOK, PodTimes, InDelay, KnownInTime, [SweepNext]_sweepVars,
                    NEW s \in Sweepers, NEW p \in Owned,
                    sweeps'[s].pc # "idle", p \notin sweeps'[s].known, Exists(p)'
             PROVE  sweeps'[s].clock <= born'[p] + RegisterDelay
  BY DEF KnownInTime
<1> USE SweepAssumption
<1>1. \/ sweeps'[s] = sweeps[s]
      \/ /\ sweeps'[s].clock = sweeps[s].clock /\ sweeps'[s].known = sweeps[s].known
         /\ sweeps[s].pc # "idle"
      \/ Begin(s)
  <2>1. CASE \E q \in Pods : Owner(q)
    BY <2>1, OwnerSteps
  <2>2. ASSUME NEW t \in Sweepers, Begin(t) \/ SweepStep(t) \/ Confirm(t), t # s
        PROVE  sweeps'[s] = sweeps[s]
    BY <2>2, SweepSteps
  <2>3. CASE Begin(s) \/ SweepStep(s) \/ Confirm(s)
    <3>1. CASE List(s)
      BY <3>1, ListEffect DEF List
    <3>2. CASE ListRaises(s) \/ Confirm(s) \/ Conclude(s) \/ Terminate(s)
      BY <3>2, AfterListing
    <3>3. QED
      BY <2>3, <3>1, <3>2 DEF SweepStep
  <2>4. CASE Tick \/ UNCHANGED sweepVars
    BY <2>4 DEF Tick, sweepVars
  <2>5. QED
    BY <2>1, <2>2, <2>3, <2>4 DEF SweepNext
<1>2. CASE Begin(s)
  <2>1. sweeps'[s].clock = now /\ sweeps'[s].known = known /\ UNCHANGED podVars
    BY <1>2 DEF Begin, SweepTypeOK, Sweep
  <2>2. QED
    BY <2>1 DEF InDelay, podVars, Exists
<1>3. CASE ~Begin(s)
  <2>1. sweeps[s].pc # "idle" /\ p \notin sweeps[s].known /\ sweeps'[s].clock = sweeps[s].clock
    BY <1>1, <1>3
  <2>2. sweeps[s].clock \in Nat /\ sweeps[s].clock <= now /\ now \in Nat
    BY DEF SweepTypeOK, Sweep, InDelay, Times
  <2>3. QED
    BY <2>1, <2>2, WhoExists DEF KnownInTime
<1>4. QED
  BY <1>2, <1>3

(* A young pod was missing from the ids, an old one was listed as old.     *)
LEMMA SelectionPreserved ==
  SweepTypeOK /\ PodTimes /\ InDelay /\ KnownInTime /\ Selection /\ [SweepNext]_sweepVars
    => Selection'
<1> SUFFICES ASSUME SweepTypeOK, PodTimes, InDelay, KnownInTime, Selection,
                    [SweepNext]_sweepVars,
                    NEW s \in Sweepers, NEW p \in sweeps'[s].stale
             PROVE  /\ status'[p] \notin {"none", "named"}
                    /\ sweeps'[s].kind = "orphans" /\ p \in Owned
                         => sweeps'[s].olderThan <= RegisterDelay + ListDelay
                    /\ sweeps'[s].kind = "prune" /\ p \notin sweeps'[s].untimed
                         => now' - born'[p] >= StaleAge
  BY DEF Selection
<1> USE SweepAssumption
<1>1. p \in Pods
  BY SweepTypesPreserved DEF SweepTypeOK, Sweep
<1>2. sweeps'[s].kind = sweeps[s].kind /\ sweeps'[s].olderThan = sweeps[s].olderThan
  <2>1. CASE \E q \in Pods : Owner(q)
    BY <2>1, OwnerSteps
  <2>2. CASE \E t \in Sweepers : Begin(t) \/ SweepStep(t) \/ Confirm(t)
    BY <2>2, SweepSteps, SweepRecord
  <2>3. CASE Tick \/ UNCHANGED sweepVars
    BY <2>3 DEF Tick, sweepVars
  <2>4. QED
    BY <2>1, <2>2, <2>3 DEF SweepNext
<1>3. now <= now' /\ now \in Nat /\ now' \in Nat /\ \A q \in Pods : born[q] \in Nat
  <2>1. CASE \E q \in Pods : Owner(q)
    BY <2>1, OwnerSteps DEF SweepTypeOK, Times
  <2>2. CASE \E t \in Sweepers : Begin(t) \/ SweepStep(t) \/ Confirm(t)
    BY <2>2, SweepSteps DEF SweepTypeOK, Times
  <2>3. CASE Tick \/ UNCHANGED sweepVars
    BY <2>3 DEF Tick, sweepVars, SweepTypeOK, Times
  <2>4. QED
    BY <2>1, <2>2, <2>3 DEF SweepNext
<1>4. CASE p \in sweeps[s].stale /\ sweeps'[s].untimed = sweeps[s].untimed
  BY <1>1, <1>2, <1>3, <1>4, CreatedStays DEF Selection
<1>5. CASE List(s)
  <2>1. PICK x \in sweeps[s].unlisted, timed \in SUBSET Pods, dated \in BOOLEAN :
          LET taken == Taken(s, x, timed, dated)
          IN  /\ sweeps'[s].stale = sweeps[s].stale \union taken
              /\ sweeps'[s].untimed = sweeps[s].untimed \union (taken \ timed)
    BY <1>5, ListEffect
  <2>2. UNCHANGED <<now, podVars>>
    BY <1>5 DEF List
  <2>3. CASE p \in sweeps[s].stale
    BY <1>1, <1>2, <2>1, <2>2, <2>3 DEF Selection, podVars
  <2>4. CASE Exists(p) /\ Selects(s, p, timed, dated) /\ (p \in timed \/ p \in sweeps'[s].untimed)
    <3>1. born[p] <= booted[p] /\ now \in Nat /\ born[p] \in Nat /\ booted[p] \in Nat
      BY <1>1, <2>4 DEF PodTimes, SweepTypeOK, Times
    <3>2. ASSUME sweeps[s].kind = "orphans", p \in Owned
          PROVE  sweeps[s].olderThan <= RegisterDelay + ListDelay
      <4>1. sweeps[s].olderThan \in Int /\ sweeps[s].clock \in Nat
        <5>1. sweeps[s] \in Sweep
          BY DEF SweepTypeOK
        <5>2. sweeps[s].olderThan \in OlderThans \union {NotGiven} /\ sweeps[s].clock \in Times
          BY <5>1 DEF Sweep
        <5>3. OlderThans \union {NotGiven} \subseteq Int /\ Times \subseteq Nat
          BY SweepAssumption DEF Times, NotGiven
        <5>4. QED
          BY <5>2, <5>3
      <4>2. sweeps[s].olderThan # NotGiven => now - booted[p] >= sweeps[s].olderThan
        BY <2>4, <3>2 DEF Selects
      <4>3. p \notin sweeps[s].known /\ sweeps[s].pc = "list"
        BY <1>5, <2>4, <3>2 DEF Selects, List
      <4>4. sweeps[s].clock <= born[p] + RegisterDelay /\ now <= sweeps[s].clock + ListDelay
        BY <2>4, <3>2, <4>3 DEF KnownInTime, InDelay
      <4>5. {RegisterDelay, ListDelay} \subseteq Nat
        BY SweepAssumption
      <4>6. QED
        BY <3>1, <4>1, <4>2, <4>4, <4>5 DEF NotGiven
    <3>3. ASSUME sweeps[s].kind = "prune", p \in timed PROVE now - born[p] >= StaleAge
      <4>1. now - booted[p] >= StaleAge
        BY <2>4, <3>3 DEF Selects, PodAge
      <4>2. QED
        BY <3>1, <4>1
    <3>4. QED
      BY <1>2, <2>2, <2>4, <3>2, <3>3 DEF podVars, Exists
  <2>5. QED
    BY <2>1, <2>3, <2>4 DEF Taken
<1>6. CASE ~List(s)
  <2>1. CASE \E q \in Pods : Owner(q)
    BY <1>4, <2>1, OwnerSteps
  <2>2. ASSUME NEW t \in Sweepers, Begin(t) \/ SweepStep(t) \/ Confirm(t), t # s
        PROVE  sweeps'[s] = sweeps[s]
    BY <2>2, SweepSteps
  <2>3. CASE Begin(s)
    <3>1. p \in sweeps[s].stale /\ sweeps'[s].untimed = sweeps[s].untimed
      BY <2>3 DEF Begin, SweepTypeOK, Sweep
    <3>2. QED
      BY <1>4, <3>1
  <2>4. CASE SweepStep(s) \/ Confirm(s)
    BY <1>4, <1>6, <2>4, AfterListing DEF SweepStep
  <2>5. CASE Tick \/ UNCHANGED sweepVars
    BY <1>4, <2>5 DEF Tick, sweepVars
  <2>6. QED
    BY <1>4, <2>1, <2>2, <2>3, <2>4, <2>5 DEF SweepNext
<1>7. QED
  BY <1>5, <1>6

(* A listing takes what is due under its prefix, and nothing becomes due.  *)
LEMMA CompletePreserved ==
  SweepTypeOK /\ PodTimes /\ InDelay /\ Selection /\ Complete /\ [SweepNext]_sweepVars => Complete'
<1> SUFFICES ASSUME SweepTypeOK, PodTimes, InDelay, Selection, Complete, [SweepNext]_sweepVars,
                    NEW s \in Sweepers
             PROVE  /\ \A p \in Pods : Due(s, p)' /\ PrefixOf[p] \notin sweeps'[s].unlisted
                                         => p \in sweeps'[s].stale
                    /\ \A p \in sweeps'[s].terminated : status'[p] = "gone"
                    /\ sweeps'[s].pc = "idle" => sweeps'[s].unlisted = Prefixes
                    /\ sweeps'[s].pc \in {"terminate", "confirm", "done"}
                         => sweeps'[s].unlisted = {}
                    /\ sweeps'[s].pc = "done"
                         => sweeps'[s].stale = sweeps'[s].terminated \union sweeps'[s].failed
  BY DEF Complete
<1> USE SweepAssumption
<1> DEFINE w == sweeps[s]
           v == sweeps'[s]
<1>1. w \in Sweep /\ now \in Nat /\ w.clock \in Nat /\ w.clock <= now
  BY DEF SweepTypeOK, Sweep, Times, InDelay
<1>2. ASSUME NEW p \in Pods, Due(s, p)', v.kind = w.kind, v.olderThan = w.olderThan,
             v.clock = w.clock
      PROVE  Due(s, p)
  <2>1. Exists(p) /\ born'[p] = born[p] /\ booted[p] <= booted'[p]
    BY <1>1, <1>2, WhoExists DEF Due
  <2>2. booted[p] \in Nat /\ booted'[p] \in Nat /\ StaleAge \in Nat
    BY SweepTypesPreserved DEF SweepTypeOK, Times
  <2>3. QED
    BY <1>1, <1>2, <2>1, <2>2 DEF Due
<1>3. ASSUME NEW p \in w.terminated PROVE status'[p] = "gone"
  <2>1. p \in Pods /\ status[p] = "gone"
    BY <1>1 DEF Complete, Sweep
  <2>2. QED
    BY <2>1, CreatedStays
<1>4. CASE UNCHANGED w
  BY <1>2, <1>3, <1>4 DEF Complete
<1>5. CASE Begin(s)
  <2>1. v.unlisted = Prefixes /\ v.terminated = w.terminated /\ v.pc = "list"
    BY <1>1, <1>5 DEF Begin, Complete, Sweep, SweepTypeOK
  <2>2. QED
    BY <1>3, <2>1 DEF Due
<1>6. CASE List(s)
  <2>1. PICK x \in w.unlisted, timed \in SUBSET Pods, dated \in BOOLEAN :
          LET taken == Taken(s, x, timed, dated)
          IN  /\ v.kind = w.kind /\ v.olderThan = w.olderThan /\ v.clock = w.clock
              /\ v.terminated = w.terminated
              /\ v.unlisted = w.unlisted \ {x} /\ v.stale = w.stale \union taken
              /\ \/ v.pc = "list"
                 \/ v.pc \in {"confirm", "terminate"} /\ v.unlisted = {}
    BY <1>6, ListEffect
  <2>2. ASSUME NEW p \in Pods, Due(s, p), PrefixOf[p] = x PROVE Selects(s, p, timed, dated)
    <3>1. CASE w.kind = "cleanup"
      BY <2>2, <3>1 DEF Due, Selects
    <3>2. CASE w.kind = "prune"
      <4>1. /\ stamp[p] \in Nat /\ born[p] \in Nat /\ booted[p] \in Nat /\ StaleAge \in Nat
            /\ stamp[p] <= born[p] /\ born[p] <= booted[p] /\ booted[p] + StaleAge <= w.clock
            /\ p \in Stamped
        BY <2>2, <3>2 DEF Due, PodTimes, SweepTypeOK, Times
      <4>2. PodAge(s, p, timed, dated) >= StaleAge
        BY <1>1, <4>1 DEF PodAge
      <4>3. QED
        BY <3>2, <4>2 DEF Selects
    <3>3. QED
      BY <2>2, <3>1, <3>2 DEF Due
  <2>3. ASSUME NEW p \in Pods, Due(s, p)', PrefixOf[p] \notin v.unlisted PROVE p \in v.stale
    <3>1. Due(s, p)
      BY <1>2, <2>1, <2>3
    <3>2. CASE PrefixOf[p] = x
      BY <2>1, <2>2, <3>1, <3>2 DEF Due, Taken
    <3>3. CASE PrefixOf[p] # x
      BY <2>1, <2>3, <3>1, <3>3 DEF Complete
    <3>4. QED
      BY <3>2, <3>3
  <2>4. QED
    BY <1>3, <2>1, <2>3
<1>7. CASE ListRaises(s) \/ Confirm(s) \/ Terminate(s) \/ Conclude(s)
  <2>1. /\ v.kind = w.kind /\ v.olderThan = w.olderThan /\ v.clock = w.clock
        /\ v.unlisted = w.unlisted /\ v.stale = w.stale
        /\ \/ v.pc = "aborted"
           \/ w.pc \in {"confirm", "terminate"} /\ v.pc = "terminate"
           \/ w.pc \in {"confirm", "terminate"} /\ Conclude(s) /\ v.pc = "done"
    BY <1>7, AfterListing DEF Conclude
  <2>2. \A p \in v.terminated : status'[p] = "gone"
    <3>1. CASE Terminate(s)
      <4>1. PICK p \in w.stale :
              \/ /\ sweeps' = [sweeps EXCEPT ![s].terminated = @ \union {p}]
                 /\ status' = [status EXCEPT ![p] = "gone"]
              \/ sweeps' = [sweeps EXCEPT ![s].failed = @ \union {p}]
        BY <3>1 DEF Terminate
      <4>2. p \in Pods
        BY <1>1 DEF Sweep
      <4>3. \/ v.terminated = w.terminated
            \/ v.terminated = w.terminated \union {p} /\ status'[p] = "gone"
        <5>1. CASE /\ sweeps' = [sweeps EXCEPT ![s].terminated = @ \union {p}]
                   /\ status' = [status EXCEPT ![p] = "gone"]
          BY <1>1, <4>2, <5>1 DEF SweepTypeOK, Sweep
        <5>2. CASE sweeps' = [sweeps EXCEPT ![s].failed = @ \union {p}]
          BY <1>1, <5>2 DEF SweepTypeOK, Sweep
        <5>3. QED
          BY <4>1, <5>1, <5>2
      <4>4. QED
        BY <1>3, <4>3
    <3>2. CASE ListRaises(s) \/ Confirm(s) \/ Conclude(s)
      BY <1>1, <1>3, <3>2 DEF ListRaises, Confirm, Conclude, SweepTypeOK, Sweep
    <3>3. QED
      BY <1>7, <3>1, <3>2
  <2>3. Conclude(s) => v.stale = v.terminated \union v.failed
    BY <1>1 DEF Conclude, SweepTypeOK, Sweep
  <2>4. QED
    BY <1>2, <2>1, <2>2, <2>3 DEF Complete
<1>8. QED
  <2>1. CASE \E q \in Pods : Owner(q)
    BY <1>4, <2>1, OwnerSteps
  <2>2. ASSUME NEW t \in Sweepers, Begin(t) \/ SweepStep(t) \/ Confirm(t), t # s PROVE UNCHANGED w
    BY <2>2, SweepSteps
  <2>3. CASE Tick \/ UNCHANGED sweepVars
    BY <1>4, <2>3 DEF Tick, sweepVars
  <2>4. QED
    BY <1>4, <1>5, <1>6, <1>7, <2>1, <2>2, <2>3 DEF SweepNext, SweepStep

-----------------------------------------------------------------------------
(* What a sweep has terminated it had the right to terminate.              *)
LEMMA KillsPreserved ==
  SweepTypeOK /\ Selection /\ OwnedIsSpared /\ UptimeProtects /\ [SweepNext]_sweepVars
    => OwnedIsSpared' /\ UptimeProtects'
<1> SUFFICES ASSUME SweepTypeOK, Selection, OwnedIsSpared, UptimeProtects, [SweepNext]_sweepVars
             PROVE  OwnedIsSpared' /\ UptimeProtects'
  OBVIOUS
<1>1. CASE UNCHANGED kills
  BY <1>1 DEF OwnedIsSpared, UptimeProtects
<1>2. ASSUME NEW s \in Sweepers, Terminate(s) PROVE OwnedIsSpared' /\ UptimeProtects'
  <2> DEFINE kill(p) == [kind |-> sweeps[s].kind, age |-> now - born[p],
                         timed |-> p \notin sweeps[s].untimed, owned |-> p \in Owned,
                         olderThan |-> sweeps[s].olderThan]
  <2>1. PICK p \in sweeps[s].stale :
          kills' = IF Exists(p) /\ status'[p] = "gone" THEN kills \union {kill(p)} ELSE kills
    BY <1>2 DEF Terminate
  <2>2. kill(p).kind = "orphans" /\ kill(p).owned => kill(p).olderThan <= RegisterDelay + ListDelay
    BY DEF Selection
  <2>3. kill(p).kind = "prune" /\ kill(p).timed => kill(p).age >= StaleAge
    BY DEF Selection
  <2> HIDE DEF kill
  <2>4. QED
    BY <2>1, <2>2, <2>3 DEF OwnedIsSpared, UptimeProtects
<1>3. QED
  <2>1. ASSUME NEW s \in Sweepers, Begin(s) \/ SweepStep(s) \/ Confirm(s)
        PROVE  UNCHANGED kills \/ Terminate(s)
    BY <2>1, SweepSteps
  <2>2. CASE \E q \in Pods : Owner(q)
    BY <1>1, <2>2, OwnerSteps
  <2>3. CASE Tick \/ UNCHANGED sweepVars
    BY <1>1, <2>3 DEF Tick, sweepVars
  <2>4. QED
    BY <1>1, <1>2, <2>1, <2>2, <2>3 DEF SweepNext

-----------------------------------------------------------------------------
(* The invariant of the sweeps, for every behaviour.                       *)
LEMMA SweepInvariant == SweepSpec => []SweepIInv
<1>1. SweepIInv /\ [SweepNext]_sweepVars => SweepIInv'
  BY SweepTypesPreserved, PodTimesPreserved, InDelayPreserved, KnownInTimePreserved,
     SelectionPreserved, CompletePreserved, KillsPreserved DEF SweepIInv
<1>2. QED
  BY <1>1, InitSweep, PTL DEF SweepSpec

(* Every variable of the sweeps and the account keeps its type.            *)
THEOREM SweepTypeCorrect == SweepSpec => []SweepTypeOK
<1>1. SweepIInv => SweepTypeOK
  BY DEF SweepIInv
<1>2. QED
  BY <1>1, SweepInvariant, PTL

(* find-orphans never terminates a pod that its owner registers in time,   *)
(* whatever the delays, if --older-than exceeds their sum.                 *)
THEOREM OwnersAreSpared == SweepSpec => []OwnedIsSpared
<1>1. SweepIInv => OwnedIsSpared
  BY DEF SweepIInv
<1>2. QED
  BY <1>1, SweepInvariant, PTL

(* prune never terminates on a reported uptime a pod younger than its age. *)
THEOREM UptimesProtect == SweepSpec => []UptimeProtects
<1>1. SweepIInv => UptimeProtects
  BY DEF SweepIInv
<1>2. QED
  BY <1>1, SweepInvariant, PTL

(* A sweep that ends leaves behind nothing that it should have found.      *)
THEOREM SweepsAreComplete == SweepSpec => []SweepIsComplete
<1>1. SweepIInv => SweepIsComplete
  BY DEF SweepIInv, Complete, Due, SweepIsComplete, Exists
<1>2. QED
  BY <1>1, SweepInvariant, PTL

=============================================================================
