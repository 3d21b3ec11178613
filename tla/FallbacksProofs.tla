-------------------------- MODULE FallbacksProofs --------------------------
(***************************************************************************)
(* create_pod_with_fallbacks for any number of GPUs, volumes and passes:   *)
(* types, an honest end, and at most one pod, the requests whose transport *)
(* error passed for a refusal apart.                                       *)
(***************************************************************************)
EXTENDS Fallbacks, TLAPS

(* Until the walk begins nothing is counted; during it, a combination has  *)
(* been refused once per pass, but for those this pass has still to try.   *)
Pending(c) == c \in todo \/ (pc = "create" /\ combo = c)

Counted ==
  /\ todo \subseteq gpus \X volumes
  /\ pc \in {"gpus", "volumes"} => pass = 0 /\ todo = {} /\ \A c \in Combos : refusals[c] = 0
  /\ pc = "create" => combo \in (gpus \X volumes) \ todo /\ attempts > 0
  /\ outcome \in {"open", "exhausted"} =>
       \A c \in Combos :
         refusals[c] = IF c \notin gpus \X volumes THEN 0
                       ELSE IF Pending(c) THEN pass - 1 ELSE pass
  /\ outcome = "open" <=> pc # "done"
  /\ outcome = "exhausted" => pass = MaxPasses /\ todo = {}

(* A request that was not misread is under way, or has become a pod, only  *)
(* inside its create or left behind by the one that ended the call.        *)
OneRequest ==
  /\ pc \notin {"create", "done"} => inflight \union allocated \subseteq misread
  /\ (inflight \union allocated) \ misread \subseteq {attempts}
  /\ pc = "create" => attempts \notin misread
  /\ inflight \intersect allocated = {}
  /\ outcome = "pod" => attempts \in allocated \ misread
  /\ outcome \in {"exhausted", "unresolved"} => inflight \union allocated \subseteq misread

TInv == TypeOK /\ Counted
-----------------------------------------------------------------------------
(* The combinations a pass walks over are pairs of the matrix.             *)
LEMMA MatrixInCombos == TypeOK => gpus \X volumes \subseteq Combos
BY DEF TypeOK, Combos

(* Nothing has been tried at the start.                                    *)
LEMMA InitTInv == Init => TInv
<1> SUFFICES ASSUME Init PROVE TInv
  OBVIOUS
<1>1. <<1, 0>> \in Combos
  BY FallbacksAssumption DEF Combos
<1>2. TypeOK
  BY <1>1, FallbacksAssumption DEF Init, TypeOK
<1>3. Counted
  BY FallbacksAssumption DEF Init, Counted, Pending
<1>4. QED
  BY <1>2, <1>3 DEF TInv

(* Every step keeps the types and the count of refusals.                   *)
LEMMA TInvPreserved == TInv /\ [Next]_vars => TInv'
<1> SUFFICES ASSUME TInv, [Next]_vars PROVE TInv'
  OBVIOUS
<1>0. TypeOK /\ Counted /\ gpus \X volumes \subseteq Combos
  BY MatrixInCombos DEF TInv
<1> USE FallbacksAssumption
<1>1. CASE ResolveGpu
  <2>1. next \in 1..NumGpus /\ next' \in 1..(NumGpus + 1)
    BY <1>0, <1>1 DEF ResolveGpu, missVars, TypeOK
  <2>2. gpus' \subseteq 1..NumGpus
    BY <1>0, <1>1, <2>1 DEF ResolveGpu, missVars, TypeOK
  <2>3. TypeOK'
    BY <1>0, <1>1, <2>1, <2>2 DEF ResolveGpu, missVars, TypeOK, Finish, cloudVars
  <2>4. todo' = {} /\ pass' = 0 /\ \A c \in Combos : refusals'[c] = 0
    BY <1>0, <1>1 DEF ResolveGpu, missVars, Counted
  <2>5. Counted'
    BY <1>0, <1>1, <2>4 DEF ResolveGpu, missVars, TypeOK, Counted, Pending, Finish, cloudVars
  <2>6. QED
    BY <2>3, <2>5 DEF TInv
<1>2. CASE GpusResolved
  <2>1. TypeOK'
    BY <1>0, <1>2 DEF GpusResolved, missVars, TypeOK, Finish, cloudVars
  <2>2. Counted'
    BY <1>0, <1>2 DEF GpusResolved, missVars, TypeOK, Counted, Pending, Finish, cloudVars
  <2>3. QED
    BY <2>1, <2>2 DEF TInv
<1>3. CASE ResolveVolumes
  <2>1. volumes' \subseteq 0..NumVolumes
    BY <1>3 DEF ResolveVolumes, missVars
  <2>2. TypeOK'
    BY <1>0, <1>3, <2>1 DEF ResolveVolumes, missVars, TypeOK, cloudVars
  <2>3. Counted'
    BY <1>0, <1>3 DEF ResolveVolumes, missVars, TypeOK, Counted, Pending, cloudVars
  <2>4. QED
    BY <2>2, <2>3 DEF TInv
<1>4. CASE BeginPass
  <2>1. TypeOK'
    BY <1>0, <1>4 DEF BeginPass, missVars, TypeOK, Finish, cloudVars
  <2>2. Counted'
    BY <1>0, <1>4 DEF BeginPass, missVars, TypeOK, Counted, Pending, Finish, cloudVars
  <2>3. QED
    BY <2>1, <2>2 DEF TInv
<1>5. CASE Attempt
  <2>1. PICK c \in todo : combo' = c /\ todo' = todo \ {c}
    BY <1>5 DEF Attempt, missVars
  <2>2. TypeOK'
    BY <1>0, <1>5, <2>1 DEF Attempt, missVars, TypeOK
  <2>3. Counted'
    BY <1>0, <1>5, <2>1 DEF Attempt, missVars, TypeOK, Counted, Pending
  <2>4. QED
    BY <2>2, <2>3 DEF TInv
<1>6. CASE CreateReturns
  <2>1. TypeOK'
    BY <1>0, <1>6 DEF CreateReturns, missVars, TypeOK, Finish, cloudVars
  <2>2. Counted'
    BY <1>0, <1>6 DEF CreateReturns, missVars, TypeOK, Counted, Finish, cloudVars
  <2>3. QED
    BY <2>1, <2>2 DEF TInv
<1>7. CASE CreateRaises
  <2>1. UNCHANGED cloudVars /\ attempts' = attempts /\ attempts \in 1..attempts
    BY <1>0, <1>7 DEF CreateRaises, TypeOK, Counted
  <2>2. misread' = misread \/ misread' = misread \union {attempts}
    BY <1>7 DEF CreateRaises, missVars
  <2>3. UNCHANGED cloudVars /\ misread' \subseteq 1..attempts'
    BY <1>0, <2>1, <2>2 DEF TypeOK
  <2>4. CASE pc' = "pass" /\ outcome' = outcome
             /\ refusals' = [refusals EXCEPT ![combo] = @ + 1]
    <3>1. refusals[combo] = pass - 1
      BY <1>0, <1>7 DEF CreateRaises, missVars, TypeOK, Counted, Pending
    <3>2. TypeOK'
      BY <1>0, <1>7, <2>3, <2>4, <3>1 DEF CreateRaises, missVars, TypeOK, cloudVars
    <3>3. Counted'
      BY <1>0, <1>7, <2>4, <3>1 DEF CreateRaises, missVars, TypeOK, Counted, Pending
    <3>4. QED
      BY <3>2, <3>3 DEF TInv
  <2>5. CASE pc' = "done" /\ outcome' = "error" /\ refusals' = refusals
    <3>1. TypeOK'
      BY <1>0, <1>7, <2>3, <2>5 DEF CreateRaises, missVars, TypeOK, cloudVars
    <3>2. Counted'
      BY <1>0, <1>7, <2>5 DEF CreateRaises, missVars, TypeOK, Counted
    <3>3. QED
      BY <3>1, <3>2 DEF TInv
  <2>6. QED
    BY <1>7, <2>4, <2>5 DEF CreateRaises, missVars, Finish
<1>8. CASE Decide
  <2>1. TypeOK'
    BY <1>0, <1>8 DEF Decide, missVars, TypeOK
  <2>2. Counted'
    BY <1>0, <1>8 DEF Decide, missVars, Counted, Pending
  <2>3. QED
    BY <2>1, <2>2 DEF TInv
<1>9. CASE UNCHANGED vars
  BY <1>9 DEF vars, missVars, cloudVars, TInv, TypeOK, Counted, Pending
<1>10. QED
  BY <1>1, <1>2, <1>3, <1>4, <1>5, <1>6, <1>7, <1>8, <1>9 DEF Next, Step

(* A step starts a request only when no other is under way that was not    *)
(* misread, and a request is left behind only misread or by the last step. *)
LEMMA OneRequestPreserved == TInv /\ OneRequest /\ [Next]_vars => OneRequest'
<1> SUFFICES ASSUME TInv, OneRequest, [Next]_vars PROVE OneRequest'
  OBVIOUS
<1>0. TypeOK /\ Counted
  BY DEF TInv
<1>1. CASE ResolveGpu
  BY <1>0, <1>1 DEF ResolveGpu, missVars, TypeOK, Counted, OneRequest, Finish, cloudVars
<1>2. CASE GpusResolved
  BY <1>0, <1>2 DEF GpusResolved, missVars, TypeOK, Counted, OneRequest, Finish, cloudVars
<1>3. CASE ResolveVolumes
  BY <1>0, <1>3 DEF ResolveVolumes, missVars, TypeOK, Counted, OneRequest, cloudVars
<1>4. CASE BeginPass
  BY <1>0, <1>4 DEF BeginPass, missVars, TypeOK, Counted, OneRequest, Finish, cloudVars
<1>5. CASE Attempt
  <2>1. attempts + 1 \notin allocated \union misread \union inflight
    BY <1>0 DEF TypeOK
  <2>2. inflight' = inflight \union {attempts + 1} /\ attempts' = attempts + 1
        /\ UNCHANGED <<misread, allocated, outcome>> /\ pc = "pass" /\ pc' = "create"
    BY <1>5 DEF Attempt, missVars
  <2>3. QED
    BY <1>0, <2>1, <2>2 DEF OneRequest, Counted
<1>6. CASE CreateReturns
  BY <1>0, <1>6 DEF CreateReturns, missVars, TypeOK, Counted, OneRequest, Finish, cloudVars
<1>7. CASE CreateRaises
  <2>1. PICK exc \in Errors :
          /\ ~exc.transport /\ exc.marker => attempts \notin inflight \union allocated
          /\ IF exc.marker
             THEN /\ pc' = "pass" /\ outcome' = outcome
                  /\ misread' = IF exc.transport /\ exc.marker
                                THEN misread \union {attempts} ELSE misread
             ELSE pc' = "done" /\ outcome' = "error" /\ misread' = misread
    BY <1>7 DEF CreateRaises, PermitsAnother, Finish, missVars
  <2>2. exc.transport \in BOOLEAN /\ exc.marker \in BOOLEAN
    BY DEF Errors
  <2>3. UNCHANGED <<inflight, allocated, attempts>> /\ outcome = "open" /\ pc = "create"
    BY <1>0, <1>7 DEF CreateRaises, cloudVars, Counted
  <2>4. CASE exc.marker
    <3>1. inflight \union allocated \subseteq misread'
      BY <2>1, <2>2, <2>4 DEF OneRequest
    <3>2. QED
      BY <2>1, <2>3, <2>4, <3>1 DEF OneRequest
  <2>5. CASE ~exc.marker
    BY <2>1, <2>3, <2>5 DEF OneRequest
  <2>6. QED
    BY <2>2, <2>4, <2>5
<1>8. CASE Decide
  <2>1. PICK n \in inflight :
          inflight' = inflight \ {n} /\ allocated' \in {allocated, allocated \union {n}}
    BY <1>8 DEF Decide
  <2>2. UNCHANGED <<pc, misread, attempts, outcome>>
    BY <1>8 DEF Decide, missVars
  <2>3. QED
    BY <2>1, <2>2 DEF OneRequest
<1>9. CASE UNCHANGED vars
  BY <1>9 DEF vars, missVars, cloudVars, OneRequest
<1>10. QED
  BY <1>1, <1>2, <1>3, <1>4, <1>5, <1>6, <1>7, <1>8, <1>9 DEF Next, Step

-----------------------------------------------------------------------------
(* Every variable keeps its type.                                          *)
THEOREM TypeCorrect == Spec => []TypeOK
<1>1. TInv => TypeOK
  BY DEF TInv
<1>2. QED
  BY <1>1, InitTInv, TInvPreserved, PTL DEF Spec

(* Requests misread apart, one call never makes the provider hold two      *)
(* pods, for any number of combinations and passes.                        *)
THEOREM SingleAllocation == Spec => []AtMostOnePod
<1>1. Init => TInv /\ OneRequest
  BY InitTInv DEF Init, OneRequest
<1>2. TInv /\ OneRequest /\ [Next]_vars => (TInv /\ OneRequest)'
  BY TInvPreserved, OneRequestPreserved
<1>3. TInv /\ OneRequest => AtMostOnePod
  BY DEF OneRequest, AtMostOnePod
<1>4. QED
  BY <1>1, <1>2, <1>3, PTL DEF Spec

(* Giving up as exhausted means that every combination missed in every     *)
(* pass, and that only a misread request can still become a pod.           *)
THEOREM HonestExhaustion == Spec => []ExhaustedIsHonest
<1>1. Init => TInv /\ OneRequest
  BY InitTInv DEF Init, OneRequest
<1>2. TInv /\ OneRequest /\ [Next]_vars => (TInv /\ OneRequest)'
  BY TInvPreserved, OneRequestPreserved
<1>3. TInv /\ OneRequest => ExhaustedIsHonest
  BY MatrixInCombos DEF TInv, TypeOK, Counted, Pending, OneRequest, ExhaustedIsHonest
<1>4. QED
  BY <1>1, <1>2, <1>3, PTL DEF Spec

-----------------------------------------------------------------------------
(* Each step allocates or reports as Custody allows, loses a request to a  *)
(* misread error, or changes neither the pods of the call that were not    *)
(* misread nor what its caller was told.                                   *)
LEMMA CustodyStep ==
  TInv /\ OneRequest /\ [Next]_vars
    => [Promise!Next \/ Loses]_<<allocated \ misread, Told>>
<1> SUFFICES ASSUME TInv, OneRequest, [Next]_vars
             PROVE  [Promise!Next \/ Loses]_<<allocated \ misread, Told>>
  OBVIOUS
<1>0. TypeOK /\ Counted
  BY DEF TInv
<1> DEFINE held == allocated \ misread
<1> USE DEF Promise!Next, Promise!Report, Promise!Allocate, Promise!Known,
      Promise!Nothing, Promise!Uncertain, Told
<1>1. CASE ResolveGpu
  BY <1>0, <1>1 DEF ResolveGpu, missVars, Counted, OneRequest, Finish, cloudVars
<1>2. CASE GpusResolved
  BY <1>0, <1>2 DEF GpusResolved, missVars, Counted, OneRequest, Finish, cloudVars
<1>3. CASE ResolveVolumes
  BY <1>3 DEF ResolveVolumes, missVars, cloudVars
<1>4. CASE BeginPass
  BY <1>0, <1>4 DEF BeginPass, missVars, Counted, OneRequest, Finish, cloudVars
<1>5. CASE Attempt
  BY <1>5 DEF Attempt, missVars
<1>6. CASE CreateReturns
  BY <1>0, <1>6 DEF CreateReturns, missVars, Counted, OneRequest, Finish, cloudVars
<1>7. CASE CreateRaises
  <2>1. UNCHANGED allocated /\ outcome = "open"
    BY <1>0, <1>7 DEF CreateRaises, cloudVars, Counted
  <2>2. CASE UNCHANGED outcome
    BY <2>1, <2>2 DEF Loses
  <2>3. CASE outcome' = "error" /\ UNCHANGED misread
    BY <2>1, <2>3
  <2>4. QED
    BY <1>7, <2>2, <2>3 DEF CreateRaises, missVars, Finish
<1>8. CASE Decide
  <2>1. PICK n \in inflight : allocated' \in {allocated, allocated \union {n}}
    BY <1>8 DEF Decide
  <2>2. UNCHANGED <<misread, outcome, attempts>>
    BY <1>8 DEF Decide, missVars
  <2>3. CASE n \in misread \/ allocated' = allocated
    BY <2>1, <2>2, <2>3
  <2>4. CASE n \notin misread /\ allocated' = allocated \union {n}
    <3>1. n = attempts /\ n \notin allocated
      BY <2>4 DEF OneRequest
    <3>2. held = {} /\ held' = {n}
      BY <2>2, <2>4, <3>1 DEF OneRequest
    <3>3. outcome \in {"open", "error"}
      BY <1>0, <2>4, <3>1 DEF OneRequest, TypeOK
    <3>4. QED
      BY <2>2, <3>2, <3>3
  <2>5. QED
    BY <2>1, <2>3, <2>4
<1>9. CASE UNCHANGED vars
  BY <1>9 DEF vars, missVars, cloudVars
<1>10. QED
  BY <1>1, <1>2, <1>3, <1>4, <1>5, <1>6, <1>7, <1>8, <1>9 DEF Next, Step

(* The synchronous walk keeps the promise that launch keeps for all its    *)
(* requests but those whose transport error passed for a refusal, and only *)
(* such an error takes a request out of the promise.                       *)
THEOREM FallbacksKeepCustody == Spec => KeepsCustody
<1>1. Init => TInv /\ OneRequest /\ Promise!Init
  BY InitTInv DEF Init, OneRequest, Promise!Init, Told
<1>2. TInv /\ OneRequest /\ [Next]_vars => (TInv /\ OneRequest)'
  BY TInvPreserved, OneRequestPreserved
<1>3. TInv /\ OneRequest /\ [Next]_vars
        => [Promise!Next \/ Loses]_<<allocated \ misread, Told>>
  BY CustodyStep
<1>4. QED
  BY <1>1, <1>2, <1>3, PTL DEF Spec, KeepsCustody

=============================================================================
