---------------------------- MODULE LaunchProofs ----------------------------
(***************************************************************************)
(* Proofs about Launch for every number of candidates, tiers, storages and *)
(* retries.  The inductive invariant ties the caller's place in the code   *)
(* to what the provider can hold: nothing while it still walks or waits,   *)
(* and at most the last request from the moment that request is issued.    *)
(***************************************************************************)
EXTENDS Launch, TLAPS

(* Places from which another create request can still be issued.           *)
Walking == {"announce", "storage", "candidate", "resolve", "pair", "expand",
            "failing", "giveup", "backoff", "sleep"}

(* The indices a place relies on.                                          *)
Indices ==
  /\ pc \in {"resolve", "pair", "expand", "create", "notify", "reportUnknown"}
       => gpu <= NumGpus
  /\ pc = "expand" => pair[2] \in Storages

(* What the provider can hold, by place and by outcome.                    *)
Holdings ==
  /\ pc \in Walking => allocated = {} /\ inflight = {}
  /\ pc = "create" => allocated = {} /\ inflight = {creates}
  /\ allocated \union inflight \subseteq {creates}
  /\ pc = "notify" \/ outcome \in {"pod", "named"} => allocated = {creates} /\ inflight = {}
  /\ outcome \in {"failed", "raised"} => allocated = {} /\ inflight = {}
  /\ outcome = "open" <=> pc # "done"

(* A launch that began late is the last one.                               *)
Lateness ==
  /\ late <= 1
  /\ late = 1 => now >= MaxWait /\ pc \notin {"announce", "backoff", "sleep"}

IInv == TypeOK /\ Indices /\ Holdings /\ Lateness
-----------------------------------------------------------------------------
(* check_and_expand_storage asks for a natural number of gigabytes.        *)
LEMMA GrownIsNat == ASSUME NEW n \in Nat PROVE Grown(n) \in Nat
BY LaunchAssumption DEF Grown

(* The variables start with values of their types.                         *)
LEMMA InitTypes == Init => TypeOK
BY LaunchAssumption DEF Init, TypeOK, PlaceTypes, WalkTypes, StorageTypes,
  CloudTypes, TimeTypes, Places, Outcomes, Pairs, Storages

(* The caller is always at one of the places, with one of the outcomes.    *)
LEMMA PlacesPreserved == PlaceTypes /\ [Next]_vars => PlaceTypes'
<1> SUFFICES ASSUME PlaceTypes, [Next]_vars PROVE PlaceTypes'
  OBVIOUS
<1> USE DEF PlaceTypes, Places, Outcomes, storageVars, walkVars, cloudVars, timeVars
<1>1. CASE UncaughtRaises
  BY <1>1 DEF UncaughtRaises, Finish
<1>2. CASE Announce
  BY <1>2 DEF Announce
<1>3. CASE ResolveStorage
  BY <1>3 DEF ResolveStorage
<1>4. CASE NextCandidate
  BY <1>4 DEF NextCandidate
<1>5. CASE ResolveGpu
  BY <1>5 DEF ResolveGpu
<1>6. CASE NextPair
  BY <1>6 DEF NextPair, IssueCreate
<1>7. CASE Expand
  BY <1>7 DEF Expand, IssueCreate
<1>8. CASE CandidateExhausted
  BY <1>8 DEF CandidateExhausted
<1>9. CASE CreateReturns
  BY <1>9 DEF CreateReturns
<1>10. CASE CreateRaises
  BY <1>10 DEF CreateRaises, DefiniteRefusal
<1>11. CASE NotifyCreated
  BY <1>11 DEF NotifyCreated, Finish
<1>12. CASE ReportUnknown
  BY <1>12 DEF ReportUnknown, Finish
<1>13. CASE LaunchFails
  BY <1>13 DEF LaunchFails, Finish, Remaining
<1>14. CASE GiveUp
  BY <1>14 DEF GiveUp, Finish
<1>15. CASE Backoff
  BY <1>15 DEF Backoff
<1>16. CASE Sleep
  BY <1>16 DEF Sleep
<1>17. CASE LateDecision
  BY <1>17 DEF LateDecision
<1>18. CASE Cancel
  BY <1>18 DEF Cancel, Finish
<1>19. CASE UNCHANGED vars
  BY <1>19 DEF vars
<1>20. QED
  BY <1>1, <1>2, <1>3, <1>4, <1>5, <1>6, <1>7, <1>8, <1>9, <1>10, <1>11, <1>12, <1>13, <1>14, <1>15, <1>16, <1>17, <1>18, <1>19 DEF Next, Step

(* Time only moves by natural amounts.                                     *)
LEMMA TimesPreserved == TimeTypes /\ [Next]_vars => TimeTypes'
<1> SUFFICES ASSUME TimeTypes, [Next]_vars PROVE TimeTypes'
  OBVIOUS
<1> USE LaunchAssumption DEF TimeTypes, storageVars, walkVars, cloudVars, timeVars
<1>1. CASE UncaughtRaises
  BY <1>1 DEF UncaughtRaises, Finish
<1>2. CASE Announce
  BY <1>2 DEF Announce
<1>3. CASE ResolveStorage
  BY <1>3 DEF ResolveStorage
<1>4. CASE NextCandidate
  BY <1>4 DEF NextCandidate
<1>5. CASE ResolveGpu
  BY <1>5 DEF ResolveGpu
<1>6. CASE NextPair
  BY <1>6 DEF NextPair, IssueCreate
<1>7. CASE Expand
  BY <1>7 DEF Expand, IssueCreate
<1>8. CASE CandidateExhausted
  BY <1>8 DEF CandidateExhausted
<1>9. CASE CreateReturns
  BY <1>9 DEF CreateReturns
<1>10. CASE CreateRaises
  BY <1>10 DEF CreateRaises, DefiniteRefusal
<1>11. CASE NotifyCreated
  BY <1>11 DEF NotifyCreated, Finish
<1>12. CASE ReportUnknown
  BY <1>12 DEF ReportUnknown, Finish
<1>13. CASE LaunchFails
  BY <1>13 DEF LaunchFails, Finish, Remaining
<1>14. CASE GiveUp
  BY <1>14 DEF GiveUp, Finish
<1>15. CASE Backoff
  BY <1>15 DEF Backoff
<1>16. CASE Sleep
  BY <1>16 DEF Sleep
<1>17. CASE LateDecision
  BY <1>17 DEF LateDecision
<1>18. CASE Cancel
  BY <1>18 DEF Cancel, Finish
<1>19. CASE UNCHANGED vars
  BY <1>19 DEF vars
<1>20. QED
  BY <1>1, <1>2, <1>3, <1>4, <1>5, <1>6, <1>7, <1>8, <1>9, <1>10, <1>11, <1>12, <1>13, <1>14, <1>15, <1>16, <1>17, <1>18, <1>19 DEF Next, Step

(* Only these steps touch the provider's requests and pods.                *)
LEMMA CloudSteps ==
  [Next]_vars => \/ UNCHANGED cloudVars
                 \/ IssueCreate \/ CreateReturns \/ CreateRaises \/ LateDecision
BY DEF Next, Step, vars, UncaughtRaises, Announce, ResolveStorage, NextCandidate,
  ResolveGpu, NextPair, Expand, CandidateExhausted, NotifyCreated,
  ReportUnknown, LaunchFails, GiveUp, Backoff, Sleep, Cancel

(* Requests in flight and allocations are among the requests issued.       *)
LEMMA CloudPreserved == CloudTypes /\ Holdings /\ [Next]_vars => CloudTypes'
<1> SUFFICES ASSUME CloudTypes, Holdings, [Next]_vars PROVE CloudTypes'
  OBVIOUS
<1> USE DEF CloudTypes, cloudVars
<1>1. CASE UNCHANGED cloudVars
  BY <1>1
<1>2. CASE IssueCreate
  BY <1>2 DEF IssueCreate
<1>3. CASE CreateReturns
  BY <1>3 DEF CreateReturns, Holdings
<1>4. CASE CreateRaises
  BY <1>4 DEF CreateRaises, DefiniteRefusal
<1>5. CASE LateDecision
  BY <1>5 DEF LateDecision
<1>6. QED
  BY CloudSteps, <1>1, <1>2, <1>3, <1>4, <1>5

(* Only these steps move the walk over candidates and pairs.               *)
LEMMA WalkSteps ==
  [Next]_vars => \/ UNCHANGED walkVars
                 \/ ResolveStorage \/ ResolveGpu \/ NextPair
                 \/ CandidateExhausted \/ CreateRaises
BY DEF Next, Step, vars, UncaughtRaises, Announce, NextCandidate, Expand,
  CreateReturns, LateDecision, NotifyCreated, ReportUnknown, LaunchFails,
  GiveUp, Backoff, Sleep, Cancel

(* The walk stays inside the matrix.                                       *)
LEMMA WalkPreserved == WalkTypes /\ Indices /\ [Next]_vars => WalkTypes'
<1> SUFFICES ASSUME WalkTypes, Indices, [Next]_vars PROVE WalkTypes'
  OBVIOUS
<1> USE LaunchAssumption DEF WalkTypes, Indices, Pairs, Storages, walkVars
<1>1. CASE UNCHANGED walkVars
  BY <1>1
<1>2. CASE ResolveStorage
  BY <1>2 DEF ResolveStorage
<1>3. CASE ResolveGpu
  <2>1. gpu \in 1..NumGpus
    BY <1>3 DEF ResolveGpu
  <2>2. gpu' = gpu \/ gpu' = gpu + 1
    BY <1>3 DEF ResolveGpu
  <2>3. unresolved' = unresolved \/ unresolved' = unresolved \union {gpu}
    BY <1>3 DEF ResolveGpu
  <2>4. gpu' \in 1..(NumGpus + 1)
    BY <2>1, <2>2
  <2>5. todo' \subseteq (1..NumRam) \X (0..NumStorages)
    BY <1>3 DEF ResolveGpu
  <2>6. unresolved' \subseteq 1..NumGpus
    BY <2>1, <2>3
  <2>7. QED
    BY <1>3, <2>4, <2>5, <2>6 DEF ResolveGpu
<1>4. CASE NextPair
  BY <1>4 DEF NextPair, IssueCreate
<1>5. CASE CandidateExhausted
  BY <1>5 DEF CandidateExhausted
<1>6. CASE CreateRaises
  BY <1>6 DEF CreateRaises, DefiniteRefusal
<1>7. QED
  BY WalkSteps, <1>1, <1>2, <1>3, <1>4, <1>5, <1>6

(* Only these steps touch the volumes.                                     *)
LEMMA StorageSteps ==
  [Next]_vars => \/ UNCHANGED storageVars
                 \/ Announce \/ ResolveStorage \/ Expand \/ Cancel
BY DEF Next, Step, vars, UncaughtRaises, NextCandidate, ResolveGpu, NextPair,
  CandidateExhausted, CreateReturns, CreateRaises, LateDecision, NotifyCreated,
  ReportUnknown, LaunchFails, GiveUp, Backoff, Sleep

(* Volumes keep natural sizes.                                             *)
LEMMA StoragePreserved == StorageTypes /\ Indices /\ [Next]_vars => StorageTypes'
<1> SUFFICES ASSUME StorageTypes, Indices, [Next]_vars PROVE StorageTypes'
  OBVIOUS
<1> USE DEF StorageTypes, storageVars
<1>1. CASE UNCHANGED storageVars
  BY <1>1
<1>2. CASE Announce
  BY <1>2 DEF Announce
<1>3. CASE ResolveStorage
  BY <1>3 DEF ResolveStorage
<1>4. CASE Expand
  BY <1>4, GrownIsNat DEF Expand, Enlarge, Indices
<1>5. CASE Cancel
  BY <1>5, GrownIsNat DEF Cancel, Enlarge, Indices
<1>6. QED
  BY StorageSteps, <1>1, <1>2, <1>3, <1>4, <1>5

(* A candidate in hand is one of the list; a grown volume is a volume.     *)
LEMMA IndicesPreserved == PlaceTypes /\ WalkTypes /\ Indices /\ [Next]_vars => Indices'
<1> SUFFICES ASSUME PlaceTypes, WalkTypes, Indices, [Next]_vars PROVE Indices'
  OBVIOUS
<1> USE LaunchAssumption DEF Indices, WalkTypes, Pairs, Storages, storageVars, walkVars, cloudVars, timeVars
<1>1. CASE UncaughtRaises
  BY <1>1 DEF UncaughtRaises, Finish
<1>2. CASE Announce
  BY <1>2 DEF Announce
<1>3. CASE ResolveStorage
  BY <1>3 DEF ResolveStorage
<1>4. CASE NextCandidate
  BY <1>4 DEF NextCandidate
<1>5. CASE ResolveGpu
  BY <1>5 DEF ResolveGpu
<1>6. CASE NextPair
  BY <1>6 DEF NextPair, IssueCreate
<1>7. CASE Expand
  BY <1>7 DEF Expand, IssueCreate
<1>8. CASE CandidateExhausted
  BY <1>8 DEF CandidateExhausted
<1>9. CASE CreateReturns
  BY <1>9 DEF CreateReturns
<1>10. CASE CreateRaises
  BY <1>10 DEF CreateRaises, DefiniteRefusal
<1>11. CASE NotifyCreated
  BY <1>11 DEF NotifyCreated, Finish
<1>12. CASE ReportUnknown
  BY <1>12 DEF ReportUnknown, Finish
<1>13. CASE LaunchFails
  BY <1>13 DEF LaunchFails, Finish, Remaining
<1>14. CASE GiveUp
  BY <1>14 DEF GiveUp, Finish
<1>15. CASE Backoff
  BY <1>15 DEF Backoff
<1>16. CASE Sleep
  BY <1>16 DEF Sleep
<1>17. CASE LateDecision
  BY <1>17 DEF LateDecision
<1>18. CASE Cancel
  BY <1>18 DEF Cancel, Finish
<1>19. CASE UNCHANGED vars
  BY <1>19 DEF vars
<1>20. QED
  BY <1>1, <1>2, <1>3, <1>4, <1>5, <1>6, <1>7, <1>8, <1>9, <1>10, <1>11, <1>12, <1>13, <1>14, <1>15, <1>16, <1>17, <1>18, <1>19 DEF Next, Step

(* What the provider holds stays tied to the place and the outcome.        *)
LEMMA HoldingsPreserved == PlaceTypes /\ CloudTypes /\ Holdings /\ [Next]_vars => Holdings'
<1> SUFFICES ASSUME PlaceTypes, CloudTypes, Holdings, [Next]_vars PROVE Holdings'
  OBVIOUS
<1> USE DEF PlaceTypes, CloudTypes, Holdings, Walking, Places, Outcomes, cloudVars
<1>1. CASE UncaughtRaises
  BY <1>1 DEF UncaughtRaises, Finish
<1>2. CASE Announce
  BY <1>2 DEF Announce
<1>3. CASE ResolveStorage
  BY <1>3 DEF ResolveStorage
<1>4. CASE NextCandidate
  BY <1>4 DEF NextCandidate
<1>5. CASE ResolveGpu
  BY <1>5 DEF ResolveGpu
<1>6. CASE NextPair
  BY <1>6 DEF NextPair, IssueCreate
<1>7. CASE Expand
  BY <1>7 DEF Expand, IssueCreate
<1>8. CASE CandidateExhausted
  BY <1>8 DEF CandidateExhausted
<1>9. CASE CreateReturns
  BY <1>9 DEF CreateReturns
<1>10. CASE CreateRaises
  BY <1>10 DEF CreateRaises, DefiniteRefusal
<1>11. CASE NotifyCreated
  BY <1>11 DEF NotifyCreated, Finish
<1>12. CASE ReportUnknown
  BY <1>12 DEF ReportUnknown, Finish
<1>13. CASE LaunchFails
  BY <1>13 DEF LaunchFails, Finish, Remaining
<1>14. CASE GiveUp
  BY <1>14 DEF GiveUp, Finish
<1>15. CASE Backoff
  BY <1>15 DEF Backoff
<1>16. CASE Sleep
  BY <1>16 DEF Sleep
<1>17. CASE LateDecision
  BY <1>17 DEF LateDecision
<1>18. CASE Cancel
  BY <1>18 DEF Cancel, Finish
<1>19. CASE UNCHANGED vars
  BY <1>19 DEF vars
<1>20. QED
  BY <1>1, <1>2, <1>3, <1>4, <1>5, <1>6, <1>7, <1>8, <1>9, <1>10, <1>11, <1>12, <1>13, <1>14, <1>15, <1>16, <1>17, <1>18, <1>19 DEF Next, Step

(* Past the deadline a failed launch gives up.                             *)
LEMMA LatenessPreserved == PlaceTypes /\ TimeTypes /\ Lateness /\ [Next]_vars => Lateness'
<1> SUFFICES ASSUME PlaceTypes, TimeTypes, Lateness, [Next]_vars PROVE Lateness'
  OBVIOUS
<1> USE LaunchAssumption DEF TimeTypes, Lateness, timeVars
<1>1. CASE UncaughtRaises
  BY <1>1 DEF UncaughtRaises, Finish
<1>2. CASE Announce
  BY <1>2 DEF Announce
<1>3. CASE ResolveStorage
  BY <1>3 DEF ResolveStorage
<1>4. CASE NextCandidate
  BY <1>4 DEF NextCandidate
<1>5. CASE ResolveGpu
  BY <1>5 DEF ResolveGpu
<1>6. CASE NextPair
  BY <1>6 DEF NextPair, IssueCreate
<1>7. CASE Expand
  BY <1>7 DEF Expand, IssueCreate
<1>8. CASE CandidateExhausted
  BY <1>8 DEF CandidateExhausted
<1>9. CASE CreateReturns
  BY <1>9 DEF CreateReturns
<1>10. CASE CreateRaises
  BY <1>10 DEF CreateRaises, DefiniteRefusal
<1>11. CASE NotifyCreated
  BY <1>11 DEF NotifyCreated, Finish
<1>12. CASE ReportUnknown
  BY <1>12 DEF ReportUnknown, Finish
<1>13. CASE LaunchFails
  BY <1>13 DEF LaunchFails, Finish, Remaining
<1>14. CASE GiveUp
  BY <1>14 DEF GiveUp, Finish
<1>15. CASE Backoff
  BY <1>15 DEF Backoff
<1>16. CASE Sleep
  BY <1>16 DEF Sleep
<1>17. CASE LateDecision
  BY <1>17 DEF LateDecision
<1>18. CASE Cancel
  BY <1>18 DEF Cancel, Finish
<1>19. CASE UNCHANGED vars
  BY <1>19 DEF vars
<1>20. QED
  BY <1>1, <1>2, <1>3, <1>4, <1>5, <1>6, <1>7, <1>8, <1>9, <1>10, <1>11, <1>12, <1>13, <1>14, <1>15, <1>16, <1>17, <1>18, <1>19 DEF Next, Step

-----------------------------------------------------------------------------
(* A call starts in the inductive invariant.                               *)
LEMMA InitIInv == Init => IInv
BY InitTypes, LaunchAssumption DEF Init, IInv, Indices, Holdings, Lateness, Walking

(* Every step keeps the inductive invariant, part by part.                 *)
LEMMA NextIInv == IInv /\ [Next]_vars => IInv'
BY PlacesPreserved, TimesPreserved, CloudPreserved, WalkPreserved,
   StoragePreserved, IndicesPreserved, HoldingsPreserved, LatenessPreserved
   DEF IInv, TypeOK

(* The inductive invariant holds throughout.                               *)
LEMMA SpecIInv == Spec => []IInv
BY InitIInv, NextIInv, PTL DEF Spec

(* Every variable keeps its type.                                          *)
THEOREM TypeCorrect == Spec => []TypeOK
<1>1. IInv => TypeOK
  BY DEF IInv
<1>2. QED
  BY <1>1, SpecIInv, PTL

(* However long the walk and however many retries, the provider never      *)
(* holds two pods for one call.                                            *)
THEOREM SingleAllocation == Spec => []AtMostOneAllocation
<1>1. IInv => AtMostOneAllocation
  BY DEF IInv, Holdings, AtMostOneAllocation
<1>2. QED
  BY <1>1, SpecIInv, PTL

(* A plain failure means that there is no pod and that none can appear.    *)
THEOREM TruthfulFailure == Spec => []FailureLeavesNothing
<1>1. IInv => FailureLeavesNothing
  BY DEF IInv, Holdings, FailureLeavesNothing
<1>2. QED
  BY <1>1, SpecIInv, PTL

(* At most one launch begins once the deadline has passed.                 *)
THEOREM BoundedWait == Spec => []AtMostOneLateLaunch
<1>1. IInv => AtMostOneLateLaunch
  BY DEF IInv, Lateness, AtMostOneLateLaunch
<1>2. QED
  BY <1>1, SpecIInv, PTL

-----------------------------------------------------------------------------
(* A volume past both limits is left alone, one below them stays below.    *)
LEMMA GrownBounded ==
  ASSUME NEW n \in Nat PROVE Grown(n) = n \/ Grown(n) <= TargetSize \/ Grown(n) < Adequate + MinFree
BY LaunchAssumption DEF Grown

(* One expansion cannot take a volume past the bound.                      *)
LEMMA GrowthStep == IInv /\ GrowthBounded /\ [Next]_vars => GrowthBounded'
<1> SUFFICES ASSUME IInv, GrowthBounded, [Next]_vars PROVE GrowthBounded'
  OBVIOUS
<1>1. CASE UNCHANGED size
  BY <1>1 DEF GrowthBounded
<1>2. CASE \E v \in Storages : Enlarge(v)
  <2>1. SUFFICES ASSUME NEW s \in Storages
        PROVE size'[s] = InitSize[s] \/ size'[s] <= TargetSize \/ size'[s] < Adequate + MinFree
    BY DEF GrowthBounded
  <2>2. size[s] \in Nat /\ (size'[s] = size[s] \/ size'[s] = Grown(size[s]))
    BY <1>2 DEF Enlarge, IInv, TypeOK, StorageTypes
  <2>3. QED
    BY <2>2, GrownBounded DEF GrowthBounded
<1>3. Expand \/ Cancel => UNCHANGED size \/ \E v \in Storages : Enlarge(v)
  BY DEF Expand, Cancel, IInv, Indices
<1>4. QED
  BY <1>1, <1>2, <1>3, StorageSteps DEF storageVars, Announce, ResolveStorage

(* Retrying for ever cannot grow a volume past the larger of the target    *)
(* and one increment above the adequate size.                              *)
THEOREM GrowthIsBounded == Spec => []GrowthBounded
<1>1. Init => GrowthBounded
  BY DEF Init, GrowthBounded
<1>2. QED
  BY <1>1, GrowthStep, SpecIInv, PTL DEF Spec

-----------------------------------------------------------------------------
(* What a launch has grown: a volume it did not expand has the size it had *)
(* when the launch began, and one about to be expanded is such a volume.   *)
(* The sizes of the last launch stay until the next one announces itself.  *)
Growth ==
  /\ pc = "storage" => size = base
  /\ pc = "expand" => ~AttachOnly /\ pair[2] \notin expanded
  /\ outcome = "open" => \A s \in Storages \ expanded : size[s] = base[s]
  /\ OneGrowthPerLaunch

(* The volumes are looked up, and one is expanded, only from these places. *)
LEMMA GrowthPlaces ==
  [Next]_vars => /\ pc' = "storage" => Announce \/ UNCHANGED <<pc, storageVars>>
                 /\ pc' = "expand" => NextPair \/ UNCHANGED <<pc, storageVars, walkVars>>
                 /\ outcome' = "open" => outcome = "open"
BY DEF Next, Step, vars, storageVars, walkVars, UncaughtRaises, Announce, ResolveStorage,
  NextCandidate, ResolveGpu, NextPair, Expand, CandidateExhausted, CreateReturns,
  CreateRaises, LateDecision, NotifyCreated, ReportUnknown, LaunchFails, GiveUp,
  Backoff, Sleep, Cancel, Finish, IssueCreate

(* One volume changes, to the size computed from the one it has.           *)
LEMMA EnlargeEffect ==
  ASSUME StorageTypes, NEW v \in Storages, Enlarge(v)
  PROVE  /\ size'[v] = size[v] \/ size'[v] = Grown(size[v])
         /\ \A s \in Storages \ {v} : size'[s] = size[s]
BY DEF StorageTypes, Enlarge

(* A volume is grown in the step that records it, once in a launch.        *)
LEMMA GrowthPreserved == IInv /\ Growth /\ [Next]_vars => Growth'
<1> SUFFICES ASSUME IInv, Growth, [Next]_vars PROVE Growth'
  OBVIOUS
<1>1. (pc = "expand" => ~AttachOnly /\ pair[2] \notin expanded)'
  BY GrowthPlaces DEF Growth, NextPair, IssueCreate, storageVars, walkVars
<1>2. (pc = "storage" => size = base)'
  BY GrowthPlaces DEF Growth, Announce, storageVars
<1>3. ASSUME pc = "expand", Enlarge(pair[2]), base' = base
      PROVE  /\ OneGrowthPerLaunch'
             /\ outcome = "open" => \A s \in Storages \ (expanded \union {pair[2]}) : size'[s] = base[s]
  <2>1. pair[2] \in Storages /\ StorageTypes /\ outcome = "open"
    BY <1>3 DEF IInv, Indices, TypeOK, Holdings
  <2>2. size[pair[2]] = base[pair[2]] /\ ~AttachOnly
    BY <1>3, <2>1 DEF Growth
  <2>3. QED
    BY <1>3, <2>1, <2>2, EnlargeEffect DEF Growth, OneGrowthPerLaunch
<1>4. CASE UNCHANGED storageVars
  BY <1>1, <1>2, <1>4, GrowthPlaces DEF Growth, OneGrowthPerLaunch, storageVars
<1>5. CASE Announce
  BY <1>1, <1>2, <1>5 DEF Growth, OneGrowthPerLaunch, Announce
<1>6. CASE ResolveStorage
  BY <1>1, <1>2, <1>6 DEF Growth, OneGrowthPerLaunch, ResolveStorage
<1>7. CASE Expand
  BY <1>1, <1>2, <1>3, <1>7 DEF Growth, Expand
<1>8. CASE Cancel
  <2>1. (outcome # "open")'
    BY <1>8 DEF Cancel, Finish
  <2>2. OneGrowthPerLaunch'
    BY <1>3, <1>8 DEF Cancel, Growth, OneGrowthPerLaunch
  <2>3. QED
    BY <1>1, <1>2, <2>1, <2>2 DEF Growth
<1>9. QED
  BY <1>4, <1>5, <1>6, <1>7, <1>8, StorageSteps

(* In one launch a volume is grown once, from its size at the start, and   *)
(* never when the configuration only attaches.                             *)
THEOREM OneGrowth == Spec => []OneGrowthPerLaunch
<1>1. Init => Growth
  BY DEF Init, Growth, OneGrowthPerLaunch
<1>2. Growth => OneGrowthPerLaunch
  BY DEF Growth
<1>3. QED
  BY <1>1, <1>2, GrowthPreserved, SpecIInv, PTL DEF Spec

-----------------------------------------------------------------------------
Matrix == (1..NumRam) \X targets
Refused(g, p) == <<g, p[1], p[2]>> \in refused

(* What the walk has behind it: the candidates before this one, and of its *)
(* own matrix everything but what is still to do and the pair in hand.     *)
Walked ==
  /\ pc \in {"candidate", "resolve", "pair", "expand", "create"} =>
       \A g \in (1..(gpu - 1)) \ unresolved : \A p \in Matrix : Refused(g, p)
  /\ pc \in {"pair", "expand", "create"} => todo \subseteq Matrix
  /\ pc = "pair" => \A p \in Matrix \ todo : Refused(gpu, p)
  /\ pc \in {"expand", "create"} =>
       /\ \A p \in todo : Before(pair, p)
       /\ \A p \in Matrix \ (todo \union {pair}) : Refused(gpu, p)

(* The walk is touched, and its places are entered, only by these steps.   *)
LEMMA WalkPlaces ==
  [Next]_vars =>
    \/ ResolveStorage \/ ResolveGpu \/ NextPair \/ CandidateExhausted \/ CreateRaises
    \/ /\ UNCHANGED walkVars
       /\ \/ pc' = pc
          \/ pc' \notin {"candidate", "resolve", "pair", "expand", "create"}
          \/ pc = "candidate" /\ pc' = "resolve"
          \/ pc = "expand" /\ pc' = "create"
BY DEF Next, Step, vars, walkVars, UncaughtRaises, Announce, NextCandidate, Expand,
  CreateReturns, LateDecision, NotifyCreated, ReportUnknown, LaunchFails, GiveUp,
  Backoff, Sleep, Cancel, Finish, IssueCreate

(* The pairs are tried in the order of the matrix.                         *)
LEMMA WalkedPreserved == TypeOK /\ Indices /\ Walked /\ [Next]_vars => Walked'
<1> SUFFICES ASSUME WalkTypes, Indices, Walked, [Next]_vars PROVE Walked'
  BY DEF TypeOK
<1> USE LaunchAssumption
<1>1. CASE ResolveStorage
  BY <1>1 DEF ResolveStorage, Walked
<1>2. CASE ResolveGpu
  <2>1. gpu \in Nat /\ Matrix' = Matrix /\ refused' = refused
    BY <1>2 DEF ResolveGpu, Matrix, WalkTypes
  <2>2. CASE pc' = "pair"
    BY <1>2, <2>1, <2>2 DEF ResolveGpu, Walked, Refused, Matrix
  <2>3. CASE pc' = "candidate"
    <3>1. gpu' = gpu + 1 /\ unresolved' = unresolved \union {gpu}
      BY <1>2, <2>3 DEF ResolveGpu
    <3>2. \A g \in (1..(gpu' - 1)) \ unresolved' : g \in (1..(gpu - 1)) \ unresolved
      BY <2>1, <3>1
    <3>3. QED
      BY <1>2, <2>1, <2>3, <3>2 DEF ResolveGpu, Walked, Refused
  <2>4. QED
    BY <1>2, <2>2, <2>3 DEF ResolveGpu
<1>3. CASE NextPair
  <2>1. Matrix' = Matrix /\ UNCHANGED <<gpu, unresolved, refused>> /\ pc = "pair"
    BY <1>3 DEF NextPair, Matrix
  <2>2. pair' \in todo /\ todo' = todo \ {pair'} /\ \A q \in todo' : Before(pair', q)
    BY <1>3 DEF NextPair
  <2>3. pc' \in {"expand", "create"}
    BY <1>3 DEF NextPair, IssueCreate
  <2>4. QED
    BY <2>1, <2>2, <2>3 DEF Walked, Refused
<1>4. CASE CandidateExhausted
  <2>1. gpu \in Nat /\ gpu' = gpu + 1 /\ Matrix' = Matrix /\ pc' = "candidate"
    BY <1>4 DEF CandidateExhausted, Matrix, WalkTypes
  <2>2. \A p \in Matrix : Refused(gpu, p)
    BY <1>4 DEF CandidateExhausted, Walked
  <2>3. \A g \in (1..(gpu' - 1)) \ unresolved : g = gpu \/ g \in (1..(gpu - 1)) \ unresolved
    BY <2>1
  <2>4. \A g \in (1..(gpu' - 1)) \ unresolved : \A p \in Matrix : Refused(g, p)
    BY <1>4, <2>2, <2>3 DEF CandidateExhausted, Walked
  <2>5. QED
    BY <1>4, <2>1, <2>4 DEF CandidateExhausted, Walked, Refused
<1>5. CASE CreateRaises
  <2>1. Matrix' = Matrix /\ UNCHANGED <<gpu, todo, pair, unresolved>> /\ pc = "create"
    BY <1>5 DEF CreateRaises, Matrix
  <2>2. CASE pc' = "pair" /\ refused' = refused \union {<<gpu, pair[1], pair[2]>>}
    BY <2>1, <2>2 DEF Walked, Refused
  <2>3. CASE pc' = "reportUnknown"
    BY <2>3 DEF Walked
  <2>4. QED
    BY <1>5, <2>2, <2>3 DEF CreateRaises
<1>6. CASE /\ UNCHANGED walkVars
           /\ \/ pc' = pc
              \/ pc' \notin {"candidate", "resolve", "pair", "expand", "create"}
              \/ pc = "candidate" /\ pc' = "resolve"
              \/ pc = "expand" /\ pc' = "create"
  BY <1>6 DEF walkVars, Walked, Refused, Matrix
<1>7. QED
  BY <1>1, <1>2, <1>3, <1>4, <1>5, <1>6, WalkPlaces

(* No pair is skipped on the way to a later one or a costlier candidate.   *)
THEOREM NothingSkipped == Spec => []NoSkippedPair
<1>1. Init => Walked
  BY DEF Init, Walked
<1>2. IInv /\ Walked => NoSkippedPair
  <2> SUFFICES ASSUME IInv, Walked, pc = "create"
               PROVE  /\ \A p \in Matrix : Before(p, pair) => Refused(gpu, p)
                      /\ \A g \in (1..(gpu - 1)) \ unresolved : \A p \in Matrix : Refused(g, p)
    BY DEF NoSkippedPair, Matrix, Refused
  <2>1. \A p \in Matrix : Before(p, pair) => p # pair /\ ~Before(pair, p)
    <3> SUFFICES ASSUME NEW p \in Matrix, Before(p, pair) PROVE p # pair /\ ~Before(pair, p)
      OBVIOUS
    <3>1. p[1] \in Int /\ p[2] \in Int
      <4>1. targets \subseteq Int
        BY LaunchAssumption DEF IInv, TypeOK, WalkTypes
      <4>2. p[1] \in 1..NumRam /\ p[2] \in targets
        BY DEF Matrix
      <4>3. p[2] \in Int
        BY <4>1, <4>2, Zenon
      <4>4. 1..NumRam \subseteq Int
        OBVIOUS
      <4>5. QED
        BY <4>2, <4>3, <4>4, Zenon
    <3>2. pair[1] \in Int /\ pair[2] \in Int
      BY LaunchAssumption DEF IInv, TypeOK, WalkTypes, Pairs
    <3>3. QED
      BY <3>1, <3>2 DEF Before
  <2>2. QED
    BY <2>1 DEF Walked
<1>3. IInv => TypeOK /\ Indices
  BY DEF IInv
<1>4. QED
  BY <1>1, <1>2, <1>3, WalkedPreserved, SpecIInv, PTL DEF Spec

-----------------------------------------------------------------------------
(* The call ends once, in a step that touches nothing at the provider.     *)
LEMMA OutcomeSteps ==
  [Next]_vars => UNCHANGED outcome \/ (pc # "done" /\ UNCHANGED cloudVars)
BY DEF Next, Step, vars, cloudVars, UncaughtRaises, Announce, ResolveStorage, NextCandidate,
  ResolveGpu, NextPair, Expand, CandidateExhausted, CreateReturns, CreateRaises,
  LateDecision, NotifyCreated, ReportUnknown, LaunchFails, GiveUp, Backoff,
  Sleep, Cancel, Finish

(* Each step is an allocation or a report of Custody, or changes neither   *)
(* what the provider holds nor what the caller was told.                   *)
LEMMA CustodyStep == IInv /\ IInv' /\ [Next]_vars => [Promise!Next]_<<allocated, outcome>>
<1> SUFFICES ASSUME IInv, IInv', [Next]_vars
             PROVE  [Promise!Next]_<<allocated, outcome>>
  OBVIOUS
<1> USE DEF Promise!Next, Promise!Report, Promise!Allocate, Promise!Known,
      Promise!Nothing, Promise!Uncertain, IInv, Holdings
<1>1. CASE UNCHANGED outcome /\ UNCHANGED allocated
  BY <1>1
<1>2. CASE outcome = "open" /\ outcome' # "open" /\ UNCHANGED allocated
  BY <1>2 DEF TypeOK, PlaceTypes, Outcomes
<1>3. CASE UNCHANGED outcome /\ allocated = {} /\ allocated' # {}
  BY <1>3 DEF TypeOK, PlaceTypes, Outcomes
<1>4. UNCHANGED outcome => UNCHANGED allocated \/ (allocated = {} /\ allocated' # {})
  <2>1. CASE CreateReturns
    BY <2>1 DEF CreateReturns
  <2>2. CASE LateDecision
    BY <2>2 DEF LateDecision
  <2>3. QED
    BY <2>1, <2>2, CloudSteps DEF cloudVars, IssueCreate, CreateRaises
<1>5. QED
  BY <1>1, <1>2, <1>3, <1>4, OutcomeSteps DEF cloudVars

(* The launch code implements the custody promise.                         *)
THEOREM LaunchKeepsCustody == Spec => KeepsCustody
<1>1. Init => Promise!Init
  BY DEF Init, Promise!Init
<1>2. QED
  BY <1>1, CustodyStep, SpecIInv, PTL DEF Spec, KeepsCustody, Promise!Spec, Promise!vars

=============================================================================
