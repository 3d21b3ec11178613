-------------------------- MODULE PodSessionProofs --------------------------
(***************************************************************************)
(* One Pod object for every timeout, interval, call time and threshold:    *)
(* types, the bound on every operation, one late start at most, a dead pod *)
(* never reported usable, and an idle verdict only for an unused pod.      *)
(***************************************************************************)
EXTENDS PodSession, TLAPS

Slack == IF Interval > 2 * CallTime THEN Interval + CallTime ELSE 3 * CallTime

(* What each place may have taken: an operation passes at most one sleep   *)
(* and a poll, or three calls, after the last test of its deadline.        *)
OnTime ==
  /\ elapsed <= Patience + Slack
  /\ pc \in {"resumeStatus", "waitSeen", "waitDetails", "waitEmit"} =>
       elapsed <= Patience + CallTime
  /\ pc = "resumeStart" => elapsed <= Patience + 2 * CallTime
  /\ pc \in {"details", "dial"} => elapsed <= Patience

(* A start sent late leads to the end of the operation.                    *)
LateEnds ==
  /\ late <= 1
  /\ late = 1 => elapsed >= Patience /\ pc \in {"resumeNotify", "resumeBackoff", "idle"}

(* A dead pod stays dead without an endpoint, and no place behind a status *)
(* of RUNNING or a start is reached.                                       *)
DeadKnown ==
  /\ desired \in Dead => endpoint = 0
  /\ pc = "dial" => details # 0
  /\ began.dead =>
       /\ desired \in Dead
       /\ pc = "waitSeen" => seen.desired # "RUNNING"
       /\ pc \notin {"waitDetails", "waitEmit", "resumeNotify"}
  /\ DeadStaysDead

(* The caller's commands are among those that renew _last_exec_at.         *)
IdleKnown ==
  /\ quiet <= unused
  /\ pc = "idleQuery" => unused = Threshold
  /\ IdleIsUnused

IInv == TypeOK /\ OnTime /\ LateEnds /\ DeadKnown /\ IdleKnown

-----------------------------------------------------------------------------
(* The slack covers a sleep and a call, and three calls.                   *)
LEMMA SlackBounds ==
  Slack \in Nat /\ Interval + CallTime <= Slack /\ 3 * CallTime <= Slack
BY SessionAssumption DEF Slack

(* A lookup answers with a snapshot of the pod or with none.               *)
LEMMA LookUpAnswers ==
  ASSUME TypeOK, LookUp
  PROVE  /\ seen' \in [desired : Statuses \union {"none"}, port : BOOLEAN]
         /\ seen'.desired \in {desired, "none"}
<1>1. (endpoint # 0) \in BOOLEAN /\ FALSE \in BOOLEAN
  OBVIOUS
<1>2. CASE seen' = Unseen
  BY <1>1, <1>2 DEF Unseen
<1>3. CASE seen' = [desired |-> desired, port |-> endpoint # 0]
  BY <1>1, <1>3 DEF TypeOK
<1>4. QED
  BY <1>2, <1>3 DEF LookUp

(* The initial state satisfies every part of the invariant.                *)
LEMMA InitIInv == Init => IInv
<1> SUFFICES ASSUME Init PROVE IInv
  OBVIOUS
<1> USE SessionAssumption
<1>1. seen \in [desired : Statuses \union {"none"}, port : BOOLEAN]
  BY DEF Init, Unseen
<1>2. began \in [endpoint : Nat, dead : BOOLEAN] /\ began.dead = FALSE
  BY DEF Init
<1>3. TypeOK
  <2>1. desired \in Statuses /\ outcome \in Outcomes /\ pc \in Places
    BY DEF Init, Statuses, Places, Outcomes
  <2>2. /\ endpoint \in 0..epoch /\ epoch \in 0..MaxEndpoints /\ details \in 0..epoch
        /\ quiet \in 0..Threshold /\ unused \in 0..Threshold
        /\ elapsed \in Nat /\ late \in Nat
    BY DEF Init
  <2>3. started \in BOOLEAN
    BY DEF Init
  <2>4. QED
    BY <1>1, <1>2, <2>1, <2>2, <2>3 DEF TypeOK
<1>4. OnTime
  BY SlackBounds DEF Init, OnTime
<1>5. LateEnds /\ DeadKnown /\ IdleKnown
  BY <1>2 DEF Init, LateEnds, DeadKnown, DeadStaysDead, IdleKnown, IdleIsUnused, Dead
<1>6. QED
  BY <1>3, <1>4, <1>5 DEF IInv
-----------------------------------------------------------------------------
(* Beginning an operation forgets the one before.                          *)
LEMMA BeginKeeps ==
  ASSUME IInv, UNCHANGED clocks,
         NEW place \in {"waitPoll", "resumeStatus", "details", "exec", "idleTest"}, Begin(place)
  PROVE  IInv'
<1> USE SessionAssumption DEF IInv
<1>1. (desired \in Dead) \in BOOLEAN
  OBVIOUS
<1>2. /\ began' \in [endpoint : Nat, dead : BOOLEAN]
      /\ began'.dead => desired \in Dead
  <2>1. (IF endpoint = 0 THEN epoch + 1 ELSE endpoint) \in Nat
    BY DEF TypeOK
  <2> DEFINE E == IF endpoint = 0 THEN epoch + 1 ELSE endpoint
             D == desired \in Dead
  <2>2. began' = [endpoint |-> E, dead |-> D]
    BY DEF Begin
  <2>3. E \in Nat /\ D \in BOOLEAN
    BY <1>1, <2>1
  <2>4. D => desired \in Dead
    OBVIOUS
  <2> HIDE DEF E, D
  <2>5. QED
    BY <2>2, <2>3, <2>4
<1>3. TypeOK'
  BY <1>2 DEF Begin, TypeOK, providerVars, clocks, Places, Outcomes
<1>4. OnTime'
  BY SlackBounds DEF Begin, OnTime
<1>5. LateEnds'
  BY DEF Begin, LateEnds
<1>6. DeadKnown'
  BY <1>2 DEF Begin, DeadKnown, DeadStaysDead, providerVars
<1>7. IdleKnown'
  BY DEF Begin, IdleKnown, IdleIsUnused, clocks
<1>8. QED
  BY <1>3, <1>4, <1>5, <1>6, <1>7

(* The steps of an operation keep the types.                               *)
LEMMA UntimedTypes ==
  ASSUME TypeOK, UntimedStep, UNCHANGED clocks
  PROVE  TypeOK'
<1> USE SessionAssumption
        DEF TypeOK, Goto, Finish, providerVars, historyVars, clocks, Places, Outcomes
<1>1. CASE WaitTimesOut
  BY <1>1 DEF WaitTimesOut
<1>2. CASE WaitPoll
  <2>1. seen' \in [desired : Statuses \union {"none"}, port : BOOLEAN]
    BY <1>2, LookUpAnswers DEF WaitPoll
  <2>2. QED
    BY <1>2, <2>1 DEF WaitPoll, Spend
<1>3. CASE WaitSeen
  BY <1>3 DEF WaitSeen
<1>4. CASE WaitDetails
  BY <1>4 DEF WaitDetails, EnsureDetails
<1>5. CASE WaitEmit
  BY <1>5 DEF WaitEmit
<1>6. CASE ResumeStatus
  <2>1. seen' \in [desired : Statuses \union {"none"}, port : BOOLEAN]
    BY <1>6, LookUpAnswers DEF ResumeStatus
  <2>2. QED
    BY <1>6, <2>1 DEF ResumeStatus, Spend
<1>7. CASE ResumeStart
  <2>1. elapsed' \in Nat /\ late' \in Nat
    BY <1>7 DEF ResumeStart, Spend
  <2>2. desired' \in Statuses
    BY <1>7 DEF ResumeStart, Statuses, Dead
  <2>3. started' \in BOOLEAN /\ pc' \in Places /\ outcome' \in Outcomes
    BY <1>7 DEF ResumeStart
  <2>4. QED
    BY <1>7, <2>1, <2>2, <2>3 DEF ResumeStart
<1>8. CASE ResumeNotify
  BY <1>8 DEF ResumeNotify
<1>9. CASE ResumeBackoff
  <2>1. elapsed' \in Nat
    BY <1>9 DEF ResumeBackoff, Spend
  <2>2. QED
    BY <1>9, <2>1 DEF ResumeBackoff
<1>10. CASE ConnectDetails
  BY <1>10 DEF ConnectDetails, EnsureDetails
<1>11. CASE ConnectDial
  <2>1. elapsed' \in Nat
    BY <1>11 DEF ConnectDial
  <2>2. details' \in 0..epoch
    BY <1>11 DEF ConnectDial
  <2>3. QED
    BY <1>11, <2>1, <2>2 DEF ConnectDial
<1>12. CASE IdleTest
  BY <1>12 DEF IdleTest
<1>13. QED
  BY <1>1, <1>2, <1>3, <1>4, <1>5, <1>6, <1>7, <1>8, <1>9, <1>10, <1>11, <1>12
  DEF UntimedStep

(* They keep to the bound of their place, and a late start is the last.    *)
LEMMA UntimedInTime ==
  ASSUME TypeOK, OnTime, LateEnds, UntimedStep
  PROVE  OnTime' /\ LateEnds'
<1> USE SessionAssumption, SlackBounds
        DEF TypeOK, OnTime, LateEnds, Goto, Finish, historyVars, Spend
<1>1. CASE WaitTimesOut \/ WaitPoll \/ WaitSeen \/ WaitDetails \/ WaitEmit
  BY <1>1 DEF WaitTimesOut, WaitPoll, WaitSeen, WaitDetails, WaitEmit
<1>2. CASE ResumeStatus
  BY <1>2 DEF ResumeStatus
<1>3. CASE ResumeStart
  <2>1. elapsed' \in Nat /\ elapsed' <= Patience + 3 * CallTime /\ elapsed' >= elapsed
    BY <1>3 DEF ResumeStart
  <2>2. late = 0
    BY <1>3 DEF ResumeStart
  <2>3. late' = 1 => elapsed' >= Patience
    BY <1>3, <2>1, <2>2 DEF ResumeStart
  <2>4. pc' \in {"resumeNotify", "resumeBackoff", "idle"}
    BY <1>3 DEF ResumeStart
  <2>5. late' \in {0, 1}
    BY <1>3, <2>2 DEF ResumeStart
  <2>6. QED
    BY <2>1, <2>3, <2>4, <2>5
<1>4. CASE ResumeNotify
  BY <1>4 DEF ResumeNotify
<1>5. CASE ResumeBackoff
  <2>1. CASE pc' = "idle" /\ UNCHANGED elapsed
    BY <1>5, <2>1 DEF ResumeBackoff
  <2>2. CASE Patience - elapsed > 0 /\ pc' = "resumeStatus"
    <3>1. elapsed' \in Nat /\ elapsed' <= Patience + CallTime
      BY <1>5, <2>2 DEF ResumeBackoff
    <3>2. late = 0 /\ late' = 0
      BY <1>5, <2>2 DEF ResumeBackoff
    <3>3. QED
      BY <2>2, <3>1, <3>2
  <2>3. QED
    BY <1>5, <2>1, <2>2 DEF ResumeBackoff
<1>6. CASE ConnectDetails \/ IdleTest
  BY <1>6 DEF ConnectDetails, IdleTest
<1>7. CASE ConnectDial
  <2>1. elapsed' \in Nat /\ elapsed' <= Patience + CallTime
    BY <1>7 DEF ConnectDial
  <2>2. pc' = "details" => elapsed' <= Patience
    BY <1>7 DEF ConnectDial
  <2>3. QED
    BY <1>7, <2>1, <2>2 DEF ConnectDial
<1>8. QED
  BY <1>1, <1>2, <1>3, <1>4, <1>5, <1>6, <1>7 DEF UntimedStep
(* They reach nothing on a dead pod that stands for a running one.         *)
LEMMA UntimedDead ==
  ASSUME TypeOK, DeadKnown, UntimedStep
  PROVE  DeadKnown'
<1> USE DEF TypeOK, DeadKnown, DeadStaysDead, Dead, Goto, Finish, providerVars, historyVars
<1>1. CASE WaitTimesOut \/ WaitSeen \/ WaitDetails \/ WaitEmit
  BY <1>1 DEF WaitTimesOut, WaitSeen, WaitDetails, WaitEmit
<1>2. CASE WaitPoll \/ ResumeStatus
  <2>1. seen'.desired \in {desired, "none"}
    BY <1>2, LookUpAnswers DEF WaitPoll, ResumeStatus
  <2>2. QED
    BY <1>2, <2>1 DEF WaitPoll, ResumeStatus
<1>3. CASE ResumeStart
  BY <1>3 DEF ResumeStart
<1>4. CASE ResumeNotify \/ ResumeBackoff
  BY <1>4 DEF ResumeNotify, ResumeBackoff
<1>5. CASE ConnectDetails \/ ConnectDial
  BY <1>5 DEF ConnectDetails, ConnectDial
<1>6. CASE IdleTest
  BY <1>6 DEF IdleTest
<1>7. QED
  BY <1>1, <1>2, <1>3, <1>4, <1>5, <1>6 DEF UntimedStep

(* The query of is_idle is reached only when the threshold is.             *)
LEMMA UntimedIdle ==
  ASSUME TypeOK, IdleKnown, UntimedStep, UNCHANGED clocks
  PROVE  IdleKnown'
<1> USE DEF TypeOK, IdleKnown, IdleIsUnused, Goto, Finish, clocks
<1>1. CASE IdleTest
  BY <1>1, SessionAssumption DEF IdleTest
<1>2. CASE WaitTimesOut \/ WaitPoll \/ WaitSeen \/ WaitDetails \/ WaitEmit
  BY <1>2 DEF WaitTimesOut, WaitPoll, WaitSeen, WaitDetails, WaitEmit
<1>3. CASE ResumeStatus \/ ResumeStart \/ ResumeNotify \/ ResumeBackoff
  BY <1>3 DEF ResumeStatus, ResumeStart, ResumeNotify, ResumeBackoff
<1>4. CASE ConnectDetails \/ ConnectDial
  BY <1>4 DEF ConnectDetails, ConnectDial
<1>5. QED
  BY <1>1, <1>2, <1>3, <1>4 DEF UntimedStep

(* A command that ends renews the clocks; so does the query of is_idle,    *)
(* the caller's own clock excepted.                                        *)
LEMMA CommandKeeps ==
  ASSUME IInv, ExecRuns \/ IdleQuery
  PROVE  IInv'
<1> USE SessionAssumption
        DEF IInv, TypeOK, Finish, EnsureDetails, providerVars, historyVars, clocks
<1>1. TypeOK'
  BY DEF ExecRuns, IdleQuery, Places, Outcomes
<1>2. OnTime' /\ LateEnds'
  BY SlackBounds DEF ExecRuns, IdleQuery, OnTime, LateEnds
<1>3. DeadKnown'
  BY DEF ExecRuns, IdleQuery, DeadKnown, DeadStaysDead, Dead
<1>4. IdleKnown'
  BY DEF ExecRuns, IdleQuery, IdleKnown, IdleIsUnused
<1>5. QED
  BY <1>1, <1>2, <1>3, <1>4

(* What the provider does and the passing of time disturb nothing.         *)
LEMMA WorldKeeps ==
  ASSUME IInv, ((Publish \/ Withdraw \/ Lose) /\ UNCHANGED clocks) \/ Age
  PROVE  IInv'
<1> USE SessionAssumption
        DEF IInv, TypeOK, Publish, Withdraw, Lose, Age,
            providerVars, clientVars, historyVars, clocks
<1>1. TypeOK'
  BY DEF Statuses, Dead
<1>2. OnTime' /\ LateEnds'
  BY DEF OnTime, LateEnds
<1>3. DeadKnown'
  BY DEF DeadKnown, DeadStaysDead, Dead
<1>4. IdleKnown'
  BY DEF IdleKnown, IdleIsUnused
<1>5. QED
  BY <1>1, <1>2, <1>3, <1>4

(* Every step keeps the invariant.                                         *)
LEMMA IInvPreserved == IInv /\ [Next]_vars => IInv'
<1> SUFFICES ASSUME IInv, [Next]_vars PROVE IInv'
  OBVIOUS
<1>1. CASE UntimedStep /\ UNCHANGED clocks
  <2>1. IdleKnown'
    BY <1>1, UntimedIdle DEF IInv
  <2>2. QED
    BY <1>1, <2>1, UntimedTypes, UntimedInTime, UntimedDead DEF IInv
<1>2. CASE ExecRuns \/ IdleQuery
  BY <1>2, CommandKeeps
<1>3. CASE Call /\ UNCHANGED clocks
  BY <1>3, BeginKeeps DEF Call, WaitReady, Resume, Connect, Exec, IsIdle
<1>4. CASE ((Publish \/ Withdraw \/ Lose) /\ UNCHANGED clocks) \/ Age
  BY <1>4, WorldKeeps
<1>5. CASE UNCHANGED vars
  BY <1>5
  DEF IInv, TypeOK, OnTime, LateEnds, DeadKnown, DeadStaysDead, IdleKnown, IdleIsUnused,
      vars, providerVars, historyVars, clocks
<1>6. QED
  BY <1>1, <1>2, <1>3, <1>4, <1>5 DEF Next, Step

(* The invariant holds throughout.                                         *)
LEMMA Invariance == Spec => []IInv
BY InitIInv, IInvPreserved, PTL DEF Spec
-----------------------------------------------------------------------------
(* Types, for every value of the constants.                                *)
THEOREM TypeCorrect == Spec => []TypeOK
<1>1. IInv => TypeOK
  BY DEF IInv
<1>2. QED
  BY <1>1, Invariance, PTL

(* No operation outlives its timeout by more than what was under way when  *)
(* it passed, for every timeout, interval and call time.                   *)
THEOREM TimeoutsHold == Spec => []OperationBounded
<1>1. IInv => OperationBounded
  BY DEF IInv, OnTime, OperationBounded, Slack
<1>2. QED
  BY <1>1, Invariance, PTL

(* At most one start request is sent past the deadline of a resume.        *)
THEOREM OneLateStart == Spec => []AtMostOneLateStart
<1>1. IInv => AtMostOneLateStart
  BY DEF IInv, LateEnds, AtMostOneLateStart
<1>2. QED
  BY <1>1, Invariance, PTL

(* A pod dead at the beginning of an operation is never reported usable.   *)
THEOREM DeadIsDead == Spec => []DeadStaysDead
<1>1. IInv => DeadStaysDead
  BY DEF IInv, DeadKnown
<1>2. QED
  BY <1>1, Invariance, PTL

(* An idle verdict means that the caller used the pod for nothing during   *)
(* the threshold.                                                          *)
THEOREM IdleMeansUnused == Spec => []IdleIsUnused
<1>1. IInv => IdleIsUnused
  BY DEF IInv, IdleKnown
<1>2. QED
  BY <1>1, Invariance, PTL

=============================================================================
