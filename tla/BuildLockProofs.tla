-------------------------- MODULE BuildLockProofs --------------------------
(***************************************************************************)
(* Exclusion by the build lock, for any number of builders, any TTL and    *)
(* any number of failures: as long as no lock file has outlived its TTL,   *)
(* nobody is about to remove one that is not his own.                      *)
(***************************************************************************)
EXTENDS BuildLock, TLAPS

(* Until a file goes stale its age is below the TTL, so no script gets     *)
(* past the age test to the removal, and a holder's file stays in place.   *)
FreshFile == ~wasStale /\ lock # Free => age < TTL
NoRemoval == ~wasStale => \A b \in Builders : pc[b] # "remove"

IInv == TypeOK /\ FreshFile /\ NoRemoval /\ ExclusiveUntilStale
-----------------------------------------------------------------------------
(* Ages and holding times stop at the TTL.                                 *)
LEMMA OlderType == ASSUME NEW n \in 0..TTL PROVE Older(n) \in 0..TTL
BY BuildLockAssumption DEF Older

(* Everything starts unlocked and idle.                                    *)
LEMMA InitIInv == Init => IInv
<1> SUFFICES ASSUME Init PROVE IInv
  OBVIOUS
<1>1. TypeOK
  <2>1. wasStale \in BOOLEAN
    BY DEF Init
  <2>2. age \in 0..TTL /\ failures \in 0..MaxFailures /\ abandoned \subseteq Builders
    BY BuildLockAssumption DEF Init
  <2>3. pc \in [Builders -> Places] /\ lock \in Builders \union {Free}
    BY DEF Init, Places
  <2>4. held \in [Builders -> 0..TTL]
    BY BuildLockAssumption DEF Init
  <2>5. QED
    BY <2>1, <2>2, <2>3, <2>4 DEF TypeOK
<1>2. FreshFile /\ NoRemoval
  BY DEF Init, FreshFile, NoRemoval
<1>3. ExclusiveUntilStale
  BY DEF Init, ExclusiveUntilStale, Holders
<1>4. QED
  BY <1>1, <1>2, <1>3 DEF IInv

(* Every step keeps the types.                                             *)
LEMMA TypesPreserved == TypeOK /\ [Next]_vars => TypeOK'
<1> SUFFICES ASSUME TypeOK, [Next]_vars PROVE TypeOK'
  OBVIOUS
<1> USE BuildLockAssumption DEF TypeOK, Places, Goto, fileVars
<1>1. ASSUME NEW b \in Builders, Again(b) PROVE TypeOK'
  BY <1>1 DEF Again, Start, Retry
<1>2. ASSUME NEW b \in Builders, Script(b) PROVE TypeOK'
  <2>1. CASE Test(b) BY <2>1 DEF Test
  <2>2. CASE Stat(b) BY <2>2 DEF Stat
  <2>3. CASE Remove(b) BY <2>3 DEF Remove
  <2>4. CASE Create(b) BY <2>4 DEF Create
  <2>5. QED BY <1>2, <2>1, <2>2, <2>3, <2>4 DEF Script
<1>3. ASSUME NEW b \in Builders, Release(b) PROVE TypeOK'
  BY <1>3 DEF Release
<1>4. ASSUME NEW b \in Builders, GiveUp(b) \/ Die(b) PROVE TypeOK'
  BY <1>4 DEF GiveUp, Die, Scripted
<1>5. CASE Tick
  BY <1>5, OlderType DEF Tick
<1>6. CASE UNCHANGED vars
  BY <1>6 DEF vars
<1>7. QED
  BY <1>1, <1>2, <1>3, <1>4, <1>5, <1>6 DEF Next

(* Only Tick makes a file older, and it notices when one goes stale.       *)
LEMMA FreshPreserved == TypeOK /\ FreshFile /\ [Next]_vars => FreshFile'
<1> SUFFICES ASSUME TypeOK, FreshFile, [Next]_vars PROVE FreshFile'
  OBVIOUS
<1> USE BuildLockAssumption DEF TypeOK, FreshFile, Goto, fileVars
<1>1. ASSUME NEW b \in Builders, Again(b) PROVE FreshFile'
  BY <1>1 DEF Again, Start, Retry
<1>2. ASSUME NEW b \in Builders, Script(b) PROVE FreshFile'
  BY <1>2 DEF Script, Test, Stat, Remove, Create
<1>3. ASSUME NEW b \in Builders, Release(b) PROVE FreshFile'
  BY <1>3 DEF Release
<1>4. ASSUME NEW b \in Builders, GiveUp(b) \/ Die(b) PROVE FreshFile'
  BY <1>4 DEF GiveUp, Die
<1>5. CASE Tick
  <2>1. SUFFICES ASSUME ~wasStale', lock' # Free PROVE age' < TTL
    BY DEF FreshFile
  <2>2. age' \in 0..TTL
    BY <1>5, OlderType DEF Tick
  <2>3. age' # TTL
    BY <1>5, <2>1 DEF Tick
  <2>4. QED
    BY <2>2, <2>3
<1>6. CASE UNCHANGED vars
  BY <1>6 DEF vars
<1>7. QED
  BY <1>1, <1>2, <1>3, <1>4, <1>5, <1>6 DEF Next

(* The age test lets nobody through to the removal of a young file.        *)
LEMMA NoRemovalPreserved ==
  TypeOK /\ FreshFile /\ NoRemoval /\ [Next]_vars => NoRemoval'
<1> SUFFICES ASSUME TypeOK, FreshFile, NoRemoval, [Next]_vars PROVE NoRemoval'
  OBVIOUS
<1> USE BuildLockAssumption DEF TypeOK, FreshFile, NoRemoval, Goto, fileVars
<1>1. ASSUME NEW b \in Builders, Again(b) PROVE NoRemoval'
  BY <1>1 DEF Again, Start, Retry
<1>2. ASSUME NEW b \in Builders, Script(b) PROVE NoRemoval'
  BY <1>2 DEF Script, Test, Stat, Remove, Create
<1>3. ASSUME NEW b \in Builders, Release(b) PROVE NoRemoval'
  BY <1>3 DEF Release
<1>4. ASSUME NEW b \in Builders, GiveUp(b) \/ Die(b) PROVE NoRemoval'
  BY <1>4 DEF GiveUp, Die
<1>5. CASE Tick
  BY <1>5 DEF Tick
<1>6. CASE UNCHANGED vars
  BY <1>6 DEF vars
<1>7. QED
  BY <1>1, <1>2, <1>3, <1>4, <1>5, <1>6 DEF Next

(* A new holder created its file where there was none, so there was no     *)
(* other holder; nobody but the holder takes the file away.                *)
LEMMA ExclusionPreserved ==
  TypeOK /\ NoRemoval /\ ExclusiveUntilStale /\ [Next]_vars => ExclusiveUntilStale'
<1> SUFFICES ASSUME TypeOK, NoRemoval, ExclusiveUntilStale, [Next]_vars
             PROVE ExclusiveUntilStale'
  OBVIOUS
<1> USE BuildLockAssumption
    DEF TypeOK, NoRemoval, ExclusiveUntilStale, Holders, Goto, fileVars
<1>1. ASSUME NEW b \in Builders, Again(b) PROVE ExclusiveUntilStale'
  BY <1>1 DEF Again, Start, Retry
<1>2. ASSUME NEW b \in Builders, Script(b) PROVE ExclusiveUntilStale'
  <2>1. CASE Test(b) BY <2>1 DEF Test
  <2>2. CASE Stat(b) BY <2>2 DEF Stat
  <2>3. CASE Remove(b) BY <2>3 DEF Remove
  <2>4. CASE Create(b) BY <2>4 DEF Create
  <2>5. QED BY <1>2, <2>1, <2>2, <2>3, <2>4 DEF Script
<1>3. ASSUME NEW b \in Builders, Release(b) PROVE ExclusiveUntilStale'
  BY <1>3 DEF Release
<1>4. ASSUME NEW b \in Builders, GiveUp(b) \/ Die(b) PROVE ExclusiveUntilStale'
  BY <1>4 DEF GiveUp, Die
<1>5. CASE Tick
  BY <1>5 DEF Tick
<1>6. CASE UNCHANGED vars
  BY <1>6 DEF vars
<1>7. QED
  BY <1>1, <1>2, <1>3, <1>4, <1>5, <1>6 DEF Next

-----------------------------------------------------------------------------
(* Every step keeps the inductive invariant.                               *)
LEMMA IInvPreserved == IInv /\ [Next]_vars => IInv'
BY TypesPreserved, FreshPreserved, NoRemovalPreserved, ExclusionPreserved DEF IInv

(* The inductive invariant holds throughout.                               *)
LEMMA SpecIInv == Spec => []IInv
BY InitIInv, IInvPreserved, PTL DEF Spec

(* Every variable keeps its type.                                          *)
THEOREM TypeCorrect == Spec => []TypeOK
<1>1. IInv => TypeOK
  BY DEF IInv
<1>2. QED
  BY <1>1, SpecIInv, PTL

(* At most one builder holds the lock until a lock file outlives its TTL.  *)
THEOREM LockExcludes == Spec => []ExclusiveUntilStale
<1>1. IInv => ExclusiveUntilStale
  BY DEF IInv
<1>2. QED
  BY <1>1, SpecIInv, PTL

=============================================================================
