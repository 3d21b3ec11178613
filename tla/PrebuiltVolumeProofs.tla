------------------------ MODULE PrebuiltVolumeProofs ------------------------
(***************************************************************************)
(* The prebuilt environment for any number of builders, any TTL and any    *)
(* number of failures.  The lock's part of a step is a step of BuildLock,  *)
(* whose proved invariant carries over; with it two builders are kept      *)
(* apart until a lock goes stale or is released under a running script,    *)
(* and as long as they are apart the volume can be trusted.                *)
(***************************************************************************)
EXTENDS PrebuiltVolume, TLAPS

Lock == INSTANCE BuildLockProofs

Scripted == {"test", "stat", "remove", "create"}

(* Remote scripts run for builders that hold the lock or have left; a      *)
(* builder without the lock so far has done nothing.                       *)
PlacesAgree ==
  \A b \in Builders :
    /\ script[b] # "none" => pc[b] \in {"hold", "over"} /\ at[b] \in Files
    /\ script[b] = "sum" => at[b] \in Bundles
    /\ pc[b] \in Scripted \union {"idle"} => at[b] = "install" /\ before[b] = {}
    /\ at[b] # "install" \/ pc[b] = "hold" => before[b] # {}

(* Whoever works has his lock file in place, until it goes stale or is     *)
(* released under a running script.                                        *)
WorkerOwnsLock == ~wasStale /\ ~loose => \A b \in Builders : Working(b) => lock = b

Alone == ~crowded => \A a, b \in Builders : Working(a) /\ Working(b) => a = b

(* The one at work owns the staging files, and what it has published.      *)
Done(c) == CASE c = "vibe" -> {"venv"} [] c \in {"hashes", "manifest"} -> Bundles [] OTHER -> {}

StagingIsOwn ==
  ~crowded => \A b \in Builders :
    /\ script[b] = "fill" => staging[at[b]] = Partial(b)
    /\ script[b] \in {"sum", "move"} => staging[at[b]] = Whole(b)
    /\ script[b] = "move" /\ at[b] \in Bundles => sums[b][at[b]] = Whole(b)

PublishedSoFar ==
  ~crowded => \A b \in Builders : Working(b) =>
    \A f \in Done(at[b]) :
      sums[b][f] = Whole(b) /\ (final[f] = Whole(b) \/ (final[f] = NoFile /\ swept))

(* Whoever began before another had the lock before.                       *)
HistoryShape ==
  /\ before[Old] = {}
  /\ \A b \in Makers : \A c \in before[b] : c = Old \/ before[c] # {}

(* The one at work began after everybody else who ever did.                *)
WorkerIsLatest ==
  ~crowded => \A b \in Builders : Working(b) =>
    /\ \A c \in Makers : b \notin before[c]
    /\ \A c \in Makers \ {b} : before[c] # {} => c \in before[b]

(* A check reads bundles once it has read a manifest.                      *)
ReaderShape ==
  /\ reader.manifest = Free <=> reader.at = "idle"
  /\ reader.at = "idle" => read = Nothing

(* Manifests are the last thing a build publishes.                         *)
ManifestIsLast ==
  ~crowded => \A b \in Builders :
    final["manifest"].by = b \/ reader.manifest = b => at[b] = "end"

(* No bundle is older than the manifest beside it, or than one that a      *)
(* check has read.                                                         *)
BundlesFollow ==
  ~crowded => \A m \in Makers : final["manifest"].by = m \/ reader.manifest = m =>
    \A f \in Bundles : final[f].by \notin before[m]

VolumeInv ==
  /\ StagingIsOwn /\ PublishedSoFar /\ WorkerIsLatest /\ ManifestIsLast /\ BundlesFollow
  /\ PublishedIsWhole /\ ManifestMatchesBundles /\ NeverOlder /\ LastBuildStands

Shape == TypeOK /\ PlacesAgree /\ HistoryShape /\ ReaderShape

IInv ==
  Shape /\ Lock!IInv /\ WorkerOwnsLock /\ Alone /\ LockKeepsApart /\ VolumeInv
-----------------------------------------------------------------------------
(* What the contents of a path tell.                                       *)
LEMMA FileFacts ==
  /\ NoFile \in Contents /\ NoFile.by = Free /\ ~NoFile.whole
  /\ \A b \in Makers : Whole(b) \in Contents /\ Partial(b) \in Contents
  /\ \A b : Whole(b).by = b /\ Whole(b).whole /\ ~Partial(b).whole
BY DEF NoFile, Contents, Whole, Partial

(* The two instances of the lock say the same.                             *)
LEMMA SameLock == (L!TypeOK <=> Lock!TypeOK) /\ (L!Init <=> Lock!Init)
BY DEF L!TypeOK, Lock!TypeOK, L!Init, Lock!Init, L!Places, Lock!Places

(* The initial states satisfy the invariant.                               *)
LEMMA InitIInv == Init => IInv
<1> SUFFICES ASSUME Init PROVE IInv
  OBVIOUS
<1> USE VolumeAssumption, FileFacts
<1>1. Lock!IInv /\ L!TypeOK
  BY Lock!InitIInv, SameLock DEF Init, Lock!IInv
<1>2. Shape
  <2>1. Old \in Makers /\ Builders \subseteq Makers
    BY DEF Makers
  <2>2. staging \in [Files -> Contents] /\ final \in [Files -> Contents]
    BY <2>1 DEF Init
  <2>3. sums \in [Makers -> [Bundles -> Contents]] /\ before \in [Makers -> SUBSET Makers]
    BY <2>1 DEF Init
  <2>4. loose \in BOOLEAN /\ crowded \in BOOLEAN /\ swept \in BOOLEAN
    BY DEF Init
  <2>5. reader.at = "idle" /\ reader.manifest = Free /\ read \in [Bundles -> Makers \union {Free}]
        /\ reader \in [at : {"idle", "test", "venv", "vibe", "probe"},
                      manifest : Makers \union {Free}]
    BY DEF Init, Unread, Nothing
  <2>6. TypeOK
    BY <1>1, <2>2, <2>3, <2>4, <2>5 DEF Init, TypeOK, Commands
  <2>7. PlacesAgree /\ HistoryShape /\ ReaderShape
    BY <2>1, <2>5 DEF Init, L!Init, PlacesAgree, HistoryShape, ReaderShape, Nothing
  <2>8. QED
    BY <2>6, <2>7 DEF Shape
<1>3. \A b \in Builders : ~Working(b)
  BY DEF Init, L!Init, Working
<1>4. WorkerOwnsLock /\ Alone /\ LockKeepsApart
  BY <1>3 DEF Init, WorkerOwnsLock, Alone, LockKeepsApart
<1>5. StagingIsOwn /\ PublishedSoFar /\ WorkerIsLatest
  BY <1>3 DEF Init, StagingIsOwn, PublishedSoFar, WorkerIsLatest
<1>6. \A f \in Files : final[f] \in {NoFile, Whole(Old)}
  BY DEF Init
<1>7. \A f \in Files : final[f].by \in {Free, Old}
  BY <1>6
<1>8. "manifest" \in Files /\ Bundles \subseteq Files /\ read = Nothing /\ reader.manifest = Free
  BY DEF Init, Files, Unread
<1>9. ManifestIsLast /\ BundlesFollow /\ PublishedIsWhole /\ NeverOlder /\ LastBuildStands
  BY <1>6, <1>7, <1>8
  DEF Init, ManifestIsLast, BundlesFollow, PublishedIsWhole, NeverOlder, LastBuildStands,
      Makers, Nothing
<1>10. ManifestMatchesBundles
  <2>1. CASE final = [f \in Files |-> NoFile]
    BY <1>8, <2>1 DEF ManifestMatchesBundles
  <2>2. CASE final = [f \in Files |-> Whole(Old)]
    <3>1. Old \in Makers
      BY DEF Makers
    <3>2. \A f \in Bundles : sums[Old][f] = Whole(Old)
      BY <3>1 DEF Init
    <3>3. QED
      BY <1>8, <2>2, <3>2 DEF ManifestMatchesBundles
  <2>3. QED
    BY <2>1, <2>2 DEF Init
<1>11. QED
  BY <1>1, <1>2, <1>4, <1>5, <1>9, <1>10 DEF IInv, VolumeInv
-----------------------------------------------------------------------------
(* What a step does to the lock is a step of BuildLock.                    *)
LEMMA LockStep == [Next]_vars => [Lock!Next]_(Lock!vars)
<1> SUFFICES ASSUME [Next]_vars PROVE [Lock!Next]_(Lock!vars)
  OBVIOUS
<1>1. ASSUME NEW b \in Builders, Locking(b) PROVE Lock!Next
  BY <1>1
  DEF Locking, L!Script, L!Test, L!Stat, L!Remove, L!Create, L!GiveUp, L!Start, L!Goto,
      L!fileVars, L!Scripted, Lock!Next, Lock!Again, Lock!Script, Lock!Test, Lock!Stat,
      Lock!Remove, Lock!Create, Lock!GiveUp, Lock!Start, Lock!Goto, Lock!fileVars,
      Lock!Scripted
<1>2. ASSUME NEW b \in Builders, Release(b) \/ Die(b) PROVE Lock!Next
  BY <1>2
  DEF Release, Die, L!Release, L!Die, L!Goto, L!fileVars, L!Scripted, Lock!Next,
      Lock!Release, Lock!Die, Lock!Goto, Lock!fileVars, Lock!Scripted
<1>3. ASSUME NEW b \in Builders, Prepare(b) \/ Open(b) \/ RemoteStep(b)
      PROVE UNCHANGED lockVars
  BY <1>3 DEF Prepare, Open, RemoteStep, Fill, Sum, Move, ScriptFails, PodGone
<1>4. ASSUME Tick PROVE Lock!Next
  BY <1>4 DEF Tick, L!Tick, L!Older, Lock!Next, Lock!Tick, Lock!Older
<1>5. ASSUME Remove \/ RemoverDies \/ Check PROVE UNCHANGED lockVars
  BY <1>5 DEF Remove, RemoverDies, Check, ReadManifest, TestBundles, Extract, Probe
<1>6. CASE UNCHANGED vars
  BY <1>6 DEF vars, lockVars, Lock!vars
<1>7. QED
  BY <1>1, <1>2, <1>3, <1>4, <1>5, <1>6 DEF Next, Build, lockVars, Lock!vars

(* Every step keeps the types of the build's and the volume's variables.   *)
LEMMA TypesPreserved ==
  ASSUME TypeOK, PlacesAgree, [Next]_vars, L!TypeOK'
  PROVE  TypeOK'
<1> USE VolumeAssumption, FileFacts DEF TypeOK
<1>0. /\ Builders \subseteq Makers /\ Bundles \subseteq Files /\ Files \subseteq Commands
      /\ Old \in Makers
  BY DEF Makers, Files, Bundles, Commands
<1>1. crowded' \in BOOLEAN
  <2>1. (crowded \/ \E a, b \in Builders : a # b /\ Working(a)' /\ Working(b)') \in BOOLEAN
    OBVIOUS
  <2>2. QED
    BY <2>1 DEF Next, vars
<1>2. ASSUME NEW b \in Builders, Locking(b) PROVE TypeOK'
  <2>1. {c \in Makers : c = Old \/ before[c] # {}} \in SUBSET Makers
    OBVIOUS
  <2>2. before' \in [Makers -> SUBSET Makers]
    BY <1>0, <1>2, <2>1 DEF Locking
  <2>3. QED
    BY <1>1, <1>2, <2>2 DEF Locking, volumeVars, otherVars, checkVars
<1>3. ASSUME NEW b \in Builders, Prepare(b) PROVE TypeOK'
  BY <1>1, <1>3 DEF Prepare, Following, Commands, volumeVars, otherVars, checkVars
<1>4. ASSUME NEW b \in Builders, Open(b) PROVE TypeOK'
  BY <1>0, <1>1, <1>4 DEF Open, otherVars, checkVars
<1>5. ASSUME NEW b \in Builders, Fill(b) PROVE TypeOK'
  <2>1. staging' \in [Files -> Contents] /\ final' \in [Files -> Contents]
    BY <1>0, <1>5 DEF Fill
  <2>2. QED
    BY <1>1, <1>5, <2>1 DEF Fill, otherVars, checkVars
<1>6. ASSUME NEW b \in Builders, Sum(b) PROVE TypeOK'
  <2>1. at[b] \in Bundles /\ staging[at[b]] \in Contents
    BY <1>0, <1>6 DEF Sum, PlacesAgree
  <2>2. sums' \in [Makers -> [Bundles -> Contents]]
    BY <1>0, <1>6, <2>1 DEF Sum
  <2>3. QED
    BY <1>1, <1>6, <2>2 DEF Sum, volumeVars, otherVars, checkVars
<1>7. ASSUME NEW b \in Builders, Move(b) PROVE TypeOK'
  <2>1. at[b] \in Files /\ staging[at[b]] \in Contents
    BY <1>7 DEF Move, PlacesAgree
  <2>2. Following(at[b]) \in Commands
    BY <2>1 DEF Following, Commands, Files, Bundles
  <2>3. QED
    BY <1>1, <1>7, <2>1, <2>2 DEF Move, otherVars, checkVars
<1>8. ASSUME NEW b \in Builders, ScriptFails(b) PROVE TypeOK'
  BY <1>1, <1>8 DEF ScriptFails, Commands, volumeVars, otherVars, checkVars
<1>9. ASSUME NEW b \in Builders, Release(b) PROVE TypeOK'
  <2>1. (loose \/ script[b] # "none") \in BOOLEAN
    OBVIOUS
  <2>2. loose' \in BOOLEAN
    BY <1>9, <2>1 DEF Release
  <2>3. QED
    BY <1>1, <1>9, <2>2 DEF Release, volumeVars, otherVars, checkVars
<1>10. ASSUME NEW b \in Builders, Die(b) \/ PodGone(b) PROVE TypeOK'
  BY <1>1, <1>10 DEF Die, PodGone, volumeVars, otherVars, checkVars
<1>11. CASE Tick
  BY <1>1, <1>11 DEF Tick, buildVars, volumeVars, otherVars, checkVars
<1>12. CASE Remove \/ RemoverDies
  <2>1. final' \in [Files -> Contents]
    BY <1>12 DEF Remove, RemoverDies, volumeVars
  <2>2. remover' \in Files \union {"idle"}
    BY <1>12 DEF Remove, RemoverDies, Files, Bundles
  <2>3. swept' \in BOOLEAN
    BY <1>12 DEF Remove, RemoverDies
  <2>4. QED
    BY <1>1, <1>12, <2>1, <2>2, <2>3 DEF Remove, RemoverDies, buildVars, volumeVars, checkVars
<1>13. CASE Check
  <2>1. CASE ReadManifest
    <3>1. "manifest" \in Files /\ final["manifest"] \in Contents
      BY DEF Files
    <3>2. final["manifest"].by \in Makers \union {Free}
      BY <3>1 DEF Contents, NoFile
    <3>3. QED
      BY <1>1, <2>1, <3>2 DEF ReadManifest, buildVars, volumeVars
  <2>2. CASE reader' = Unread /\ read' = Nothing
    BY <1>1, <1>13, <2>2
    DEF Check, ReadManifest, TestBundles, Extract, Probe, Unread, Nothing, buildVars, volumeVars
  <2>3. CASE TestBundles /\ reader' = [reader EXCEPT !.at = "venv"] /\ UNCHANGED read
    BY <1>1, <2>3 DEF TestBundles, buildVars, volumeVars
  <2>4. CASE Extract /\ final[reader.at].whole
    <3>1. final[reader.at] \in Contents
      BY <1>0, <2>4 DEF Extract
    <3>2. final[reader.at].by \in Makers \union {Free}
      BY <3>1 DEF Contents, NoFile
    <3>3. QED
      BY <1>1, <2>4, <3>2 DEF Extract, buildVars, volumeVars
  <2>5. QED
    BY <1>13, <2>1, <2>2, <2>3, <2>4 DEF Check, TestBundles, Extract, Probe, EndsCheck
<1>14. CASE UNCHANGED vars
  BY <1>14 DEF vars, lockVars, buildVars, volumeVars, otherVars, checkVars
<1>15. QED
  BY <1>2, <1>3, <1>4, <1>5, <1>6, <1>7, <1>8, <1>9, <1>10, <1>11, <1>12, <1>13, <1>14
  DEF Next, Build, RemoteStep

(* Scripts begin under the lock, and commands follow each other in order.  *)
LEMMA PlacesPreserved ==
  ASSUME TypeOK, PlacesAgree, [Next]_vars
  PROVE  PlacesAgree'
<1> USE VolumeAssumption DEF PlacesAgree, TypeOK, L!TypeOK, Scripted
<1>0. Builders \subseteq Makers /\ "install" \notin Files
  BY DEF Makers, Files, Bundles
<1>1. ASSUME NEW b \in Builders, Locking(b) PROVE PlacesAgree'
  <2>1. CASE L!Script(b)
    <3>1. pc[b] \in Scripted /\ at[b] = "install" /\ script[b] = "none" /\ UNCHANGED <<at, script>>
      BY <1>0, <1>1, <2>1
      DEF Locking, L!Script, L!Test, L!Stat, L!Remove, L!Create
    <3>2. \A c \in Builders \ {b} : pc'[c] = pc[c]
      BY <2>1 DEF L!Script, L!Test, L!Stat, L!Remove, L!Create, L!Goto
    <3>3. pc'[b] \in Scripted \union {"over", "hold"}
      BY <2>1 DEF L!Script, L!Test, L!Stat, L!Remove, L!Create, L!Goto
    <3>4. \A c \in Builders \ {b} : before'[c] = before[c]
      BY <1>0, <1>1 DEF Locking
    <3>5. CASE pc'[b] = "hold"
      <4>1. Old \in before'[b]
        BY <1>0, <1>1, <3>1, <3>5 DEF Locking, Makers
      <4>2. QED
        BY <3>1, <3>2, <3>4, <3>5, <4>1
    <3>6. CASE pc'[b] # "hold"
      BY <1>1, <3>1, <3>2, <3>3, <3>4, <3>6 DEF Locking
    <3>7. QED
      BY <3>5, <3>6
  <2>2. CASE L!GiveUp(b)
    BY <1>1, <2>2 DEF Locking, L!GiveUp
  <2>3. CASE L!Start(b)
    BY <1>1, <2>3 DEF Locking, L!Start, L!Goto
  <2>4. QED
    BY <1>1, <2>1, <2>2, <2>3 DEF Locking
<1>2. ASSUME NEW b \in Builders, Prepare(b) \/ Open(b) PROVE PlacesAgree'
  BY <1>0, <1>2 DEF Prepare, Open, Sends, lockVars
<1>3. ASSUME NEW b \in Builders, Fill(b) PROVE PlacesAgree'
  BY <1>3 DEF Fill, Files, lockVars
<1>4. ASSUME NEW b \in Builders, Sum(b) \/ Move(b) \/ ScriptFails(b) \/ PodGone(b)
      PROVE PlacesAgree'
  BY <1>0, <1>4 DEF Sum, Move, ScriptFails, PodGone, lockVars
<1>5. ASSUME NEW b \in Builders, Release(b) \/ Die(b) PROVE PlacesAgree'
  BY <1>0, <1>5 DEF Release, Die, L!Release, L!Die, L!Goto
<1>6. CASE Tick \/ Remove \/ RemoverDies
  BY <1>6 DEF Tick, L!Tick, Remove, RemoverDies, buildVars, lockVars
<1>7. CASE Check \/ UNCHANGED vars
  BY <1>7
  DEF Check, ReadManifest, TestBundles, Extract, Probe, vars, buildVars, lockVars
<1>8. QED
  BY <1>1, <1>2, <1>3, <1>4, <1>5, <1>6, <1>7 DEF Next, Build, RemoteStep

(* before changes only when a builder gets the lock, for that builder.     *)
LEMMA BeforeStep ==
  ASSUME TypeOK, PlacesAgree, [Next]_vars
  PROVE  \/ UNCHANGED before
         \/ \E b \in Builders :
              /\ Locking(b) /\ pc'[b] = "hold" /\ before[b] = {}
              /\ before' = [before EXCEPT ![b] = {c \in Makers : c = Old \/ before[c] # {}}]
<1>1. ASSUME NEW b \in Builders, Locking(b), before' # before
      PROVE  /\ pc'[b] = "hold" /\ before[b] = {}
             /\ before' = [before EXCEPT ![b] = {c \in Makers : c = Old \/ before[c] # {}}]
  BY <1>1
  DEF Locking, L!Script, L!Test, L!Stat, L!Remove, L!Create, L!GiveUp, L!Start, L!Goto,
      TypeOK, L!TypeOK, PlacesAgree, Scripted
<1>2. ASSUME NEW b \in Builders, Build(b), ~Locking(b) PROVE UNCHANGED before
  BY <1>2
  DEF Build, RemoteStep, Prepare, Open, Fill, Sum, Move, ScriptFails, PodGone, Release, Die
<1>3. Tick \/ Remove \/ RemoverDies \/ Check \/ UNCHANGED vars => UNCHANGED before
  BY DEF Tick, Remove, RemoverDies, Check, ReadManifest, TestBundles, Extract, Probe, vars,
         buildVars
<1>4. QED
  BY <1>1, <1>2, <1>3 DEF Next

(* Nobody precedes the build that was there, and all that precede another  *)
(* have had the lock.                                                      *)
LEMMA HistoryPreserved ==
  ASSUME TypeOK, PlacesAgree, HistoryShape, [Next]_vars
  PROVE  HistoryShape'
<1>1. Builders \subseteq Makers /\ Old \in Makers /\ Old \notin Builders
  BY VolumeAssumption DEF Makers
<1>2. CASE UNCHANGED before
  BY <1>2 DEF HistoryShape
<1>3. ASSUME NEW b \in Builders, before[b] = {},
             before' = [before EXCEPT ![b] = {c \in Makers : c = Old \/ before[c] # {}}]
      PROVE  HistoryShape'
  <2>1. /\ \A c \in Makers \ {b} : before'[c] = before[c]
        /\ before'[b] = {c \in Makers : c = Old \/ before[c] # {}}
    BY <1>1, <1>3 DEF TypeOK
  <2>2. \A c \in Makers : c = Old \/ before[c] # {} => c = Old \/ before'[c] # {}
    BY <1>3, <2>1
  <2>3. \A x \in Makers : before[x] \subseteq Makers
    BY DEF TypeOK
  <2>4. QED
    BY <1>1, <2>1, <2>2, <2>3 DEF HistoryShape
<1>4. QED
  BY <1>2, <1>3, BeforeStep

(* A check forgets everything at its end.                                  *)
LEMMA ReaderPreserved ==
  ASSUME TypeOK, ReaderShape, [Next]_vars
  PROVE  ReaderShape'
<1>1. ASSUME ~Check PROVE UNCHANGED checkVars
  <2>1. ASSUME NEW b \in Builders, Build(b) PROVE UNCHANGED checkVars
    BY <2>1
    DEF Build, Locking, RemoteStep, Prepare, Open, Fill, Sum, Move, ScriptFails, PodGone,
        Release, Die, otherVars
  <2>2. QED
    BY <1>1, <2>1 DEF Next, Tick, Remove, RemoverDies, vars, otherVars
<1>2. CASE ReadManifest
  <2>1. final["manifest"] \in Contents
    BY DEF TypeOK, Files
  <2>2. final["manifest"].by # Free
    BY <1>2, <2>1, VolumeAssumption DEF ReadManifest, Contents, NoFile, Makers
  <2>3. QED
    BY <1>2, <2>2 DEF ReadManifest, ReaderShape
<1>3. CASE TestBundles \/ Extract \/ Probe
  BY <1>3
  DEF TestBundles, Extract, Probe, EndsCheck, Unread, Nothing, ReaderShape, TypeOK, Bundles
<1>4. QED
  BY <1>1, <1>2, <1>3 DEF Check, checkVars, ReaderShape

LEMMA ShapePreserved ==
  ASSUME Shape, [Next]_vars, L!TypeOK'
  PROVE  Shape'
BY TypesPreserved, PlacesPreserved, HistoryPreserved, ReaderPreserved DEF Shape
-----------------------------------------------------------------------------
(* A worker's lock file is removed by nobody else as long as none is       *)
(* stale, and leaves his hands only when he is done or lets go too early.  *)
LEMMA OwnPreserved ==
  ASSUME TypeOK, PlacesAgree, Lock!IInv, WorkerOwnsLock, [Next]_vars
  PROVE  WorkerOwnsLock'
<1> USE DEF WorkerOwnsLock, Working, TypeOK, L!TypeOK
<1>1. ASSUME NEW b \in Builders, Locking(b) PROVE WorkerOwnsLock'
  <2>1. CASE L!Test(b) \/ L!Stat(b) \/ L!Start(b) \/ L!GiveUp(b)
    BY <1>1, <2>1 DEF Locking, L!Test, L!Stat, L!Start, L!GiveUp, L!Goto, L!fileVars
  <2>2. CASE L!Remove(b)
    BY <1>1, <2>2 DEF Locking, L!Remove, Lock!IInv, Lock!NoRemoval
  <2>3. CASE L!Create(b)
    BY <1>1, <2>3, VolumeAssumption DEF Locking, L!Create, L!Goto, PlacesAgree
  <2>4. QED
    BY <1>1, <2>1, <2>2, <2>3 DEF Locking, L!Script
<1>2. ASSUME NEW b \in Builders, Prepare(b) \/ Open(b) PROVE WorkerOwnsLock'
  BY <1>2 DEF Prepare, Open, Sends, lockVars
<1>3. ASSUME NEW b \in Builders, RemoteStep(b) PROVE WorkerOwnsLock'
  BY <1>3 DEF RemoteStep, Fill, Sum, Move, ScriptFails, PodGone, lockVars
<1>4. ASSUME NEW b \in Builders, Release(b) PROVE WorkerOwnsLock'
  BY <1>4 DEF Release, L!Release, L!Goto
<1>5. ASSUME NEW b \in Builders, Die(b) PROVE WorkerOwnsLock'
  BY <1>5 DEF Die, L!Die, L!Goto, L!fileVars
<1>6. CASE Tick
  BY <1>6 DEF Tick, L!Tick, buildVars
<1>7. CASE Remove \/ RemoverDies \/ Check \/ UNCHANGED vars
  BY <1>7
  DEF Remove, RemoverDies, Check, ReadManifest, TestBundles, Extract, Probe, vars, lockVars,
      buildVars
<1>8. QED
  BY <1>1, <1>2, <1>3, <1>4, <1>5, <1>6, <1>7 DEF Next, Build

(* So two workers are a sign of one or the other, and are always noted.    *)
LEMMA ApartPreserved ==
  ASSUME TypeOK, TypeOK', WorkerOwnsLock', Alone, LockKeepsApart, [Next]_vars
  PROVE  Alone' /\ LockKeepsApart'
<1>1. (wasStale \/ loose) => (wasStale' \/ loose')
  <2>1. ASSUME NEW b \in Builders, Build(b) PROVE (wasStale \/ loose) => (wasStale' \/ loose')
    BY <2>1
    DEF Build, Locking, RemoteStep, Prepare, Open, Fill, Sum, Move, ScriptFails, PodGone,
        Release, Die, L!Script, L!Test, L!Stat, L!Remove, L!Create, L!GiveUp, L!Start,
        L!Release, L!Die, L!fileVars, lockVars
  <2>2. Tick => ((wasStale \/ loose) => (wasStale' \/ loose'))
    BY DEF Tick, L!Tick, buildVars, TypeOK, L!TypeOK
  <2>3. Remove \/ RemoverDies \/ Check \/ UNCHANGED vars => UNCHANGED <<wasStale, loose>>
    BY DEF Remove, RemoverDies, Check, ReadManifest, TestBundles, Extract, Probe, vars,
           lockVars, buildVars
  <2>4. QED
    BY <2>1, <2>2, <2>3 DEF Next
<1>2. CASE Next
  <2>1. crowded' <=> crowded \/ \E a, b \in Builders : a # b /\ Working(a)' /\ Working(b)'
    BY <1>2 DEF Next
  <2>2. QED
    BY <1>1, <2>1 DEF WorkerOwnsLock, Alone, LockKeepsApart
<1>3. CASE UNCHANGED vars
  BY <1>3
  DEF Alone, LockKeepsApart, Working, vars, lockVars, buildVars
<1>4. QED
  BY <1>2, <1>3

-----------------------------------------------------------------------------
(* Steps that end work or scripts and leave the volume alone.              *)
LEMMA QuietKeeps ==
  ASSUME Shape, VolumeInv, crowded => crowded',
         UNCHANGED <<sums, before, staging, final, swept, reader, read>>,
         \A b \in Builders : Working(b)' => Working(b),
         \A b \in Builders : script'[b] \in {script[b], "none"},
         \A b \in Builders :
           at'[b] = at[b] \/ (at'[b] = "failed" /\ at[b] # "end" /\ script'[b] = "none")
  PROVE  VolumeInv'
<1> USE DEF VolumeInv
<1>1. StagingIsOwn'
  BY DEF StagingIsOwn
<1>2. PublishedSoFar'
  <2>1. Done("failed") = {}
    BY DEF Done
  <2>2. QED
    BY <2>1 DEF PublishedSoFar
<1>3. WorkerIsLatest' /\ BundlesFollow'
  BY DEF WorkerIsLatest, BundlesFollow
<1>4. ManifestIsLast'
  BY DEF ManifestIsLast
<1>5. PublishedIsWhole' /\ NeverOlder'
  BY DEF PublishedIsWhole, NeverOlder
<1>6. \A b \in Builders : at'[b] = "end" <=> at[b] = "end"
  OBVIOUS
<1>7. ManifestMatchesBundles'
  BY <1>6 DEF ManifestMatchesBundles
<1>8. LastBuildStands'
  BY <1>6 DEF LastBuildStands
<1>9. QED
  BY <1>1, <1>2, <1>3, <1>4, <1>5, <1>7, <1>8

(* A builder gets the lock: nobody else is at work, and it is the latest.  *)
LEMMA AcquireKeeps ==
  ASSUME Shape, VolumeInv, ~crowded, ~crowded', Alone', NEW b \in Builders, Locking(b),
         pc'[b] = "hold", before[b] = {}, pc[b] # "hold",
         before' = [before EXCEPT ![b] = {c \in Makers : c = Old \/ before[c] # {}}]
  PROVE  VolumeInv'
<1> USE DEF VolumeInv, Shape
<1>1. /\ UNCHANGED <<at, script, sums, staging, final, swept, reader, read>>
      /\ \A c \in Builders \ {b} : ~Working(c)'
      /\ Builders \subseteq Makers /\ Old \in Makers \ Builders
  BY VolumeAssumption
  DEF Locking, volumeVars, otherVars, checkVars, Alone, Working, Makers
<1>2. /\ before'[b] = {c \in Makers : c = Old \/ before[c] # {}}
      /\ \A c \in Makers \ {b} : before'[c] = before[c]
      /\ \A c \in Makers : before[c] \subseteq Makers
  BY <1>1 DEF TypeOK
<1>3. \A c \in Makers : b \notin before'[c]
  BY <1>1, <1>2 DEF HistoryShape
<1>4. script[b] = "none" /\ at[b] = "install"
  <2>1. pc[b] \in Scripted \union {"idle"}
    BY <1>2
    DEF Locking, L!Script, L!Test, L!Stat, L!Remove, L!Create, L!GiveUp, L!Start, L!Scripted,
        Scripted
  <2>2. QED
    BY <2>1 DEF PlacesAgree, Scripted
<1>5. StagingIsOwn' /\ PublishedIsWhole'
  BY <1>1 DEF StagingIsOwn, PublishedIsWhole
<1>6. PublishedSoFar'
  BY <1>1, <1>4 DEF PublishedSoFar, Done
<1>7. WorkerIsLatest'
  BY <1>1, <1>2, <1>3 DEF WorkerIsLatest
<1>8. ManifestIsLast'
  BY <1>1 DEF ManifestIsLast
<1>9. \A m \in Makers : final["manifest"].by = m \/ reader.manifest = m => m # b
  BY <1>4 DEF ManifestIsLast
<1>10. BundlesFollow'
  BY <1>1, <1>2, <1>9 DEF BundlesFollow
<1>11. NeverOlder'
  <2>1. ASSUME NEW f \in Bundles, read'[f] # Free PROVE read'[f] \notin before'[reader'.manifest]
    <3>1. read[f] # Free /\ read[f] \notin before[reader.manifest]
      BY <1>1, <2>1 DEF NeverOlder
    <3>2. reader.manifest \in Makers
      BY <3>1 DEF ReaderShape, Nothing, TypeOK
    <3>3. QED
      BY <1>1, <1>2, <1>9, <3>1, <3>2
  <2>2. QED
    BY <2>1 DEF NeverOlder
<1>12. ManifestMatchesBundles'
  BY <1>1 DEF ManifestMatchesBundles
<1>13. LastBuildStands'
  <2>1. \A c \in Builders : (\A x \in Makers : c \notin before'[x]) /\ at[c] = "end" =>
           \A x \in Makers : c \notin before[x]
    BY <1>1, <1>2
  <2>2. QED
    BY <1>1, <2>1 DEF LastBuildStands
<1>14. QED
  BY <1>5, <1>6, <1>7, <1>8, <1>10, <1>11, <1>12, <1>13

(* Local work takes the build past commands that publish nothing.          *)
LEMMA PrepareKeeps ==
  ASSUME Shape, VolumeInv, ~crowded, ~crowded', NEW b \in Builders, Prepare(b)
  PROVE  VolumeInv'
<1> USE DEF VolumeInv
<1>1. /\ UNCHANGED <<script, sums, before, staging, final, swept, reader, read, pc>>
      /\ pc[b] = "hold" /\ script[b] = "none"
      /\ \/ at[b] = "install" /\ at'[b] = "venv"
         \/ at[b] = "hashes" /\ at'[b] = "manifest"
      /\ \A c \in Builders \ {b} : at'[c] = at[c]
  <2>1. Following("install") = "venv" /\ Following("hashes") = "manifest"
    BY DEF Following
  <2>2. QED
    BY <2>1 DEF Prepare, Sends, Shape, TypeOK, lockVars, volumeVars, otherVars, checkVars
<1>2. \A c \in Builders : (Working(c)' <=> Working(c)) /\ Done(at'[c]) = Done(at[c])
  BY <1>1 DEF Working, Done
<1>3. \A c \in Builders : at'[c] = "end" <=> at[c] = "end"
  BY <1>1
<1>4. StagingIsOwn' /\ PublishedIsWhole' /\ NeverOlder'
  BY <1>1 DEF StagingIsOwn, PublishedIsWhole, NeverOlder
<1>5. PublishedSoFar' /\ WorkerIsLatest'
  BY <1>1, <1>2 DEF PublishedSoFar, WorkerIsLatest
<1>6. ManifestIsLast' /\ BundlesFollow'
  BY <1>1, <1>3 DEF ManifestIsLast, BundlesFollow
<1>7. ManifestMatchesBundles' /\ LastBuildStands'
  BY <1>1, <1>3 DEF ManifestMatchesBundles, LastBuildStands
<1>8. QED
  BY <1>4, <1>5, <1>6, <1>7

(* A script begins, fills its staging file or takes its digest: nothing    *)
(* that is published changes.                                              *)
LEMMA StagingStepKeeps ==
  ASSUME Shape, Alone, VolumeInv, ~crowded, ~crowded', NEW b \in Builders,
         Open(b) \/ Fill(b) \/ Sum(b)
  PROVE  VolumeInv'
<1> USE DEF VolumeInv
<1>1. /\ UNCHANGED <<at, before, swept, reader, read, pc>>
      /\ \A c \in Builders \ {b} : script'[c] = script[c] /\ ~Working(c)
      /\ Working(b) /\ at[b] \in Files /\ b \in Makers
  <2>1. UNCHANGED <<at, before, swept, reader, read, pc>>
    BY DEF Open, Fill, Sum, lockVars, otherVars, checkVars, volumeVars
  <2>2. Working(b) /\ at[b] \in Files /\ b \in Makers
    BY DEF Open, Fill, Sum, Sends, Working, Shape, PlacesAgree, Makers
  <2>3. \A c \in Builders \ {b} : script'[c] = script[c]
    BY DEF Open, Fill, Sum, Shape, TypeOK
  <2>4. QED
    BY <2>1, <2>2, <2>3 DEF Alone
<1>2. UNCHANGED final
  <2>1. CASE Fill(b)
    <3>1. final[at[b]] # Partial(b)
      <4>1. Partial(b) # NoFile
        BY VolumeAssumption DEF Partial, NoFile
      <4>2. QED
        BY <1>1, <4>1, FileFacts DEF PublishedIsWhole
    <3>2. final' = [final EXCEPT ![at[b]] = final[at[b]]]
      BY <2>1, <3>1 DEF Fill
    <3>3. QED
      BY <3>2 DEF Shape, TypeOK
  <2>2. QED
    BY <2>1 DEF Open, Sum, volumeVars
<1>3. \A c \in Builders : Working(c)' => Working(c)
  BY <1>1 DEF Working
<1>4. \A c \in Builders \ {b} : script[c] = "none"
  BY <1>1 DEF Working
<1>5. StagingIsOwn'
  <2>1. CASE Open(b)
    BY <1>1, <1>4, <2>1 DEF Open, StagingIsOwn, Shape, TypeOK
  <2>2. CASE Fill(b)
    <3>1. staging'[at[b]] = Whole(b) /\ script'[b] \in {"sum", "move"}
      BY <1>1, <2>2 DEF Fill, StagingIsOwn, Shape, TypeOK
    <3>2. script'[b] = "move" => at[b] \notin Bundles
      BY <2>2 DEF Fill, Shape, TypeOK, Bundles
    <3>3. QED
      BY <1>1, <1>4, <3>1, <3>2 DEF StagingIsOwn
  <2>3. CASE Sum(b)
    <3>1. at[b] \in Bundles /\ UNCHANGED staging /\ script'[b] = "move"
      BY <2>3 DEF Sum, Shape, TypeOK, PlacesAgree, volumeVars
    <3>2. sums'[b][at[b]] = staging[at[b]]
      BY <1>1, <2>3, <3>1 DEF Sum, Shape, TypeOK
    <3>3. QED
      BY <1>1, <1>4, <2>3, <3>1, <3>2 DEF Sum, StagingIsOwn
  <2>4. QED
    BY <2>1, <2>2, <2>3
<1>6. \A m \in Makers, f \in Bundles : (m # b \/ f # at[b]) => sums'[m][f] = sums[m][f]
  BY <1>1 DEF Open, Fill, Sum, Shape, TypeOK, PlacesAgree
<1>7. PublishedSoFar'
  <2>1. at[b] \notin Done(at[b]) /\ Done(at[b]) \subseteq Bundles
    BY <1>1 DEF Done, Files, Bundles
  <2>2. QED
    BY <1>1, <1>2, <1>3, <1>6, <2>1 DEF PublishedSoFar
<1>8. WorkerIsLatest' /\ ManifestIsLast' /\ BundlesFollow' /\ PublishedIsWhole'
  BY <1>1, <1>2, <1>3
  DEF WorkerIsLatest, ManifestIsLast, BundlesFollow, PublishedIsWhole
<1>9. ManifestMatchesBundles'
  <2>1. SUFFICES ASSUME final["manifest"].whole, NEW f \in Bundles
                 PROVE  \/ final[f] = sums'[final["manifest"].by][f]
                        \/ final[f].by \in {c \in Builders : at[c] # "end"}
                        \/ final[f] = NoFile /\ swept
    BY <1>1, <1>2 DEF ManifestMatchesBundles
  <2>2. final["manifest"].by \in Makers
    <3>1. final["manifest"] \in Contents
      BY DEF Shape, TypeOK, Files
    <3>2. QED
      BY <2>1, <3>1, FileFacts DEF Contents
  <2>3. final["manifest"].by # b
    BY <1>1 DEF ManifestIsLast, Files, Bundles
  <2>4. QED
    BY <1>6, <2>1, <2>2, <2>3 DEF ManifestMatchesBundles
<1>10. NeverOlder' /\ LastBuildStands'
  BY <1>1, <1>2 DEF NeverOlder, LastBuildStands
<1>11. QED
  BY <1>5, <1>7, <1>8, <1>9, <1>10

(* A file is published: by the only one at work, in order, and whole.      *)
LEMMA MoveKeeps ==
  ASSUME Shape, Alone, VolumeInv, ~crowded, ~crowded', NEW b \in Builders, Move(b)
  PROVE  VolumeInv'
<1> USE DEF VolumeInv
<1>1. /\ UNCHANGED <<sums, before, swept, reader, read, pc>>
      /\ Working(b) /\ at[b] \in Files /\ b \in Makers
      /\ script[b] = "move" /\ script'[b] = "none" /\ at'[b] = Following(at[b])
  BY DEF Move, Working, Shape, TypeOK, PlacesAgree, lockVars, otherVars, checkVars, Makers
<1>2. \A c \in Builders \ {b} :
        at'[c] = at[c] /\ script'[c] = script[c] /\ ~Working(c) /\ script[c] = "none"
  BY <1>1 DEF Move, Alone, Working, Shape, TypeOK
<1>3. /\ at[b] = "venv" => at'[b] = "vibe"
      /\ at[b] = "vibe" => at'[b] = "hashes"
      /\ at[b] = "manifest" => at'[b] = "end"
      /\ at[b] # "end"
  BY <1>1 DEF Following, Files, Bundles
<1>4. /\ final'[at[b]] = Whole(b)
      /\ \A f \in Files \ {at[b]} : final'[f] = final[f]
      /\ at[b] \in Bundles => sums[b][at[b]] = Whole(b)
  BY <1>1 DEF Move, StagingIsOwn, Shape, TypeOK
<1>5. \A c \in Builders : Working(c)' => c = b
  BY <1>1, <1>2 DEF Working
<1>6. Bundles \subseteq Files /\ "manifest" \in Files \ Bundles
  BY DEF Files, Bundles
<1>7. at[b] = "manifest" => \A f \in Bundles :
        sums[b][f] = Whole(b) /\ (final[f] = Whole(b) \/ (final[f] = NoFile /\ swept))
  BY <1>1 DEF PublishedSoFar, Done
<1>8. (\A m \in Makers : b \notin before[m] /\ Free \notin before[m]) /\ Free # b
  BY <1>1, VolumeAssumption DEF WorkerIsLatest, Shape, TypeOK, Makers
<1>9. StagingIsOwn' /\ PublishedIsWhole'
  BY <1>1, <1>2, <1>4, FileFacts DEF StagingIsOwn, PublishedIsWhole
<1>10. PublishedSoFar'
  <2>1. SUFFICES ASSUME NEW f \in Done(at'[b])
                 PROVE  /\ sums[b][f] = Whole(b)
                        /\ final'[f] = Whole(b) \/ (final'[f] = NoFile /\ swept)
    BY <1>1, <1>5 DEF PublishedSoFar
  <2>2. CASE f = at[b]
    BY <1>3, <1>4, <1>6, <2>1, <2>2 DEF Done, Files, Bundles
  <2>3. CASE f # at[b]
    <3>1. f \in Done(at[b]) /\ f \in Files
      BY <1>1, <1>3, <2>1, <2>3 DEF Done, Files, Bundles
    <3>2. QED
      BY <1>1, <1>4, <2>3, <3>1 DEF PublishedSoFar
  <2>4. QED
    BY <2>2, <2>3
<1>11. WorkerIsLatest'
  BY <1>1, <1>5 DEF WorkerIsLatest
<1>12. ManifestIsLast'
  BY <1>1, <1>2, <1>3, <1>4, <1>6, FileFacts DEF ManifestIsLast, Files
<1>13. BundlesFollow'
  <2>1. SUFFICES ASSUME NEW m \in Makers, final'["manifest"].by = m \/ reader.manifest = m,
                        NEW f \in Bundles
                 PROVE  final'[f].by \notin before[m]
    BY <1>1 DEF BundlesFollow
  <2>2. CASE f = at[b]
    BY <1>4, <1>8, <2>2, FileFacts
  <2>3. CASE f # at[b] /\ (at[b] # "manifest" \/ reader.manifest = m)
    BY <1>4, <1>6, <2>1, <2>3 DEF BundlesFollow, Files
  <2>4. CASE at[b] = "manifest"
    BY <1>4, <1>6, <1>7, <1>8, <2>1, <2>3, <2>4, FileFacts
  <2>5. QED
    BY <2>2, <2>3, <2>4
<1>14. ManifestMatchesBundles'
  <2>1. SUFFICES ASSUME final'["manifest"].whole, NEW f \in Bundles
                 PROVE  \/ final'[f] = sums[final'["manifest"].by][f]
                        \/ final'[f].by \in {c \in Builders : at'[c] # "end"}
                        \/ final'[f] = NoFile /\ swept
    BY <1>1 DEF ManifestMatchesBundles
  <2>2. CASE at[b] = "manifest"
    BY <1>4, <1>6, <1>7, <2>2, FileFacts
  <2>3. CASE f = at[b]
    BY <1>3, <1>4, <2>3, FileFacts DEF Bundles
  <2>4. CASE f # at[b] /\ at[b] # "manifest"
    <3>1. final'[f] = final[f] /\ final'["manifest"] = final["manifest"]
      BY <1>4, <1>6, <2>4
    <3>2. \A c \in Builders : at[c] # "end" => at'[c] # "end"
      BY <1>1, <1>2, <1>3, <2>4 DEF Files, Bundles
    <3>3. QED
      BY <2>1, <3>1, <3>2 DEF ManifestMatchesBundles
  <2>5. QED
    BY <2>2, <2>3, <2>4
<1>15. NeverOlder'
  BY <1>1 DEF NeverOlder
<1>16. LastBuildStands'
  <2>1. SUFFICES ASSUME ~swept, NEW c \in Builders, at'[c] = "end",
                        \A x \in Makers : c \notin before[x], NEW f \in Files
                 PROVE  final'[f] = Whole(c)
    BY <1>1 DEF LastBuildStands
  <2>2. CASE c = b
    BY <1>1, <1>3, <1>4, <1>7, <2>1, <2>2 DEF Files, Bundles
  <2>3. CASE c # b
    <3>1. at[c] = "end" /\ before[c] # {} /\ c \in Makers
      BY <1>2, <2>1, <2>3 DEF Shape, PlacesAgree, Makers
    <3>2. c \in before[b]
      BY <1>1, <2>3, <3>1 DEF WorkerIsLatest
    <3>3. QED
      BY <1>1, <2>1, <3>2
  <2>4. QED
    BY <2>2, <2>3
<1>17. QED
  BY <1>9, <1>10, <1>11, <1>12, <1>13, <1>14, <1>15, <1>16

(* An invalidation only takes away, and is remembered.                     *)
LEMMA RemoveKeeps ==
  ASSUME Shape, VolumeInv, ~crowded, ~crowded', Remove, remover # "idle"
  PROVE  VolumeInv'
<1> USE DEF VolumeInv
<1>1. /\ UNCHANGED <<at, script, sums, before, staging, reader, read, pc>>
      /\ swept' = TRUE /\ remover \in Files
      /\ final'[remover] = NoFile /\ \A f \in Files \ {remover} : final'[f] = final[f]
  BY DEF Remove, Shape, TypeOK, lockVars, buildVars, checkVars
<1>2. /\ "manifest" \in Files /\ Bundles \subseteq Files
      /\ \A m \in Makers : Free \notin before[m] /\ m # Free
  BY VolumeAssumption DEF Files, Shape, TypeOK, Makers
<1>3. \A c \in Builders : Working(c)' <=> Working(c)
  BY <1>1 DEF Working
<1>4. StagingIsOwn' /\ PublishedIsWhole' /\ NeverOlder' /\ LastBuildStands'
  BY <1>1 DEF StagingIsOwn, PublishedIsWhole, NeverOlder, LastBuildStands
<1>5. PublishedSoFar'
  <2>1. \A c \in Builders : Done(at[c]) \subseteq Files
    BY DEF Done, Files, Bundles
  <2>2. QED
    BY <1>1, <1>3, <2>1 DEF PublishedSoFar
<1>6. WorkerIsLatest'
  BY <1>1, <1>3 DEF WorkerIsLatest
<1>7. ManifestIsLast'
  BY <1>1, <1>2, FileFacts, VolumeAssumption DEF ManifestIsLast
<1>8. BundlesFollow'
  BY <1>1, <1>2, FileFacts DEF BundlesFollow
<1>9. ManifestMatchesBundles'
  BY <1>1, <1>2, FileFacts DEF ManifestMatchesBundles
<1>10. QED
  BY <1>4, <1>5, <1>6, <1>7, <1>8, <1>9

(* A check takes from the volume what lies there, manifest first.          *)
LEMMA CheckKeeps ==
  ASSUME Shape, VolumeInv, ~crowded, ~crowded', Check
  PROVE  VolumeInv'
<1> USE DEF VolumeInv
<1>1. UNCHANGED <<at, script, sums, before, staging, final, swept, pc>>
  BY DEF Check, ReadManifest, TestBundles, Extract, Probe, lockVars, buildVars, volumeVars
<1>2. \A c \in Builders : Working(c)' <=> Working(c)
  BY <1>1 DEF Working
<1>3. StagingIsOwn' /\ PublishedIsWhole' /\ LastBuildStands' /\ ManifestMatchesBundles'
  BY <1>1 DEF StagingIsOwn, PublishedIsWhole, LastBuildStands, ManifestMatchesBundles
<1>4. PublishedSoFar' /\ WorkerIsLatest'
  BY <1>1, <1>2 DEF PublishedSoFar, WorkerIsLatest
<1>5. reader'.manifest \in {reader.manifest, final["manifest"].by, Free}
  BY DEF Check, ReadManifest, TestBundles, Extract, Probe, EndsCheck, Unread, Shape, TypeOK
<1>6. ManifestIsLast' /\ BundlesFollow'
  BY <1>1, <1>5, VolumeAssumption DEF ManifestIsLast, BundlesFollow, Makers
<1>7. NeverOlder'
  <2>1. CASE ReadManifest
    <3>1. read' = Nothing
      BY <2>1 DEF ReadManifest, Shape, ReaderShape
    <3>2. QED
      BY <3>1 DEF NeverOlder, Nothing
  <2>2. CASE read' = Nothing
    BY <2>2 DEF NeverOlder, Nothing
  <2>3. CASE TestBundles /\ reader' = [reader EXCEPT !.at = "venv"] /\ UNCHANGED read
    BY <1>1, <2>3 DEF NeverOlder, Shape, TypeOK
  <2>4. CASE Extract /\ final[reader.at].whole
    <3>1. reader.manifest \in Makers /\ reader'.manifest = reader.manifest
      BY <2>4 DEF Extract, Shape, TypeOK, ReaderShape, Bundles
    <3>2. /\ read'[reader.at] = final[reader.at].by
          /\ \A f \in Bundles \ {reader.at} : read'[f] = read[f]
      BY <2>4 DEF Extract, Shape, TypeOK
    <3>3. final[reader.at].by \notin before[reader.manifest]
      BY <2>4, <3>1 DEF Extract, BundlesFollow
    <3>4. QED
      BY <1>1, <3>1, <3>2, <3>3 DEF NeverOlder
  <2>5. QED
    BY <2>1, <2>2, <2>3, <2>4 DEF Check, TestBundles, Extract, Probe, EndsCheck
<1>8. QED
  BY <1>3, <1>4, <1>6, <1>7

-----------------------------------------------------------------------------
(* Every step keeps what holds of the volume.                              *)
LEMMA VolumePreserved ==
  ASSUME Shape, Alone, Alone', VolumeInv, [Next]_vars, crowded => crowded'
  PROVE  VolumeInv'
<1>1. CASE crowded'
  BY <1>1
  DEF VolumeInv, StagingIsOwn, PublishedSoFar, WorkerIsLatest, ManifestIsLast, BundlesFollow,
      PublishedIsWhole, ManifestMatchesBundles, NeverOlder, LastBuildStands
<1>2. CASE ~crowded'
  <2>0. ~crowded
    BY <1>2
  <2>1. ASSUME NEW b \in Builders, Locking(b) PROVE VolumeInv'
    <3>1. CASE pc[b] # "hold" /\ pc'[b] = "hold"
      <4>1. before[b] = {}
        BY <2>1, <3>1
        DEF Shape, PlacesAgree, Scripted, Locking, L!Script, L!Test, L!Stat, L!Remove,
            L!Create, L!GiveUp, L!Start
      <4>2. QED
        BY <1>2, <2>0, <2>1, <3>1, <4>1, AcquireKeeps DEF Locking
    <3>2. CASE ~(pc[b] # "hold" /\ pc'[b] = "hold")
      <4>1. \A c \in Builders : Working(c)' => Working(c)
        BY <2>1, <3>2
        DEF Locking, Working, L!Script, L!Test, L!Stat, L!Remove, L!Create, L!GiveUp, L!Start,
            L!Goto, Shape, TypeOK, L!TypeOK
      <4>2. QED
        BY <1>2, <2>1, <3>2, <4>1, QuietKeeps DEF Locking, volumeVars, otherVars, checkVars
    <3>3. QED
      BY <3>1, <3>2
  <2>2. ASSUME NEW b \in Builders, Prepare(b) PROVE VolumeInv'
    BY <1>2, <2>0, <2>2, PrepareKeeps
  <2>3. ASSUME NEW b \in Builders, Open(b) \/ Fill(b) \/ Sum(b) PROVE VolumeInv'
    BY <1>2, <2>0, <2>3, StagingStepKeeps
  <2>4. ASSUME NEW b \in Builders, Move(b) PROVE VolumeInv'
    BY <1>2, <2>0, <2>4, MoveKeeps
  <2>5. ASSUME NEW b \in Builders, ScriptFails(b) \/ PodGone(b) PROVE VolumeInv'
    <3>1. /\ \A c \in Builders : Working(c)' => Working(c)
          /\ \A c \in Builders : script'[c] \in {script[c], "none"}
      BY <2>5 DEF ScriptFails, PodGone, Working, lockVars, Shape, TypeOK
    <3>2. \A c \in Builders :
             at'[c] = at[c] \/ (at'[c] = "failed" /\ at[c] # "end" /\ script'[c] = "none")
      BY <2>5 DEF ScriptFails, PodGone, Shape, TypeOK, PlacesAgree, Files, Bundles
    <3>3. UNCHANGED <<sums, before, staging, final, swept, reader, read>>
      BY <2>5 DEF ScriptFails, PodGone, volumeVars, otherVars, checkVars
    <3>4. QED
      BY <1>2, <2>0, <3>1, <3>2, <3>3, QuietKeeps
  <2>6. ASSUME NEW b \in Builders, Release(b) \/ Die(b) PROVE VolumeInv'
    <3>1. /\ \A c \in Builders : Working(c)' => Working(c)
          /\ \A c \in Builders : script'[c] \in {script[c], "none"}
      BY <2>6 DEF Release, Die, L!Release, L!Die, L!Goto, Working, Shape, TypeOK, L!TypeOK
    <3>2. UNCHANGED <<at, sums, before, staging, final, swept, reader, read>>
      BY <2>6 DEF Release, Die, volumeVars, otherVars, checkVars
    <3>3. QED
      BY <1>2, <2>0, <3>1, <3>2, QuietKeeps
  <2>7. CASE Tick \/ RemoverDies \/ UNCHANGED vars \/ (Remove /\ remover = "idle")
    <3>1. UNCHANGED <<at, script, pc, sums, before, staging, final, swept, reader, read>>
      BY <2>7
      DEF Tick, L!Tick, RemoverDies, Remove, vars, lockVars, buildVars, volumeVars, otherVars,
          checkVars
    <3>2. \A c \in Builders : Working(c)' => Working(c)
      BY <3>1 DEF Working
    <3>3. QED
      BY <1>2, <2>0, <3>1, <3>2, QuietKeeps
  <2>8. CASE Remove /\ remover # "idle"
    BY <1>2, <2>0, <2>8, RemoveKeeps
  <2>9. CASE Check
    BY <1>2, <2>0, <2>9, CheckKeeps
  <2>10. QED
    BY <2>1, <2>2, <2>3, <2>4, <2>5, <2>6, <2>7, <2>8, <2>9 DEF Next, Build, RemoteStep
<1>3. QED
  BY <1>1, <1>2

(* Every step keeps the invariant.                                         *)
LEMMA IInvPreserved == IInv /\ [Next]_vars => IInv'
<1> SUFFICES ASSUME IInv, [Next]_vars PROVE IInv'
  OBVIOUS
<1>1. Lock!IInv'
  BY LockStep, Lock!IInvPreserved, VolumeAssumption DEF IInv
<1>2. L!TypeOK'
  BY <1>1
  DEF L!TypeOK, L!Places, Lock!IInv, Lock!TypeOK, Lock!Places
<1>3. Shape'
  BY <1>2, ShapePreserved DEF IInv
<1>4. WorkerOwnsLock'
  BY OwnPreserved DEF IInv, Shape
<1>5. Alone' /\ LockKeepsApart'
  BY <1>3, <1>4, ApartPreserved DEF IInv, Shape
<1>6. crowded => crowded'
  BY DEF Next, vars
<1>7. VolumeInv'
  BY <1>5, <1>6, VolumePreserved DEF IInv
<1>8. QED
  BY <1>1, <1>3, <1>4, <1>5, <1>7 DEF IInv

(* The invariant holds throughout.                                         *)
LEMMA Invariance == Spec => []IInv
BY InitIInv, IInvPreserved, PTL DEF Spec
-----------------------------------------------------------------------------
(* A build takes and leaves the lock as acquire_build_lock and its release *)
(* do: without its liveness, the volume implements BuildLock.              *)
THEOREM ImplementsLock == Spec => Lock!Init /\ [][Lock!Next]_(Lock!vars)
<1>1. Init => Lock!Init
  BY SameLock DEF Init
<1>2. QED
  BY <1>1, LockStep, PTL DEF Spec

(* Types, for any builders, TTL and number of failures.                    *)
THEOREM TypeCorrect == Spec => []TypeOK
<1>1. IInv => TypeOK
  BY DEF IInv, Shape
<1>2. QED
  BY <1>1, Invariance, PTL

(* Two are at work at once only after a stale lock or an early release.    *)
THEOREM BuildersAreApart == Spec => []LockKeepsApart
<1>1. IInv => LockKeepsApart
  BY DEF IInv
<1>2. QED
  BY <1>1, Invariance, PTL

(* While they are apart, no incomplete file is ever published.             *)
THEOREM WholeFilesOnly == Spec => []PublishedIsWhole
<1>1. IInv => PublishedIsWhole
  BY DEF IInv, VolumeInv
<1>2. QED
  BY <1>1, Invariance, PTL

(* While they are apart, a manifest describes the bundles beside it, up to *)
(* those of a build that did not get to its own.                           *)
THEOREM ManifestDescribes == Spec => []ManifestMatchesBundles
<1>1. IInv => ManifestMatchesBundles
  BY DEF IInv, VolumeInv
<1>2. QED
  BY <1>1, Invariance, PTL

(* While they are apart, a check extracts no bundle older than the         *)
(* manifest it read.                                                       *)
THEOREM ChecksGoForward == Spec => []NeverOlder
<1>1. IInv => NeverOlder
  BY DEF IInv, VolumeInv
<1>2. QED
  BY <1>1, Invariance, PTL

(* While they are apart and nothing is invalidated, the last successful    *)
(* build is what the volume holds.                                         *)
THEOREM LastBuildWins == Spec => []LastBuildStands
<1>1. IInv => LastBuildStands
  BY DEF IInv, VolumeInv
<1>2. QED
  BY <1>1, Invariance, PTL

=============================================================================
