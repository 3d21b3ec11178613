--------------------------- MODULE PrebuiltVolume ---------------------------
(***************************************************************************)
(* The prebuilt environment on a shared network volume: two bundles and    *)
(* the manifest that describes them.  "prebuilt build" replaces the three  *)
(* files under the build lock, each through a .staging file and a rename;  *)
(* "prebuilt invalidate" removes them without the lock; "prebuilt check"   *)
(* reads the manifest and then extracts the bundles, without the lock.     *)
(* Builders, their clients and their remote scripts may die between any    *)
(* two commands, and a script outlives a client that gives up on it.       *)
(***************************************************************************)
EXTENDS Naturals

CONSTANTS
  Builders,     \* attempts to build, each on a pod of its own
  Free,         \* no lock file; also the maker of a file that is not there
  TTL,          \* ttl_sec of the build lock
  MaxFailures,  \* bound: builders that die or whose client gives up locking
  Old           \* the build the volume may hold from before

ASSUME VolumeAssumption ==
  /\ Free \notin Builders /\ TTL \in Nat \ {0} /\ MaxFailures \in Nat
  /\ Old \notin Builders \union {Free}

VARIABLES
  lock, age, pc, held, abandoned, failures, wasStale,  \* see BuildLock
  at,       \* the client's command: the file it is replacing
  script,   \* how far the remote script of that command is, "none" if not running
  staging,  \* what is at each file's .staging path
  final,    \* what is at its final path
  sums,     \* the file whose sha256 each builder captured, per bundle
  before,   \* whose builds had begun when each builder got the lock (history)
  loose,    \* a lock was released while its holder's script ran (history)
  crowded,  \* two builders have been at work at once (history)
  swept,    \* an invalidation removed something (history)
  remover,  \* the next file the invalidation removes, "idle" between two
  reader,   \* a check: what it does next and whose manifest it read
  read      \* whose bundles it has extracted

L == INSTANCE BuildLock

lockVars == <<lock, age, pc, held, abandoned, failures, wasStale>>
buildVars == <<at, script, sums, before, loose>>
volumeVars == <<staging, final>>
checkVars == <<reader, read>>
otherVars == <<swept, remover, checkVars>>
vars == <<lockVars, buildVars, volumeVars, otherVars, crowded>>

Bundles == {"venv", "vibe"}
Files == Bundles \union {"manifest"}
Makers == Builders \union {Old}

(* What a path may hold: nothing, or a file of some build, complete or not.*)
NoFile == [by |-> Free, whole |-> FALSE]
Whole(b) == [by |-> b, whole |-> TRUE]
Partial(b) == [by |-> b, whole |-> FALSE]
Contents == {NoFile} \union [by : Makers, whole : BOOLEAN]

(* The commands of a build that follow the lock.                           *)
Commands == {"install", "venv", "vibe", "hashes", "manifest", "end", "failed"}

(* Fault: the manifest is written before the bundles.                      *)
FollowingManifestFirst(c) ==
  CASE c = "install" -> "manifest" [] c = "manifest" -> "venv" [] c = "venv" -> "vibe"
    [] c = "vibe" -> "hashes" [] c = "hashes" -> "end"

Following(c) ==
  CASE c = "install" -> "venv" [] c = "venv" -> "vibe" [] c = "vibe" -> "hashes"
    [] c = "hashes" -> "manifest" [] c = "manifest" -> "end"

Unread == [at |-> "idle", manifest |-> Free]
Nothing == [f \in Bundles |-> Free]

TypeOK ==
  /\ L!TypeOK
  /\ at \in [Builders -> Commands]
  /\ script \in [Builders -> {"none", "fill", "sum", "move"}]
  /\ staging \in [Files -> Contents] /\ final \in [Files -> Contents]
  /\ sums \in [Makers -> [Bundles -> Contents]]
  /\ before \in [Makers -> SUBSET Makers]
  /\ loose \in BOOLEAN /\ crowded \in BOOLEAN /\ swept \in BOOLEAN
  /\ remover \in Files \union {"idle"}
  /\ reader \in [at : {"idle", "test", "venv", "vibe", "probe"}, manifest : Makers \union {Free}]
  /\ read \in [Bundles -> Makers \union {Free}]

Init ==
  /\ L!Init
  /\ at = [b \in Builders |-> "install"] /\ script = [b \in Builders |-> "none"]
  /\ staging = [f \in Files |-> NoFile]
  /\ final \in {[f \in Files |-> NoFile], [f \in Files |-> Whole(Old)]}
  /\ sums = [b \in Makers |-> [f \in Bundles |-> IF b = Old THEN Whole(Old) ELSE NoFile]]
  /\ before = [b \in Makers |-> {}]
  /\ loose = FALSE /\ crowded = FALSE /\ swept = FALSE
  /\ remover = "idle" /\ reader = Unread /\ read = Nothing

-----------------------------------------------------------------------------
(* The lock: taken as in BuildLock.  Each attempt is made once.            *)
Locking(b) ==
  /\ L!Script(b) \/ L!GiveUp(b) \/ (L!Start(b) /\ at[b] = "install")
  /\ before' = IF pc[b] # "hold" /\ pc'[b] = "hold"
               THEN [before EXCEPT ![b] = {c \in Makers : c = Old \/ before[c] # {}}]
               ELSE before
  /\ UNCHANGED <<at, script, sums, loose, volumeVars, otherVars>>

Tick == L!Tick /\ UNCHANGED <<buildVars, volumeVars, otherVars>>

(* The client sends its next command while it holds the lock.              *)
Sends(b) == pc[b] = "hold" /\ script[b] = "none"

(* Cloning, installing and verifying on the pod's own disk; reading hashes *)
(* and sizes.  Nothing of it touches the three files.                      *)
Prepare(b) ==
  /\ Sends(b) /\ at[b] \in {"install", "hashes"}
  /\ at' = [at EXCEPT ![b] = Following(at[b])]
  /\ UNCHANGED <<lockVars, script, sums, before, loose, volumeVars, otherVars>>

(* Fault: tar and cat write to the final path.                             *)
OpenInPlace(b) ==
  /\ Sends(b) /\ at[b] \in Files
  /\ final' = [final EXCEPT ![at[b]] = Partial(b)]
  /\ staging' = [staging EXCEPT ![at[b]] = Partial(b)]
  /\ script' = [script EXCEPT ![b] = "fill"]
  /\ UNCHANGED <<lockVars, at, sums, before, loose, otherVars>>

(* A bundle's script starts with rm -f and a new staging file, the         *)
(* manifest's truncates it: what an earlier script left there is gone.     *)
Open(b) ==
  /\ Sends(b) /\ at[b] \in Files
  /\ staging' = [staging EXCEPT ![at[b]] = Partial(b)]
  /\ script' = [script EXCEPT ![b] = "fill"]
  /\ UNCHANGED <<lockVars, at, sums, before, loose, final, otherVars>>

(* tar or cat has written everything, into whichever path its file has by  *)
(* now; a file another script removed is filled unseen.                    *)
Fill(b) ==
  /\ script[b] = "fill"
  /\ LET Filled(paths) == [paths EXCEPT ![at[b]] = IF @ = Partial(b) THEN Whole(b) ELSE @] IN
     staging' = Filled(staging) /\ final' = Filled(final)
  /\ script' = [script EXCEPT ![b] = IF at[b] = "manifest" THEN "move" ELSE "sum"]
  /\ UNCHANGED <<lockVars, at, sums, before, loose, otherVars>>

(* Fault: the digest is taken of the bundle at the final path.             *)
SumOfFinal(b) ==
  /\ script[b] = "sum" /\ staging[at[b]] # NoFile
  /\ sums' = [sums EXCEPT ![b][at[b]] = final[at[b]]]
  /\ script' = [script EXCEPT ![b] = "move"]
  /\ UNCHANGED <<lockVars, at, before, loose, volumeVars, otherVars>>

(* sha256sum of whatever is at the staging path.                           *)
Sum(b) ==
  /\ script[b] = "sum" /\ staging[at[b]] # NoFile
  /\ sums' = [sums EXCEPT ![b][at[b]] = staging[at[b]]]
  /\ script' = [script EXCEPT ![b] = "move"]
  /\ UNCHANGED <<lockVars, at, before, loose, volumeVars, otherVars>>

(* Fault: mv leaves an existing file in place.                             *)
MoveUnlessThere(b) ==
  /\ script[b] = "move" /\ staging[at[b]] # NoFile
  /\ final' = [final EXCEPT ![at[b]] = IF @ = NoFile THEN staging[at[b]] ELSE @]
  /\ staging' = [staging EXCEPT ![at[b]] = NoFile]
  /\ script' = [script EXCEPT ![b] = "none"]
  /\ at' = [at EXCEPT ![b] = Following(at[b])]
  /\ UNCHANGED <<lockVars, sums, before, loose, otherVars>>

(* mv of whatever is at the staging path; the script ends, and the client  *)
(* goes on to its next command.                                            *)
Move(b) ==
  /\ script[b] = "move" /\ staging[at[b]] # NoFile
  /\ final' = [final EXCEPT ![at[b]] = staging[at[b]]]
  /\ staging' = [staging EXCEPT ![at[b]] = NoFile]
  /\ script' = [script EXCEPT ![b] = "none"]
  /\ at' = [at EXCEPT ![b] = Following(at[b])]
  /\ UNCHANGED <<lockVars, sums, before, loose, otherVars>>

(* A command of the script fails: no space, or its staging file is gone.   *)
ScriptFails(b) ==
  /\ script[b] # "none"
  /\ script' = [script EXCEPT ![b] = "none"]
  /\ at' = [at EXCEPT ![b] = "failed"]
  /\ UNCHANGED <<lockVars, sums, before, loose, volumeVars, otherVars>>

(* The end of the build, an exception in it, or the client's timeout on a  *)
(* script: finally releases the lock, and a running script goes on.        *)
Release(b) ==
  /\ L!Release(b)
  /\ loose' = (loose \/ script[b] # "none")
  /\ UNCHANGED <<at, script, sums, before, volumeVars, otherVars>>

(* The client dies and its script goes on, or the pod dies with both.      *)
Die(b) ==
  /\ L!Die(b)
  /\ script' \in {script, [script EXCEPT ![b] = "none"]}
  /\ UNCHANGED <<at, sums, before, loose, volumeVars, otherVars>>

(* The pod of a client that has left is terminated, its script with it.    *)
PodGone(b) ==
  /\ pc[b] = "over" /\ script[b] # "none"
  /\ script' = [script EXCEPT ![b] = "none"]
  /\ UNCHANGED <<lockVars, at, sums, before, loose, volumeVars, otherVars>>

-----------------------------------------------------------------------------
(* invalidate: rm -f of the bundles and the manifest, one after the other, *)
(* from a pod that may die in between.  No lock is asked for.              *)
Remove ==
  /\ \/ remover = "idle" /\ remover' = "venv" /\ UNCHANGED <<final, swept>>
     \/ /\ remover # "idle"
        /\ final' = [final EXCEPT ![remover] = NoFile]
        /\ swept' = TRUE
        /\ remover' = IF remover = "venv" THEN "vibe"
                      ELSE IF remover = "vibe" THEN "manifest" ELSE "idle"
  /\ UNCHANGED <<lockVars, buildVars, staging, checkVars>>

RemoverDies ==
  /\ remover # "idle" /\ remover' = "idle"
  /\ UNCHANGED <<lockVars, buildVars, volumeVars, swept, checkVars>>

(* read_manifest: absent or not parseable is None, and the check is over.  *)
ReadManifest ==
  /\ reader.at = "idle" /\ final["manifest"].whole
  /\ reader' = [at |-> "test", manifest |-> final["manifest"].by]
  /\ UNCHANGED <<lockVars, buildVars, volumeVars, swept, remover, read>>

EndsCheck == reader' = Unread /\ read' = Nothing

TestBundles ==
  /\ reader.at = "test"
  /\ IF \A f \in Bundles : final[f] # NoFile
     THEN reader' = [reader EXCEPT !.at = "venv"] /\ UNCHANGED read
     ELSE EndsCheck
  /\ UNCHANGED <<lockVars, buildVars, volumeVars, swept, remover>>

(* tar -xf of a missing or incomplete bundle fails.                        *)
Extract ==
  /\ reader.at \in Bundles
  /\ IF final[reader.at].whole
     THEN /\ reader' = [reader EXCEPT !.at = IF @ = "venv" THEN "vibe" ELSE "probe"]
          /\ read' = [read EXCEPT ![reader.at] = final[reader.at].by]
     ELSE EndsCheck
  /\ UNCHANGED <<lockVars, buildVars, volumeVars, swept, remover>>

(* The probes compare versions with the manifest's, not digests: bundles   *)
(* of different builds may pass.                                           *)
Probe ==
  /\ reader.at = "probe" /\ EndsCheck
  /\ UNCHANGED <<lockVars, buildVars, volumeVars, swept, remover>>

RemoteStep(b) == Fill(b) \/ Sum(b) \/ Move(b) \/ ScriptFails(b) \/ PodGone(b)
Build(b) == Locking(b) \/ Prepare(b) \/ Open(b) \/ RemoteStep(b) \/ Release(b) \/ Die(b)
Check == ReadManifest \/ TestBundles \/ Extract \/ Probe

Working(b) == pc[b] = "hold" \/ script[b] # "none"

Next ==
  /\ (\E b \in Builders : Build(b)) \/ Tick \/ Remove \/ RemoverDies \/ Check
  /\ crowded' = (crowded \/ \E a, b \in Builders : a # b /\ Working(a)' /\ Working(b)')

Spec == Init /\ [][Next]_vars

-----------------------------------------------------------------------------
(* Two builders, or their scripts, are at work on the volume at once only  *)
(* after a lock file reached its TTL or a client released the lock under a *)
(* script of its own that had not ended (prebuilt.py:959, cli.py:1822).    *)
LockKeepsApart == crowded => wasStale \/ loose

(* As long as that has not happened, what is at a final path is a complete *)
(* file, whatever died and whatever was left in the staging files before:  *)
(* the builders publish by rename only (cli.py:859, prebuilt.py:305).      *)
PublishedIsWhole ==
  ~crowded => \A f \in Files : final[f] # NoFile => final[f].whole

(* A manifest lies beside the bundles whose digests it carries; a bundle   *)
(* it does not describe is one of a build that never got to its manifest,  *)
(* and a missing one was invalidated (cli.py:1732-1805).                   *)
ManifestMatchesBundles ==
  ~crowded /\ final["manifest"].whole =>
    \A f \in Bundles :
      \/ final[f] = sums[final["manifest"].by][f]
      \/ final[f].by \in {b \in Builders : at[b] # "end"}
      \/ final[f] = NoFile /\ swept

(* Bundles are published before the manifest and read after it: a check    *)
(* never works on a bundle older than the manifest it read, even one that  *)
(* overlaps builds and invalidations (cli.py:1206-1238).                   *)
NeverOlder ==
  ~crowded =>
    \A f \in Bundles : read[f] # Free => read[f] \notin before[reader.manifest]

(* The latest build to have held the lock, once it has reported success,   *)
(* is the one the volume holds, whatever builds died before it.            *)
LastBuildStands ==
  ~crowded /\ ~swept =>
    \A b \in Builders :
      at[b] = "end" /\ (\A c \in Makers : b \notin before[c]) =>
        \A f \in Files : final[f] = Whole(b)

=============================================================================
