------------------------------ MODULE BuildLock ------------------------------
(***************************************************************************)
(* acquire_build_lock of prebuilt.py: the lock file on the network volume  *)
(* that builders of one prebuilt environment share.  Every builder runs    *)
(* the acquire script on its own pod; the commands of two scripts          *)
(* interleave.  The client gives up on a script after 60 s while the       *)
(* script itself goes on, and a builder may die at any point.              *)
(***************************************************************************)
EXTENDS Naturals

CONSTANTS
  Builders,    \* attempts to build; a new attempt may reuse a finished one
  Free,        \* there is no lock file
  TTL,         \* ttl_sec
  MaxFailures  \* bound: builders that die or whose client gives up

ASSUME BuildLockAssumption ==
  Free \notin Builders /\ TTL \in Nat \ {0} /\ MaxFailures \in Nat

VARIABLES
  lock,       \* whose lock file exists
  age,        \* its age by mtime, up to TTL
  pc,         \* where each builder is
  held,       \* time since each holder's own acquisition, up to TTL
  abandoned,  \* builders whose client no longer waits for the script
  failures,   \* deaths and give-ups so far
  wasStale    \* some lock file has reached TTL (history)

fileVars == <<lock, age, wasStale>>
vars == <<lock, age, wasStale, pc, held, abandoned, failures>>

Places == {"idle", "test", "stat", "remove", "create", "hold", "over"}
Scripted == {"test", "stat", "remove", "create"}

TypeOK ==
  /\ lock \in Builders \union {Free} /\ age \in 0..TTL
  /\ pc \in [Builders -> Places] /\ held \in [Builders -> 0..TTL]
  /\ abandoned \subseteq Builders
  /\ failures \in 0..MaxFailures /\ wasStale \in BOOLEAN

Init ==
  /\ lock = Free /\ age = 0 /\ wasStale = FALSE
  /\ pc = [b \in Builders |-> "idle"] /\ held = [b \in Builders |-> 0]
  /\ abandoned = {} /\ failures = 0

Older(n) == IF n < TTL THEN n + 1 ELSE n

Goto(b, place) == pc' = [pc EXCEPT ![b] = place]

-----------------------------------------------------------------------------
Start(b) ==
  /\ pc[b] = "idle" /\ Goto(b, "test")
  /\ UNCHANGED <<fileVars, held, abandoned, failures>>

(* if [ -e "$lock" ]                                                       *)
Test(b) ==
  /\ pc[b] = "test"
  /\ Goto(b, IF lock = Free THEN "create" ELSE "stat")
  /\ UNCHANGED <<fileVars, held, abandoned, failures>>

(* Fault: any lock, however old, ends the script.                          *)
StatRefuses(b) ==
  /\ pc[b] = "stat"
  /\ Goto(b, "over") /\ abandoned' = abandoned \ {b}
  /\ UNCHANGED <<fileVars, held, failures>>

(* stat and the age test: a lock that vanished or is young ends the script *)
(* with an error, which acquire_build_lock raises.                         *)
Stat(b) ==
  /\ pc[b] = "stat"
  /\ Goto(b, IF lock = Free \/ age < TTL THEN "over" ELSE "remove")
  /\ abandoned' = IF lock = Free \/ age < TTL THEN abandoned \ {b} ELSE abandoned
  /\ UNCHANGED <<fileVars, held, failures>>

(* rm -f removes whatever lock is there by now.                            *)
Remove(b) ==
  /\ pc[b] = "remove"
  /\ lock' = Free /\ age' = 0
  /\ Goto(b, "create")
  /\ UNCHANGED <<wasStale, held, abandoned, failures>>

(* Fault: the redirection overwrites an existing file.                     *)
CreateOverwriting(b) ==
  /\ pc[b] = "create"
  /\ lock' = b /\ age' = 0
  /\ held' = [held EXCEPT ![b] = 0]
  /\ Goto(b, IF b \in abandoned THEN "over" ELSE "hold")
  /\ abandoned' = abandoned \ {b}
  /\ UNCHANGED <<wasStale, failures>>

(* set -C; printf > "$lock": exclusive creation.                           *)
Create(b) ==
  /\ pc[b] = "create"
  /\ IF lock = Free
     THEN /\ lock' = b /\ age' = 0
          /\ held' = [held EXCEPT ![b] = 0]
          /\ Goto(b, IF b \in abandoned THEN "over" ELSE "hold")
     ELSE Goto(b, "over") /\ UNCHANGED <<lock, age, held>>
  /\ abandoned' = abandoned \ {b}
  /\ UNCHANGED <<wasStale, failures>>

(* _release: an unconditional rm -f, at the end of the build or after an   *)
(* error in it.                                                            *)
Release(b) ==
  /\ pc[b] = "hold"
  /\ lock' = Free /\ age' = 0
  /\ Goto(b, "over")
  /\ UNCHANGED <<wasStale, held, abandoned, failures>>

-----------------------------------------------------------------------------
(* The 60 s are over: the client raises, the script keeps running.         *)
GiveUp(b) ==
  /\ pc[b] \in Scripted /\ b \notin abandoned /\ failures < MaxFailures
  /\ abandoned' = abandoned \union {b} /\ failures' = failures + 1
  /\ UNCHANGED <<fileVars, pc, held>>

(* The pod or the client dies, or the release itself fails with a warning. *)
Die(b) ==
  /\ pc[b] \in Scripted \union {"hold"} /\ failures < MaxFailures
  /\ Goto(b, "over") /\ failures' = failures + 1
  /\ abandoned' = abandoned \ {b}
  /\ UNCHANGED <<fileVars, held>>

(* The operator builds again, on a new pod.                                *)
Retry(b) ==
  /\ pc[b] = "over" /\ Goto(b, "idle")
  /\ UNCHANGED <<fileVars, held, abandoned, failures>>

Tick ==
  /\ age' = IF lock = Free THEN age ELSE Older(age)
  /\ held' = [b \in Builders |-> IF pc[b] = "hold" THEN Older(held[b]) ELSE held[b]]
  /\ wasStale' = (wasStale \/ (lock # Free /\ age' = TTL))
  /\ UNCHANGED <<lock, pc, abandoned, failures>>

Script(b) == Test(b) \/ Stat(b) \/ Remove(b) \/ Create(b)
Again(b) == Start(b) \/ Retry(b)

Next ==
  \/ \E b \in Builders : Again(b) \/ Script(b) \/ Release(b) \/ GiveUp(b) \/ Die(b)
  \/ Tick

(* Scripts run to their end, builds end, mtimes age, and whoever failed to *)
(* build runs the command again.                                           *)
Fairness ==
  /\ \A b \in Builders : WF_vars(Script(b)) /\ WF_vars(Release(b)) /\ WF_vars(Again(b))
  /\ WF_vars(Tick)

Spec == Init /\ [][Next]_vars /\ Fairness

-----------------------------------------------------------------------------
Holders == {b \in Builders : pc[b] = "hold"}
LiveHolders == {b \in Holders : held[b] < TTL}

(* As long as no lock file has ever outlived its TTL, at most one builder  *)
(* holds the lock and the file is its own, whatever scripts interleave,    *)
(* are abandoned or die: the O_EXCL creation carries the exclusion.        *)
ExclusiveUntilStale ==
  ~wasStale => \A b \in Holders : lock = b

(* "Raises RuntimeError if the lock is held by another live holder"        *)
(* (prebuilt.py:950): two builders, neither past its own TTL, never hold   *)
(* the lock at once.                                                       *)
OneLiveHolder == \A a, b \in LiveHolders : a = b

(* A lock file that nobody holds any more does not block building for ever.*)
DeadLockGoes ==
  \A b \in Builders : (lock = b /\ pc[b] # "hold") ~> lock # b

=============================================================================
