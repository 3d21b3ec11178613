-------------------------------- MODULE Sweep --------------------------------
(***************************************************************************)
(* Sweeping an account for pods nobody wants any more: prune_pods_by_prefix*)
(* (guard.py), "prebuilt cleanup" and "find-orphans --terminate" (cli.py,  *)
(* discovery.py).  Sweeps work from a listing that ages while owners name, *)
(* create, register, stop, resume and remove pods of their own, as another *)
(* sweep removes pods too.  One termination behaves as in Terminate.       *)
(***************************************************************************)
EXTENDS Integers

CONSTANTS
  Pods,           \* pods that may come to exist
  Sweepers,       \* sweeps that may run
  Kinds,          \* what they are: "prune", "cleanup", "orphans"
  Prefixes,       \* name prefixes swept, each by a listing of its own
  PrefixOf,       \* the prefix of each pod's name, possibly another one
  Stamped,        \* pods with a time in their name
  Owned,          \* pods whose owner keeps a --known-ids-file
  StaleAge,       \* stale_age_sec of prune
  OlderThans,     \* --older-than of the others, or NotGiven
  RegisterDelay,  \* from a pod's creation to its id in --known-ids-file
  ListDelay,      \* from reading that file to the last listing
  MaxTime         \* bound: the time at which clocks stop

NotGiven == -1     \* None: the option is absent; 0 is a filter like any other

ASSUME SweepAssumption ==
  /\ Kinds \subseteq {"prune", "cleanup", "orphans"}
  /\ DOMAIN PrefixOf = Pods /\ Stamped \subseteq Pods /\ Owned \subseteq Pods
  /\ OlderThans \subseteq Nat \union {NotGiven} /\ OlderThans # {}
  /\ {StaleAge, RegisterDelay, ListDelay, MaxTime} \subseteq Nat

VARIABLES
  now,     \* wall clock
  status,  \* "none", "named" (the name is chosen), "up", "exited" or "gone"
  stamp,   \* the time in a pod's name
  born,    \* createdAt
  booted,  \* when its runtime last started
  known,   \* ids in the owner's --known-ids-file
  sweeps,  \* the state of each sweep
  kills    \* terminations sent to a live pod (history)

podVars == <<status, stamp, born, booted>>
sweepVars == <<now, podVars, known, sweeps, kills>>

Times == 0..MaxTime
Sweep ==
  [pc : {"idle", "list", "confirm", "terminate", "done", "aborted"}, kind : Kinds,
   olderThan : OlderThans \union {NotGiven},
   clock : Times, known : SUBSET Pods, unlisted : SUBSET Prefixes,
   untimed : SUBSET Pods, stale : SUBSET Pods,
   terminated : SUBSET Pods, failed : SUBSET Pods]

SweepTypeOK ==
  /\ now \in Times
  /\ status \in [Pods -> {"none", "named", "up", "exited", "gone"}]
  /\ stamp \in [Pods -> Times] /\ born \in [Pods -> Times] /\ booted \in [Pods -> Times]
  /\ known \subseteq Pods
  /\ sweeps \in [Sweepers -> Sweep]
  /\ kills \subseteq [kind : Kinds, age : Times, timed : BOOLEAN, owned : BOOLEAN,
               olderThan : OlderThans \union {NotGiven}]

SweepInit ==
  /\ now = 0
  /\ status = [p \in Pods |-> "none"]
  /\ stamp = [p \in Pods |-> 0] /\ born = [p \in Pods |-> 0] /\ booted = [p \in Pods |-> 0]
  /\ known = {} /\ kills = {}
  /\ \E kind \in [Sweepers -> Kinds], olderThan \in [Sweepers -> OlderThans] :
       sweeps = [s \in Sweepers |->
         [pc |-> "idle", kind |-> kind[s], clock |-> 0, known |-> {},
          olderThan |-> IF kind[s] = "prune" THEN NotGiven ELSE olderThan[s],
          unlisted |-> Prefixes, untimed |-> {}, stale |-> {},
          terminated |-> {}, failed |-> {}]]

Exists(p) == status[p] \in {"up", "exited"}

-----------------------------------------------------------------------------
(* The owner: a command fixes the pod's name, with the time in it, before  *)
(* it waits for capacity.                                                  *)
ChooseName(p) ==
  /\ status[p] = "none"
  /\ status' = [status EXCEPT ![p] = "named"]
  /\ stamp' = [stamp EXCEPT ![p] = IF p \in Stamped THEN now ELSE 0]
  /\ UNCHANGED <<now, born, booted, known, sweeps, kills>>

CreatePod(p) ==
  /\ status[p] = "named"
  /\ status' = [status EXCEPT ![p] = "up"]
  /\ born' = [born EXCEPT ![p] = now] /\ booted' = [booted EXCEPT ![p] = now]
  /\ UNCHANGED <<now, stamp, known, sweeps, kills>>

Register(p) ==
  /\ Exists(p) /\ p \in Owned \ known
  /\ known' = known \union {p}
  /\ UNCHANGED <<now, podVars, sweeps, kills>>

Stop(p) ==
  /\ status[p] = "up" /\ status' = [status EXCEPT ![p] = "exited"]
  /\ UNCHANGED <<now, stamp, born, booted, known, sweeps, kills>>

Resume(p) ==
  /\ status[p] = "exited" /\ status' = [status EXCEPT ![p] = "up"]
  /\ booted' = [booted EXCEPT ![p] = now]
  /\ UNCHANGED <<now, stamp, born, known, sweeps, kills>>

OwnerTerminates(p) ==
  /\ Exists(p) /\ status' = [status EXCEPT ![p] = "gone"]
  /\ UNCHANGED <<now, stamp, born, booted, known, sweeps, kills>>

-----------------------------------------------------------------------------
(* Fault: the time in the name goes before the uptime.                     *)
PodAgeByName(s, p, timed, dated) ==
  LET Since(t) == IF t <= sweeps[s].clock THEN sweeps[s].clock - t ELSE 0 IN
  IF p \in Stamped THEN Since(stamp[p]) ELSE IF dated THEN Since(born[p]) ELSE 0

(* _pod_age_seconds: the uptime if the listing has one, else the time in   *)
(* the name, else createdAt, against a clock read before the first listing.*)
PodAge(s, p, timed, dated) ==
  LET Since(t) == IF t <= sweeps[s].clock THEN sweeps[s].clock - t ELSE 0 IN
  IF p \in timed THEN now - booted[p]
  ELSE IF p \in Stamped THEN Since(stamp[p])
  ELSE IF dated THEN Since(born[p]) ELSE 0

(* Fault: a pod without an uptime passes the --older-than filter.          *)
SelectsUntimed(s, p, timed, dated) ==
  IF sweeps[s].kind = "prune"
  THEN PodAge(s, p, timed, dated) >= StaleAge
  ELSE /\ sweeps[s].kind = "orphans" => status[p] = "up" /\ p \notin sweeps[s].known
       /\ sweeps[s].olderThan # NotGiven /\ p \in timed =>
            now - booted[p] >= sweeps[s].olderThan

(* Which listed pods a sweep takes.                                        *)
Selects(s, p, timed, dated) ==
  IF sweeps[s].kind = "prune"
  THEN PodAge(s, p, timed, dated) >= StaleAge
  ELSE /\ sweeps[s].kind = "orphans" => status[p] = "up" /\ p \notin sweeps[s].known
       /\ sweeps[s].olderThan # NotGiven =>
            p \in timed /\ now - booted[p] >= sweeps[s].olderThan

Begin(s) ==
  /\ sweeps[s].pc = "idle"
  /\ sweeps' = [sweeps EXCEPT ![s] = [@ EXCEPT !.pc = "list", !.clock = now, !.known = known]]
  /\ UNCHANGED <<now, podVars, known, kills>>

(* Fault: each listing replaces the selection of the one before.           *)
ListReplacing(s) ==
  /\ sweeps[s].pc = "list"
  /\ \E x \in sweeps[s].unlisted :
       LET here == {p \in Pods : Exists(p) /\ PrefixOf[p] = x} IN
       \E timed \in SUBSET {p \in here : status[p] = "up"}, dated \in BOOLEAN :
         sweeps' = [sweeps EXCEPT ![s] =
           [@ EXCEPT !.unlisted = @ \ {x},
                     !.stale = {p \in here : Selects(s, p, timed, dated)},
                     !.pc = IF sweeps[s].unlisted # {x} THEN "list" ELSE "terminate"]]
  /\ UNCHANGED <<now, podVars, known, kills>>

(* The record of a sweep after one listing, and where it goes on.          *)
Listed(w, x, taken, timed) ==
  [w EXCEPT !.unlisted = @ \ {x}, !.stale = @ \union taken,
            !.untimed = @ \union (taken \ timed),
            !.pc = IF w.unlisted # {x} THEN "list"
                   ELSE IF w.kind = "orphans" THEN "confirm" ELSE "terminate"]

(* The listing of one prefix.  An uptime is missing while a pod provisions,*)
(* when it is stopped, and from the REST fallback.                         *)
List(s) ==
  /\ sweeps[s].pc = "list"
  /\ \E x \in sweeps[s].unlisted :
       LET here == {p \in Pods : Exists(p) /\ PrefixOf[p] = x} IN
       \E timed \in SUBSET {p \in here : status[p] = "up"}, dated \in BOOLEAN :
         sweeps' = [sweeps EXCEPT ![s] =
           Listed(@, x, {p \in here : Selects(s, p, timed, dated)}, timed)]
  /\ UNCHANGED <<now, podVars, known, kills>>

(* A listing raises: the sweep ends before it terminated anything.         *)
ListRaises(s) ==
  /\ sweeps[s].pc = "list"
  /\ sweeps' = [sweeps EXCEPT ![s].pc = "aborted"]
  /\ UNCHANGED <<now, podVars, known, kills>>

(* "terminate N orphan(s)?": the operator takes any time to answer.        *)
Confirm(s) ==
  /\ sweeps[s].pc = "confirm"
  /\ \E answer \in {"terminate", "aborted"} : sweeps' = [sweeps EXCEPT ![s].pc = answer]
  /\ UNCHANGED <<now, podVars, known, kills>>

(* One pod of the selection is terminated: gone, or an error behind which  *)
(* it may be gone too.  The sweep goes on with the next one.               *)
Terminate(s) ==
  /\ sweeps[s].pc = "terminate"
  /\ \E p \in sweeps[s].stale \ (sweeps[s].terminated \union sweeps[s].failed) :
       /\ \/ /\ sweeps' = [sweeps EXCEPT ![s].terminated = @ \union {p}]
             /\ status' = [status EXCEPT ![p] = "gone"]
          \/ /\ sweeps' = [sweeps EXCEPT ![s].failed = @ \union {p}]
             /\ status' \in {status, [status EXCEPT ![p] = "gone"]}
       /\ kills' = IF Exists(p) /\ status'[p] = "gone"
                   THEN kills \union {[kind |-> sweeps[s].kind, age |-> now - born[p],
                                       timed |-> p \notin sweeps[s].untimed,
                                       owned |-> p \in Owned,
                                       olderThan |-> sweeps[s].olderThan]}
                   ELSE kills
  /\ UNCHANGED <<now, stamp, born, booted, known>>

Conclude(s) ==
  /\ sweeps[s].pc = "terminate"
  /\ sweeps[s].stale = sweeps[s].terminated \union sweeps[s].failed
  /\ sweeps' = [sweeps EXCEPT ![s].pc = "done"]
  /\ UNCHANGED <<now, podVars, known, kills>>

-----------------------------------------------------------------------------
(* Owners register within RegisterDelay and listings take at most ListDelay*)
(* of the time that passes.                                                *)
Tick ==
  /\ now < MaxTime /\ now' = now + 1
  /\ \A p \in Owned \ known : Exists(p) => now < born[p] + RegisterDelay
  /\ \A s \in Sweepers : sweeps[s].pc = "list" => now < sweeps[s].clock + ListDelay
  /\ UNCHANGED <<podVars, known, sweeps, kills>>

Owner(p) ==
  \/ ChooseName(p) \/ CreatePod(p) \/ Register(p)
  \/ Stop(p) \/ Resume(p) \/ OwnerTerminates(p)

SweepStep(s) == List(s) \/ ListRaises(s) \/ Terminate(s) \/ Conclude(s)

SweepNext ==
  \/ \E p \in Pods : Owner(p)
  \/ \E s \in Sweepers : Begin(s) \/ SweepStep(s) \/ Confirm(s)
  \/ Tick

(* Listings and DELETEs have timeouts; an operator need not answer.        *)
SweepSpec == SweepInit /\ [][SweepNext]_sweepVars /\ \A s \in Sweepers : WF_sweepVars(SweepStep(s))

-----------------------------------------------------------------------------
(* A pod whose owner registers it in time is never terminated as an orphan *)
(* if --older-than exceeds the delays of registering and listing, although *)
(* the known ids are read before the listing and the operator may confirm  *)
(* much later (cli.py:341-361, discovery.py:84-105).                       *)
OwnedIsSpared ==
  \A k \in kills :
    k.kind = "orphans" /\ k.owned => k.olderThan <= RegisterDelay + ListDelay

(* A pod pruned on the strength of a reported uptime had really existed for*)
(* the stale age when it was terminated, restarts included (guard.py:155). *)
UptimeProtects ==
  \A k \in kills : k.kind = "prune" /\ k.timed => k.age >= StaleAge

(* A sweep that ends has dealt with everything it is for, whatever else    *)
(* happened on the account meanwhile and whichever terminations failed: a  *)
(* pod that a cleanup without --older-than must find, or one stamped and   *)
(* up for the stale age before a prune began, is gone or reported failed.  *)
SweepIsComplete ==
  \A s \in Sweepers, p \in Pods :
    LET w == sweeps[s] IN
    /\ w.pc = "done" /\ Exists(p) /\ PrefixOf[p] \in Prefixes /\ born[p] < w.clock
    /\ \/ w.kind = "cleanup" /\ w.olderThan = NotGiven
       \/ w.kind = "prune" /\ p \in Stamped /\ booted[p] + StaleAge <= w.clock
    => p \in w.failed

-----------------------------------------------------------------------------
(* Claims of the documentation that the code does not keep; the README     *)
(* describes the counterexamples.                                          *)

(* "Terminate live-test pods whose names match any of prefixes and have    *)
(* aged past stale_age_sec" (guard.py:230).                                *)
PruneSparesYoung == \A k \in kills : k.kind = "prune" => k.age >= StaleAge

=============================================================================
