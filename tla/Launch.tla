------------------------------- MODULE Launch -------------------------------
(***************************************************************************)
(* launch_when_available, launch and _try_launch_one_gpu of lifecycle.py,  *)
(* with create_pod of api.py and check_and_expand_storage of storage.py.   *)
(* One caller wants one pod.  It walks GPU candidates, and for each of     *)
(* them a RAM x storage matrix, issuing provider create requests until one *)
(* succeeds; launch_when_available repeats the whole walk until a deadline.*)
(* The provider may serve a request whose answer the caller never sees.    *)
(***************************************************************************)
EXTENDS Integers

CONSTANTS
  NumGpus,      \* len(config.gpu_type_candidates)
  NumRam,       \* len(_build_ram_tiers(config)), never empty
  NumStorages,  \* distinct names in [storage_name, *storage_volumes]
  AttachOnly,   \* config.attach_only
  MaxWait,      \* max_wait_sec; 0 is a single launch
  Interval,     \* retry_interval_sec
  MinFree,      \* the 50 passed to check_and_expand_storage
  Adequate,     \* the 100 GB at which a volume is never grown
  TargetSize,   \* config.disk_size_gb
  InitSize,     \* size of each named volume before the call
  Durations     \* how long a create request or a backoff hook may take

Storages == 1..NumStorages

ASSUME LaunchAssumption ==
  /\ NumGpus \in Nat /\ NumRam \in Nat \ {0} /\ NumStorages \in Nat
  /\ AttachOnly \in BOOLEAN
  /\ MaxWait \in Nat /\ Interval \in Nat \ {0}
  /\ MinFree \in Nat /\ Adequate \in Nat /\ TargetSize \in Nat
  /\ InitSize \in [Storages -> Nat]
  /\ Durations \subseteq Nat /\ Durations # {}

VARIABLES
  pc,          \* where the caller's coroutine is
  gpu,         \* index of the candidate being tried
  targets,     \* storage_targets: resolved volumes, or {0} for (None, None)
  todo,        \* RAM x storage pairs this candidate has not tried
  pair,        \* the pair whose create is being prepared or awaited
  expanded,    \* expanded_storage_ids of the current launch
  refused,     \* <<gpu, ram, storage>> of attempted_pairs refused so far
  unresolved,  \* candidates find_gpu_type did not resolve in this launch
  size,        \* provider: size of every volume
  base,        \* sizes when the current launch started (history)
  creates,     \* create requests issued so far
  inflight,    \* requests the provider has received and not yet decided
  allocated,   \* requests that became pods
  now,         \* time.monotonic() since the call began
  sleepFor,    \* the pending asyncio.sleep
  late,        \* launches begun at or after the deadline (history)
  outcome      \* how the call ended

storageVars == <<size, base, expanded>>
walkVars == <<gpu, targets, todo, pair, refused, unresolved>>
cloudVars == <<creates, inflight, allocated>>
timeVars == <<now, sleepFor, late>>
vars == <<pc, storageVars, walkVars, cloudVars, timeVars, outcome>>

Pairs == (1..NumRam) \X (0..NumStorages)

(* "open" until the call ends; then a Pod, an error that carries the pod's *)
(* id, AllocationUnknown, a plain LaunchFailure, another exception that is *)
(* passed on ("raised"), or a cancellation of the awaiting task.           *)
Outcomes == {"open", "pod", "named", "unknown", "failed", "raised", "cancelled"}

Places == {"announce", "storage", "candidate", "resolve", "pair", "expand",
           "create", "notify", "reportUnknown", "failing", "giveup",
           "backoff", "sleep", "done"}

PlaceTypes == pc \in Places /\ outcome \in Outcomes

WalkTypes ==
  /\ gpu \in 1..(NumGpus + 1)
  /\ targets \subseteq 0..NumStorages
  /\ todo \subseteq Pairs /\ pair \in Pairs
  /\ refused \subseteq (1..NumGpus) \X (1..NumRam) \X (0..NumStorages)
  /\ unresolved \subseteq 1..NumGpus

StorageTypes ==
  /\ expanded \subseteq Storages
  /\ size \in [Storages -> Nat] /\ base \in [Storages -> Nat]

CloudTypes ==
  /\ creates \in Nat
  /\ inflight \subseteq 1..creates /\ allocated \subseteq 1..creates

TimeTypes == now \in Nat /\ sleepFor \in Nat /\ late \in Nat

TypeOK == PlaceTypes /\ WalkTypes /\ StorageTypes /\ CloudTypes /\ TimeTypes

Init ==
  /\ pc = "announce" /\ gpu = 1 /\ targets = {} /\ todo = {}
  /\ pair = <<1, 0>> /\ expanded = {} /\ refused = {} /\ unresolved = {}
  /\ size = InitSize /\ base = InitSize
  /\ creates = 0 /\ inflight = {} /\ allocated = {}
  /\ now = 0 /\ sleepFor = 0 /\ late = 0
  /\ outcome = "open"

-----------------------------------------------------------------------------
(* The walk visits RAM tiers in order, and storages in order within a tier.*)
Before(p, q) == p[1] < q[1] \/ (p[1] = q[1] /\ p[2] < q[2])

(* Fault: the text alone decides.                                          *)
RefusalByText(exc) == exc.marker

(* A create error is a definite refusal only if it is not a transport      *)
(* error and its text carries a capacity marker.                           *)
DefiniteRefusal(exc) == ~exc.transport /\ exc.marker

Finish(o) == pc' = "done" /\ outcome' = o

(* Fault: an adequate volume is grown as well.                             *)
GrownRegardless(n) ==
  IF TargetSize > 0 /\ n < TargetSize THEN TargetSize ELSE n + MinFree

(* The size check_and_expand_storage asks for, given the current one.      *)
Grown(n) ==
  IF TargetSize > 0 /\ n < TargetSize THEN TargetSize
  ELSE IF n >= Adequate THEN n ELSE n + MinFree

(* The PATCH of one volume, carried out or not.                            *)
Enlarge(s) == \E n \in {size[s], Grown(size[s])} : size' = [size EXCEPT ![s] = n]

Remaining == MaxWait - now

-----------------------------------------------------------------------------
(* Every hook the code awaits, the public key and the lookups of volumes   *)
(* and GPU types may raise; outside the two places that guard a hook (after*)
(* a create, and on AllocationUnknown) that ends the call.                 *)
UncaughtRaises ==
  /\ \/ pc = "announce" /\ NumGpus > 0 /\ late' = late + (IF now >= MaxWait THEN 1 ELSE 0)
     \/ pc = "candidate" /\ gpu <= NumGpus /\ late' = late
     \/ pc \in {"storage", "resolve", "failing", "giveup", "backoff"} /\ late' = late
  /\ Finish("raised")
  /\ UNCHANGED <<storageVars, walkVars, cloudVars, now, sleepFor>>

(* launch() begins: no candidate at all is a LaunchFailure.                *)
Announce ==
  /\ pc = "announce"
  /\ pc' = IF NumGpus = 0 THEN "failing" ELSE "storage"
  /\ late' = late + (IF now >= MaxWait THEN 1 ELSE 0)
  /\ base' = size
  /\ UNCHANGED <<size, expanded, walkVars, cloudVars, now, sleepFor, outcome>>

(* _resolve_storage_targets: each name is looked up in a fresh listing that*)
(* may miss it; unresolved names are skipped.                              *)
ResolveStorage ==
  /\ pc = "storage"
  /\ \E found \in SUBSET Storages :
       /\ targets' = IF NumStorages = 0 THEN {0} ELSE found
       /\ pc' = IF \/ NumStorages > 0 /\ found = {}
                   \/ AttachOnly /\ NumStorages = 0
                THEN "failing" ELSE "candidate"
  /\ gpu' = 1 /\ expanded' = {} /\ refused' = {} /\ unresolved' = {}
  /\ UNCHANGED <<todo, pair, size, base, cloudVars, timeVars, outcome>>

(* The candidate loop: announce the next one, or fail when none is left.   *)
NextCandidate ==
  /\ pc = "candidate"
  /\ pc' = IF gpu <= NumGpus THEN "resolve" ELSE "failing"
  /\ UNCHANGED <<storageVars, walkVars, cloudVars, timeVars, outcome>>

(* Fault: an unresolved candidate is looked up again.                      *)
ResolveGpuAgain ==
  /\ pc = "resolve"
  /\ \/ pc' = "pair" /\ todo' = (1..NumRam) \X targets
     \/ pc' = "candidate" /\ UNCHANGED todo
  /\ UNCHANGED <<gpu, unresolved, targets, pair, refused, storageVars, cloudVars,
                 timeVars, outcome>>

(* find_gpu_type: an unresolved candidate is a _GpuCandidateFailure.       *)
ResolveGpu ==
  /\ pc = "resolve"
  /\ \/ /\ pc' = "pair"
        /\ todo' = (1..NumRam) \X targets
        /\ UNCHANGED <<gpu, unresolved>>
     \/ /\ pc' = "candidate"
        /\ gpu' = gpu + 1
        /\ unresolved' = unresolved \union {gpu}
        /\ UNCHANGED todo
  /\ UNCHANGED <<targets, pair, refused, storageVars, cloudVars, timeVars, outcome>>

IssueCreate ==
  /\ pc' = "create"
  /\ creates' = creates + 1
  /\ inflight' = inflight \union {creates + 1}
  /\ UNCHANGED allocated

(* The next pair of the matrix; its volume is grown first, unless the      *)
(* configuration only attaches or this launch has already done so.         *)
NextPair ==
  /\ pc = "pair" /\ todo # {}
  /\ \E p \in todo :
       /\ \A q \in todo \ {p} : Before(p, q)
       /\ pair' = p /\ todo' = todo \ {p}
       /\ IF p[2] # 0 /\ ~AttachOnly /\ p[2] \notin expanded
          THEN pc' = "expand" /\ UNCHANGED cloudVars
          ELSE IssueCreate
  /\ UNCHANGED <<gpu, targets, refused, unresolved, storageVars, timeVars, outcome>>

(* Fault: the expansion is not recorded.                                   *)
ExpandForgetful ==
  /\ pc = "expand"
  /\ Enlarge(pair[2])
  /\ IssueCreate
  /\ UNCHANGED <<base, expanded, walkVars, timeVars, outcome>>

(* check_and_expand_storage never raises: a volume that is not listed, a   *)
(* refused or failed PATCH all leave the size alone and the launch goes on.*)
Expand ==
  /\ pc = "expand"
  /\ Enlarge(pair[2])
  /\ expanded' = expanded \union {pair[2]}
  /\ IssueCreate
  /\ UNCHANGED <<base, walkVars, timeVars, outcome>>

(* Fault: the next candidate is tried before the matrix is exhausted.      *)
CandidateAbandoned ==
  /\ pc = "pair"
  /\ gpu' = gpu + 1 /\ pc' = "candidate"
  /\ UNCHANGED <<targets, todo, pair, refused, unresolved, storageVars,
                 cloudVars, timeVars, outcome>>

(* _GpuCandidateFailure: the matrix of this candidate is exhausted.        *)
CandidateExhausted ==
  /\ pc = "pair" /\ todo = {}
  /\ gpu' = gpu + 1 /\ pc' = "candidate"
  /\ UNCHANGED <<targets, todo, pair, refused, unresolved, storageVars,
                 cloudVars, timeVars, outcome>>

-----------------------------------------------------------------------------
(* create_pod returns an id.                                               *)
CreateReturns ==
  /\ pc = "create"
  /\ inflight' = inflight \ {creates}
  /\ allocated' = allocated \union {creates}
  /\ pc' = "notify"
  /\ now' \in {now + d : d \in Durations}
  /\ UNCHANGED <<storageVars, walkVars, creates, sleepFor, late, outcome>>

(* create_pod raises, or returns no id.  A definite capacity refusal means *)
(* no pod and moves on; after anything else the request may still be       *)
(* undecided at the provider (it stays in flight) or never have arrived.   *)
CreateRaises ==
  /\ pc = "create"
  /\ \E exc \in [transport : BOOLEAN, marker : BOOLEAN] :
       /\ \/ inflight' = inflight \ {creates}
          \/ (exc.transport \/ ~exc.marker) /\ inflight' = inflight
       /\ IF DefiniteRefusal(exc)
          THEN /\ pc' = "pair"
               /\ refused' = refused \union {<<gpu, pair[1], pair[2]>>}
          ELSE /\ pc' = "reportUnknown"
               /\ UNCHANGED refused
  /\ now' \in {now + d : d \in Durations}
  /\ UNCHANGED <<gpu, targets, todo, pair, unresolved, storageVars, creates,
                 allocated, sleepFor, late, outcome>>

(* The provider decides a request nobody is waiting for any more.          *)
LateDecision ==
  /\ \E n \in inflight :
       /\ pc = "create" => n # creates
       /\ inflight' = inflight \ {n}
       /\ allocated' \in {allocated, allocated \union {n}}
  /\ UNCHANGED <<pc, storageVars, walkVars, creates, timeVars, outcome>>

(* The post-create state hook: its failure keeps the pod's id in the error.*)
NotifyCreated ==
  /\ pc = "notify"
  /\ \E o \in {"pod", "named"} : Finish(o)
  /\ UNCHANGED <<storageVars, walkVars, cloudVars, timeVars>>

(* AllocationUnknown is reported, a raising hook notwithstanding, and is   *)
(* never retried.                                                          *)
ReportUnknown ==
  /\ pc = "reportUnknown"
  /\ Finish("unknown")
  /\ UNCHANGED <<storageVars, walkVars, cloudVars, timeVars>>

-----------------------------------------------------------------------------
(* Fault: the deadline is tested one unit too late.                        *)
LaunchFailsLate ==
  /\ pc = "failing" /\ MaxWait > 0
  /\ pc' = IF Remaining < 0 THEN "giveup" ELSE "backoff"
  /\ sleepFor' = IF Interval < Remaining THEN Interval ELSE Remaining
  /\ UNCHANGED <<storageVars, walkVars, cloudVars, now, late, outcome>>

(* A LaunchFailure reaches launch_when_available after launch emitted it.  *)
LaunchFails ==
  /\ pc = "failing"
  /\ IF MaxWait = 0 THEN Finish("failed") /\ UNCHANGED sleepFor
     ELSE /\ pc' = IF Remaining <= 0 THEN "giveup" ELSE "backoff"
          /\ sleepFor' = IF Remaining <= 0 THEN sleepFor
                         ELSE IF Interval < Remaining THEN Interval ELSE Remaining
          /\ UNCHANGED outcome
  /\ UNCHANGED <<storageVars, walkVars, cloudVars, now, late>>

GiveUp ==
  /\ pc = "giveup"
  /\ Finish("failed")
  /\ UNCHANGED <<storageVars, walkVars, cloudVars, timeVars>>

(* The hook that announces the retry may itself take time, after sleep_for *)
(* was computed.                                                           *)
Backoff ==
  /\ pc = "backoff"
  /\ pc' = "sleep"
  /\ now' \in {now + d : d \in Durations}
  /\ UNCHANGED <<storageVars, walkVars, cloudVars, sleepFor, late, outcome>>

Sleep ==
  /\ pc = "sleep"
  /\ now' = now + sleepFor
  /\ pc' = "announce"
  /\ UNCHANGED <<storageVars, walkVars, cloudVars, sleepFor, late, outcome>>

(* The awaiting task is cancelled.  CancelledError is not an Exception, so *)
(* no handler here runs; a create or an expansion already handed to its    *)
(* thread goes on.                                                         *)
Cancel ==
  /\ pc # "done"
  /\ Finish("cancelled")
  /\ UNCHANGED size \/ (pc = "expand" /\ Enlarge(pair[2]))
  /\ UNCHANGED <<base, expanded, walkVars, cloudVars, timeVars>>

Step ==
  \/ UncaughtRaises \/ Announce \/ ResolveStorage \/ NextCandidate \/ ResolveGpu
  \/ NextPair \/ Expand \/ CandidateExhausted
  \/ CreateReturns \/ CreateRaises \/ NotifyCreated \/ ReportUnknown
  \/ LaunchFails \/ GiveUp \/ Backoff \/ Sleep

Next == Step \/ LateDecision \/ Cancel

(* The coroutine is resumed by the event loop and every provider call has  *)
(* a timeout or an answer: the caller's own steps are weakly fair.         *)
Spec == Init /\ [][Next]_vars /\ WF_vars(Step)

-----------------------------------------------------------------------------
(* One call never makes the provider hold two pods, however many GPU       *)
(* candidates, tiers, storages and retries it goes through and whatever    *)
(* requests the provider decides late (lifecycle.py:173-188, 361-365).     *)
AtMostOneAllocation == \A m, n \in allocated : m = n

(* A call that ends with a plain failure or another exception leaves no    *)
(* pod and no request that could still become one: every allocation a      *)
(* caller must care about is returned, named or declared unknown.          *)
FailureLeavesNothing ==
  outcome \in {"failed", "raised"} => allocated = {} /\ inflight = {}

(* "instead of immediately escalating" (lifecycle.py:344): when a create   *)
(* is out, every earlier pair of this candidate and every pair of every    *)
(* earlier resolved candidate was refused for capacity in this launch.     *)
NoSkippedPair ==
  pc = "create" =>
    /\ \A p \in (1..NumRam) \X targets :
         Before(p, pair) => <<gpu, p[1], p[2]>> \in refused
    /\ \A g \in 1..(gpu - 1) \ unresolved :
         \A p \in (1..NumRam) \X targets : <<g, p[1], p[2]>> \in refused

(* Within one launch a volume is grown at most once, by the amount         *)
(* computed from its size at the start, and never when only attaching      *)
(* (lifecycle.py:143-152 shares expanded_storage_ids across candidates).   *)
OneGrowthPerLaunch ==
  \A s \in Storages : \/ size[s] = base[s]
                      \/ ~AttachOnly /\ size[s] = Grown(base[s])

(* However often the launch is retried, a volume cannot be grown without   *)
(* limit: past the configured target and past Adequate it stays.           *)
GrowthBounded ==
  \A s \in Storages :
    \/ size[s] = InitSize[s]
    \/ size[s] <= TargetSize
    \/ size[s] < Adequate + MinFree

(* The wait is bounded: at most one launch begins at or after the deadline,*)
(* even when retry hooks and creates are slow (lifecycle.py:366-382).      *)
AtMostOneLateLaunch == late <= 1

(* Under the fairness above the call always comes back.                    *)
CallReturns == <>(pc = "done")

(* The call implements the custody promise: see Custody.                   *)
Promise == INSTANCE Custody WITH pods <- allocated, report <- outcome
KeepsCustody == Promise!Spec

=============================================================================
