------------------------------ MODULE Fallbacks ------------------------------
(***************************************************************************)
(* create_pod_with_fallbacks of api.py: one synchronous call walks the     *)
(* product of resolved GPU types and resolved volumes, up to MaxPasses     *)
(* times, until a create request succeeds.  It has its own rule for which  *)
(* errors permit another create, and no custody exception for the rest.    *)
(***************************************************************************)
EXTENDS Integers

CONSTANTS
  NumGpus,      \* stripped, non-empty gpu_type_candidates
  NumVolumes,   \* distinct non-empty volume_candidates
  MaxPasses     \* max_full_passes

ASSUME FallbacksAssumption ==
  NumGpus \in Nat \ {0} /\ NumVolumes \in Nat /\ MaxPasses \in Nat

VARIABLES
  pc,         \* where the call is
  gpus,       \* resolved_gpus: the candidates found in the catalog
  next,       \* the candidate to resolve, then unused
  volumes,    \* volume_lookup: matched names, or {0} for (None, None)
  pass,       \* full_pass
  todo,       \* combinations this pass has still to try
  combo,      \* the combination being created
  attempts,   \* total_attempts
  refusals,   \* capacity misses of each combination (history)
  misread,    \* requests whose transport error passed for a refusal (history)
  inflight,   \* requests the provider has received and not decided
  allocated,  \* requests that became pods
  outcome     \* how the call ended

cloudVars == <<inflight, allocated>>
missVars == <<refusals, misread>>
vars == <<pc, gpus, next, volumes, pass, todo, combo, attempts, missVars, cloudVars, outcome>>

Combos == (1..NumGpus) \X (0..NumVolumes)

TypeOK ==
  /\ pc \in {"gpus", "volumes", "pass", "create", "done"}
  /\ gpus \subseteq 1..NumGpus /\ next \in 1..(NumGpus + 1)
  /\ volumes \subseteq 0..NumVolumes
  /\ pass \in 0..MaxPasses /\ todo \subseteq Combos /\ combo \in Combos
  /\ attempts \in Nat /\ refusals \in [Combos -> 0..MaxPasses]
  /\ inflight \subseteq 1..attempts /\ allocated \subseteq 1..attempts
  /\ misread \subseteq 1..attempts
  /\ outcome \in {"open", "pod", "exhausted", "unresolved", "error"}

Init ==
  /\ pc = "gpus" /\ gpus = {} /\ next = 1 /\ volumes = {}
  /\ pass = 0 /\ todo = {} /\ combo = <<1, 0>> /\ attempts = 0
  /\ refusals = [c \in Combos |-> 0] /\ misread = {}
  /\ inflight = {} /\ allocated = {} /\ outcome = "open"

-----------------------------------------------------------------------------
Before(c, d) == c[1] < d[1] \/ (c[1] = d[1] /\ c[2] < d[2])

(* Fault: every error falls back to the next combination.                  *)
AlwaysAnother(exc) == TRUE

(* _is_capacity_error looks at the text alone.                             *)
PermitsAnother(exc) == exc.marker

(* What is asked of an error: whether it is a timeout or another transport *)
(* error, and whether its text carries a capacity marker.                  *)
Errors == [transport : BOOLEAN, marker : BOOLEAN]

Finish(o) == pc' = "done" /\ outcome' = o

(* find_gpu_type for each candidate: unknown ones are skipped with a       *)
(* warning, a catalog request that raises ends the call.                   *)
ResolveGpu ==
  /\ pc = "gpus" /\ next <= NumGpus
  /\ next' = next + 1
  /\ \/ gpus' \in {gpus, gpus \union {next}} /\ UNCHANGED <<pc, outcome>>
     \/ Finish("error") /\ UNCHANGED gpus
  /\ UNCHANGED <<volumes, pass, todo, combo, attempts, missVars, cloudVars>>

GpusResolved ==
  /\ pc = "gpus" /\ next > NumGpus
  /\ IF gpus = {} THEN Finish("unresolved") ELSE pc' = "volumes" /\ UNCHANGED outcome
  /\ UNCHANGED <<gpus, next, volumes, pass, todo, combo, attempts, missVars, cloudVars>>

(* One listing of the volumes; without any match the pod gets none.        *)
ResolveVolumes ==
  /\ pc = "volumes"
  /\ \E found \in SUBSET (1..NumVolumes) :
       volumes' = IF found = {} THEN {0} ELSE found
  /\ pc' = "pass"
  /\ UNCHANGED <<gpus, next, pass, todo, combo, attempts, missVars, cloudVars, outcome>>

(* Fault: one pass too few.                                                *)
BeginOneLess ==
  /\ pc = "pass" /\ todo = {}
  /\ IF pass < MaxPasses - 1
     THEN pass' = pass + 1 /\ todo' = gpus \X volumes /\ UNCHANGED <<pc, outcome>>
     ELSE Finish("exhausted") /\ UNCHANGED <<pass, todo>>
  /\ UNCHANGED <<gpus, next, volumes, combo, attempts, missVars, cloudVars>>

(* A pass over all combinations begins, or none is left.                   *)
BeginPass ==
  /\ pc = "pass" /\ todo = {}
  /\ IF pass < MaxPasses
     THEN pass' = pass + 1 /\ todo' = gpus \X volumes /\ UNCHANGED <<pc, outcome>>
     ELSE Finish("exhausted") /\ UNCHANGED <<pass, todo>>
  /\ UNCHANGED <<gpus, next, volumes, combo, attempts, missVars, cloudVars>>

(* The next combination; on_attempt cannot stop it.                        *)
Attempt ==
  /\ pc = "pass" /\ todo # {}
  /\ \E c \in todo :
       /\ \A d \in todo \ {c} : Before(c, d)
       /\ combo' = c /\ todo' = todo \ {c}
  /\ attempts' = attempts + 1
  /\ inflight' = inflight \union {attempts + 1}
  /\ pc' = "create"
  /\ UNCHANGED <<gpus, next, volumes, pass, missVars, allocated, outcome>>

(* The provider decides a request it has received, perhaps after the call  *)
(* gave up on it.                                                          *)
Decide ==
  /\ \E n \in inflight :
       /\ inflight' = inflight \ {n}
       /\ allocated' \in {allocated, allocated \union {n}}
  /\ UNCHANGED <<pc, gpus, next, volumes, pass, todo, combo, attempts, missVars, outcome>>

CreateReturns ==
  /\ pc = "create" /\ attempts \in allocated
  /\ Finish("pod")
  /\ UNCHANGED <<gpus, next, volumes, pass, todo, combo, attempts, missVars, cloudVars>>

(* A refusal by the provider says that there is no pod; any other error    *)
(* leaves open what the provider did or will do.                           *)
CreateRaises ==
  /\ pc = "create"
  /\ \E exc \in Errors :
       /\ ~exc.transport /\ exc.marker => attempts \notin inflight \union allocated
       /\ IF PermitsAnother(exc)
          THEN /\ pc' = "pass" /\ UNCHANGED outcome
               /\ refusals' = [refusals EXCEPT ![combo] = @ + 1]
               /\ misread' = IF exc.transport /\ exc.marker
                             THEN misread \union {attempts} ELSE misread
          ELSE Finish("error") /\ UNCHANGED missVars
  /\ UNCHANGED <<gpus, next, volumes, pass, todo, combo, attempts, cloudVars>>

Step ==
  \/ ResolveGpu \/ GpusResolved \/ ResolveVolumes
  \/ BeginPass \/ Attempt \/ CreateReturns \/ CreateRaises

Next == Step \/ Decide

(* Requests to the provider are answered or time out.                      *)
Spec == Init /\ [][Next]_vars /\ WF_vars(Step)

-----------------------------------------------------------------------------
(* One call never makes the provider hold two pods, but for pods of        *)
(* requests whose answer was lost in an error that quotes a capacity       *)
(* marker (api.py:391).                                                    *)
AtMostOnePod == \A m, n \in allocated \ misread : m = n

(* "until create_pod succeeds": giving up as exhausted means that every    *)
(* combination of a resolved GPU and volume missed in every pass, and that *)
(* no request of the call can still become a pod, but one misread so.      *)
ExhaustedIsHonest ==
  outcome = "exhausted" =>
    /\ \A c \in gpus \X volumes : refusals[c] = MaxPasses
    /\ inflight \union allocated \subseteq misread

(* What the walk keeps of the promise of launch (see Custody).  An error   *)
(* has no type of its own here and tells the caller as little as an        *)
(* AllocationUnknown.  And launch sets transport errors apart before it    *)
(* looks for a marker (lifecycle.py:177), this code does not: it loses the *)
(* request of a transport error whose text carries one.  The promise holds *)
(* of all other requests, at every step but the one that loses a request.  *)
Told ==
  IF outcome \in {"exhausted", "unresolved"} THEN "failed"
  ELSE IF outcome = "error" THEN "unknown" ELSE outcome
Promise == INSTANCE Custody WITH pods <- allocated \ misread, report <- Told
Loses == misread' # misread /\ UNCHANGED <<allocated, outcome>>
KeepsCustody == Promise!Init /\ [][Promise!Next \/ Loses]_<<allocated \ misread, Told>>

(* A claim the code does not keep; the README describes what happens:      *)
(* "Non-capacity errors abort immediately" (api.py:311).                   *)
OthersAbort == misread = {}

=============================================================================
