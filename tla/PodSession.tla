----------------------------- MODULE PodSession -----------------------------
(***************************************************************************)
(* One Pod object and the pod it stands for: wait_ready, exec_ssh, is_idle *)
(* and the SSH details they cache (pod.py), resume_when_available of       *)
(* lifecycle.py and _connect_builder_ssh of cli.py.  The operator runs     *)
(* them one after the other, while the provider starts the pod, publishes, *)
(* withdraws and moves its SSH port, stops the pod or loses it.            *)
(***************************************************************************)
EXTENDS Integers

CONSTANTS
  Patience,     \* timeout of wait_ready, max_wait_sec, timeout_sec
  Interval,     \* the sleep between two polls or attempts
  CallTime,     \* what a status, start or connect call may take
  Threshold,    \* threshold_seconds of is_idle
  MaxEndpoints  \* bound: SSH ports the provider publishes

ASSUME SessionAssumption ==
  Patience \in Nat /\ Interval \in Nat \ {0} /\ CallTime \in Nat /\ MaxEndpoints \in Nat
  /\ Threshold \in Nat

VARIABLES
  desired,   \* provider: desiredStatus
  endpoint,  \* provider: the published SSH endpoint, 0 if none
  epoch,     \* provider: endpoints published so far
  details,   \* _ssh_details: the endpoint it names, 0 for None
  pc,        \* what the client is about to do
  seen,      \* the status snapshot it acts on
  elapsed,   \* time since the operation began
  outcome,   \* how the last operation ended, "open" while one runs
  began,     \* what held when the operation began (history)
  started,   \* the provider confirmed a start of this operation (history)
  quiet,     \* time since _last_exec_at, or _created_at, up to Threshold
  unused,    \* time since the caller's own last command, up to Threshold (history)
  late       \* start requests sent at or after the deadline (history)

providerVars == <<desired, endpoint, epoch>>
historyVars == <<began, started, late>>
clocks == <<quiet, unused>>
vars == <<providerVars, details, pc, seen, elapsed, outcome, historyVars, clocks>>

Dead == {"FAILED", "TERMINATED"}
Statuses == {"EXITED", "RUNNING"} \union Dead
Places == {"idle", "waitPoll", "waitSeen", "waitDetails", "waitEmit", "resumeStatus",
           "resumeStart", "resumeNotify", "resumeBackoff", "details", "dial", "exec",
           "idleTest", "idleQuery"}
Outcomes == {"open", "none", "ready", "notReady", "failed", "capacity", "resumed",
             "connected", "unreachable", "noDetails", "ran", "ssh", "hook", "idle", "busy"}

TypeOK ==
  /\ desired \in Statuses /\ endpoint \in 0..epoch /\ epoch \in 0..MaxEndpoints
  /\ details \in 0..epoch /\ pc \in Places
  /\ seen \in [desired : Statuses \union {"none"}, port : BOOLEAN]
  /\ elapsed \in Nat /\ outcome \in Outcomes
  /\ began \in [endpoint : Nat, dead : BOOLEAN]
  /\ started \in BOOLEAN /\ late \in Nat
  /\ quiet \in 0..Threshold /\ unused \in 0..Threshold

Unseen == [desired |-> "none", port |-> FALSE]

Init ==
  /\ desired \in {"EXITED", "RUNNING"} /\ endpoint = 0 /\ epoch = 0
  /\ details = 0 /\ pc = "idle" /\ seen = Unseen /\ elapsed = 0 /\ outcome = "none"
  /\ began = [endpoint |-> 0, dead |-> FALSE]
  /\ started = FALSE /\ late = 0 /\ quiet = 0 /\ unused = 0

-----------------------------------------------------------------------------
Finish(o) == pc' = "idle" /\ outcome' = o
Goto(place) == pc' = place /\ UNCHANGED outcome
Spend(base) == elapsed' \in {base, base + CallTime}

(* The endpoint of the operation, or the next one if none is published.    *)
Begin(place) ==
  /\ pc = "idle" /\ pc' = place /\ outcome' = "open" /\ elapsed' = 0
  /\ began' = [endpoint |-> IF endpoint = 0 THEN epoch + 1 ELSE endpoint,
               dead |-> desired \in Dead]
  /\ started' = FALSE /\ late' = 0
  /\ UNCHANGED <<providerVars, details, seen>>

(* api.get_pod_status answers for the pod as it is, or with None.          *)
LookUp ==
  seen' \in {Unseen, [desired |-> desired, port |-> endpoint # 0]}

(* _ensure_ssh_details: the cached details, or a lookup that may fail.     *)
EnsureDetails ==
  details' \in IF details # 0 THEN {details} ELSE {0, endpoint}

-----------------------------------------------------------------------------
WaitReady == Begin("waitPoll")

WaitTimesOut ==
  /\ pc = "waitPoll" /\ elapsed > Patience
  /\ Finish("notReady")
  /\ UNCHANGED <<providerVars, details, seen, elapsed, historyVars>>

(* Fault: the deadline is not tested before a poll.                        *)
WaitPollUntested ==
  /\ pc = "waitPoll"
  /\ LookUp /\ Spend(elapsed) /\ Goto("waitSeen")
  /\ UNCHANGED <<providerVars, details, historyVars>>

WaitPoll ==
  /\ pc = "waitPoll" /\ elapsed <= Patience
  /\ LookUp /\ Spend(elapsed) /\ Goto("waitSeen")
  /\ UNCHANGED <<providerVars, details, historyVars>>

(* The hook is told PROVISIONING, STARTING, FAILED or TERMINATED, may raise*)
(* and may take its time: the snapshot ages.                               *)
WaitSeen ==
  /\ pc = "waitSeen"
  /\ \/ seen.desired \in Dead /\ Finish("failed") /\ UNCHANGED elapsed
     \/ seen.desired = "RUNNING" /\ seen.port /\ Goto("waitDetails") /\ UNCHANGED elapsed
     \/ /\ seen.desired \notin Dead /\ ~(seen.desired = "RUNNING" /\ seen.port)
        /\ Goto("waitPoll") /\ elapsed' = elapsed + Interval
     \/ Finish("hook") /\ UNCHANGED elapsed
  /\ UNCHANGED <<providerVars, details, seen, historyVars>>

WaitDetails ==
  /\ pc = "waitDetails"
  /\ EnsureDetails
  /\ IF details' = 0 THEN Finish("ssh") ELSE Goto("waitEmit")
  /\ UNCHANGED <<providerVars, seen, elapsed, historyVars>>

(* READY is announced, then wait_ready returns.                            *)
WaitEmit ==
  /\ pc = "waitEmit"
  /\ Finish("ready") \/ Finish("hook")
  /\ UNCHANGED <<providerVars, details, seen, elapsed, historyVars>>

-----------------------------------------------------------------------------
Resume == Begin("resumeStatus")

(* Fault: a lookup without an answer passes for a running pod.             *)
ResumeStatusTrusting ==
  /\ pc = "resumeStatus"
  /\ LookUp /\ Spend(elapsed)
  /\ \/ seen'.desired \in {"RUNNING", "none"} /\ Finish("resumed")
     \/ seen'.desired \in Dead /\ (Finish("failed") \/ Finish("hook"))
     \/ seen'.desired = "EXITED" /\ Goto("resumeStart")
  /\ UNCHANGED <<providerVars, details, historyVars>>

ResumeStatus ==
  /\ pc = "resumeStatus"
  /\ LookUp /\ Spend(elapsed)
  /\ \/ seen'.desired = "RUNNING" /\ Finish("resumed")
     \/ seen'.desired \in Dead /\ (Finish("failed") \/ Finish("hook"))
     \/ seen'.desired \in {"EXITED", "none"} /\ Goto("resumeStart")
  /\ UNCHANGED <<providerVars, details, historyVars>>

(* start_pod: accepted, refused for capacity, or any other error, behind   *)
(* which the start may have been accepted all the same.                    *)
ResumeStart ==
  /\ pc = "resumeStart"
  /\ Spend(elapsed)
  /\ late' = late + (IF elapsed >= Patience THEN 1 ELSE 0)
  /\ LET Accepted == desired' = IF desired = "EXITED" THEN "RUNNING" ELSE desired IN
     \/ desired \notin Dead /\ Accepted /\ started' = TRUE /\ Goto("resumeNotify")
     \/ desired = "EXITED" /\ UNCHANGED <<desired, started>> /\ Goto("resumeBackoff")
     \/ /\ Accepted \/ UNCHANGED desired
        /\ UNCHANGED started
        /\ Finish("failed") \/ Finish("hook")
  /\ UNCHANGED <<endpoint, epoch, details, seen, began>>

(* The hook is told STARTING inside the same try as the request: what it   *)
(* raises is handled as an error of the request, by its text.              *)
ResumeNotify ==
  /\ pc = "resumeNotify"
  /\ \/ Finish("resumed")
     \/ Goto("resumeBackoff")
     \/ Finish("failed") \/ Finish("hook")
  /\ UNCHANGED <<providerVars, details, seen, elapsed, historyVars>>

(* Faults: the deadline is tested one unit late; the sleep does not count. *)
Backoff(over, slept) ==
  /\ pc = "resumeBackoff"
  /\ \/ over /\ Finish("capacity") /\ UNCHANGED elapsed
     \/ ~over /\ Spend(elapsed + slept) /\ Goto("resumeStatus")
  /\ UNCHANGED <<providerVars, details, seen, historyVars>>

ResumeBackoffLate == Backoff(elapsed > Patience, 1)
ResumeBackoffUncounted == Backoff(elapsed >= Patience, 0)

ResumeBackoff ==
  /\ pc = "resumeBackoff"
  /\ LET remaining == Patience - elapsed IN
     \/ /\ remaining <= 0
        /\ Finish("capacity") /\ UNCHANGED elapsed
     \/ /\ remaining > 0
        /\ Spend(elapsed + (IF Interval < remaining THEN Interval ELSE remaining))
        /\ Goto("resumeStatus")
     \/ Finish("hook") /\ UNCHANGED elapsed
  /\ UNCHANGED <<providerVars, details, seen, historyVars>>

-----------------------------------------------------------------------------
Connect == Begin("details")

ConnectDetails ==
  /\ pc = "details"
  /\ EnsureDetails
  /\ IF details' = 0 THEN Finish("noDetails") ELSE Goto("dial")
  /\ UNCHANGED <<providerVars, seen, elapsed, historyVars>>

(* Connecting to the current endpoint may still fail; a stale one always   *)
(* does.  A failure before the deadline drops the cached details.          *)
ConnectDial ==
  /\ pc = "dial"
  /\ \/ details = endpoint /\ Finish("connected") /\ UNCHANGED <<details, elapsed>>
     \/ \E spent \in {elapsed, elapsed + CallTime} :
          LET remaining == Patience - spent IN
          \/ remaining <= 0 /\ Finish("unreachable") /\ elapsed' = spent /\ UNCHANGED details
          \/ /\ remaining > 0 /\ Goto("details") /\ details' = 0
             /\ elapsed' = spent + (IF Interval < remaining THEN Interval ELSE remaining)
  /\ UNCHANGED <<providerVars, seen, historyVars>>

(* exec_ssh: one connection with the cached details, which a failure keeps.*)
Exec == Begin("exec")

(* Fault: a command does not count as activity.                            *)
ExecRunsUncounted ==
  /\ pc = "exec"
  /\ EnsureDetails
  /\ \/ /\ details' # 0 /\ details' = endpoint /\ Finish("ran")
        /\ unused' = 0 /\ UNCHANGED quiet
     \/ Finish("ssh") /\ UNCHANGED clocks
  /\ UNCHANGED <<providerVars, seen, elapsed, historyVars>>

(* A command that ran, or timed out on the pod, renews _last_exec_at.      *)
ExecRuns ==
  /\ pc = "exec"
  /\ EnsureDetails
  /\ \/ details' # 0 /\ details' = endpoint /\ Finish("ran") /\ quiet' = 0 /\ unused' = 0
     \/ Finish("ssh") /\ UNCHANGED clocks
  /\ UNCHANGED <<providerVars, seen, elapsed, historyVars>>

-----------------------------------------------------------------------------
IsIdle == Begin("idleTest")

IdleTest ==
  /\ pc = "idleTest"
  /\ IF quiet < Threshold THEN Finish("busy") ELSE Goto("idleQuery")
  /\ UNCHANGED <<providerVars, details, seen, elapsed, historyVars>>

(* The GPU query goes through exec_ssh, and so renews _last_exec_at; what  *)
(* cannot be determined is not idle.                                       *)
IdleQuery ==
  /\ pc = "idleQuery"
  /\ EnsureDetails
  /\ \/ /\ details' # 0 /\ details' = endpoint /\ (Finish("idle") \/ Finish("busy"))
        /\ quiet' = 0
     \/ Finish("busy") /\ UNCHANGED quiet
  /\ UNCHANGED <<unused, providerVars, seen, elapsed, historyVars>>

(* Time passes, in an operation or between two.                            *)
Age ==
  /\ quiet' = (IF quiet < Threshold THEN quiet + 1 ELSE quiet)
  /\ unused' = (IF unused < Threshold THEN unused + 1 ELSE unused)
  /\ UNCHANGED <<providerVars, details, pc, seen, elapsed, outcome, historyVars>>

-----------------------------------------------------------------------------
clientVars == <<details, pc, seen, elapsed, outcome, historyVars>>

Publish ==
  /\ desired = "RUNNING" /\ endpoint = 0 /\ epoch < MaxEndpoints
  /\ epoch' = epoch + 1 /\ endpoint' = epoch + 1
  /\ UNCHANGED <<desired, clientVars>>

(* RunPod may rotate or delay port metadata.                               *)
Withdraw ==
  /\ endpoint # 0 /\ endpoint' = 0
  /\ UNCHANGED <<desired, epoch, clientVars>>

(* The pod stops, fails or is terminated.                                  *)
Lose ==
  /\ desired \in {"EXITED", "RUNNING"}
  /\ desired' \in {"EXITED"} \union Dead /\ desired' # desired
  /\ endpoint' = 0
  /\ UNCHANGED <<epoch, clientVars>>

UntimedStep ==
  \/ WaitTimesOut \/ WaitPoll \/ WaitSeen \/ WaitDetails \/ WaitEmit
  \/ ResumeStatus \/ ResumeStart \/ ResumeNotify \/ ResumeBackoff
  \/ ConnectDetails \/ ConnectDial \/ IdleTest

Step == (UntimedStep /\ UNCHANGED clocks) \/ ExecRuns \/ IdleQuery

Call == WaitReady \/ Resume \/ Connect \/ Exec \/ IsIdle

Next == Step \/ ((Call \/ Publish \/ Withdraw \/ Lose) /\ UNCHANGED clocks) \/ Age

(* API calls and connection attempts have timeouts.                        *)
Spec == Init /\ [][Next]_vars /\ WF_vars(Step)

-----------------------------------------------------------------------------
(* No operation outlives its timeout by more than the calls and the sleep  *)
(* under way when it passes: one poll for wait_ready, one more status and  *)
(* start for a resume (pod.py:56-79, lifecycle.py:455-491, cli.py:884-924).*)
OperationBounded ==
  elapsed <= Patience + (IF Interval > 2 * CallTime THEN Interval + CallTime ELSE 3 * CallTime)

(* A pod already failed or terminated when the operation began is never    *)
(* reported ready, resumed or connected, even when status lookups fail.    *)
DeadStaysDead ==
  began.dead => outcome \notin {"ready", "resumed", "connected", "ran"}

(* At most one start request is sent at or after the deadline, slow calls  *)
(* and slow hooks notwithstanding (lifecycle.py:455-491).                  *)
AtMostOneLateStart == late <= 1

(* A pod is called idle only when, for the threshold, it has neither been  *)
(* new to its object nor ended a command of the caller, whatever queries   *)
(* of is_idle itself came in between (pod.py:104-121).                     *)
IdleIsUnused == outcome = "idle" => unused = Threshold

(* Every operation comes back, whatever the provider does.                 *)
OperationEnds == outcome = "open" ~> outcome # "open"

-----------------------------------------------------------------------------
(* Claims of the documentation that the code does not keep; the README     *)
(* describes the counterexamples.                                          *)

(* README.md:175-180 resumes a Pod object and then waits for it: once      *)
(* wait_ready has returned, a port that was published all along is the one *)
(* the object connects to.                                                 *)
ReadyMeansReachable ==
  outcome = "ready" /\ endpoint # 0 /\ endpoint <= began.endpoint => details = endpoint

(* "keep refreshing SSH details until the bounded timeout expires"         *)
(* (cli.py:882): connecting gives up only after its timeout.               *)
ConnectKeepsTrying == outcome = "noDetails" => elapsed >= Patience

(* A LaunchFailure is "raised when a pod cannot be provisioned or becomes  *)
(* unusable while starting" (errors.py:11): a resume does not end with one *)
(* after the provider confirmed the start of a pod that is running.        *)
FailureMeansNotStarted ==
  outcome = "failed" /\ started => desired # "RUNNING"

=============================================================================
