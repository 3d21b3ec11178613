----------------------------- MODULE DetachedRun -----------------------------
(***************************************************************************)
(* ship_and_run_detached of runner.py: sessions that start a background    *)
(* job on one pod and poll an exit marker.  A session may provision the    *)
(* pod or reattach to it while jobs of earlier sessions still run; all     *)
(* sessions share the paths of the script and of the marker.  A job        *)
(* outlives the session that gave up on it.                                *)
(***************************************************************************)
EXTENDS Naturals

CONSTANTS
  Sessions,   \* calls of ship_and_run_detached on the pod
  Nobody,     \* no file
  Timeout,    \* timeout
  Interval,   \* poll_interval
  ExecLimit   \* the 60 s a poll command may take

ASSUME DetachedAssumption ==
  /\ Nobody \notin Sessions
  /\ Timeout \in Nat /\ Interval \in Nat \ {0} /\ ExecLimit \in Nat

VARIABLES
  host,      \* provider: "none", "up", "gone"
  script,    \* whose script is at remote_script_path
  marker,    \* whose exit code the marker holds
  job,       \* the background job of each session
  ran,       \* whose script each job ran
  at,        \* where each session is
  terminators, \* sessions called with terminate_after_exec
  guard,     \* sessions that provisioned the pod and run its watchdog
  elapsed,   \* time each session has been polling
  results    \* how each session ended, and whose exit code it returned

remoteVars == <<script, marker, job, ran>>
sessionVars == <<at, elapsed, results>>
detachedVars == <<host, remoteVars, sessionVars, terminators, guard>>

SessionPlaces == {"idle", "prepare", "script", "chmod", "launch", "poll", "sleep",
                  "download", "finally", "done"}
Endings == {"open", "exit", "124", "130", "code", "raise"}

Markers == Sessions \union {Nobody}

DetachedTypeOK ==
  /\ host \in {"none", "up", "gone"} /\ script \in Markers /\ marker \in Markers
  /\ job \in [Sessions -> {"none", "starting", "running", "ended", "killed"}]
  /\ ran \in [Sessions -> Markers] /\ at \in [Sessions -> SessionPlaces]
  /\ terminators \subseteq Sessions
  /\ guard \subseteq Sessions /\ elapsed \in [Sessions -> Nat]
  /\ results \in [Sessions -> [how : Endings, of : Markers, terminated : BOOLEAN]]

DetachedInit ==
  /\ host \in {"none", "up"} /\ script = Nobody /\ marker = Nobody
  /\ job = [s \in Sessions |-> "none"] /\ ran = [s \in Sessions |-> Nobody]
  /\ at = [s \in Sessions |-> "idle"] /\ elapsed = [s \in Sessions |-> 0]
  /\ terminators \in SUBSET Sessions
  /\ guard = {}
  /\ results = [s \in Sessions |-> [how |-> "open", of |-> Nobody, terminated |-> FALSE]]

-----------------------------------------------------------------------------
Goto(s, place) == at' = [at EXCEPT ![s] = place]

(* Leaving the body: the finally block runs next.                          *)
LeaveBody(s, how, of) ==
  /\ Goto(s, "finally")
  /\ results' = [results EXCEPT ![s].how = how, ![s].of = of]

(* The pod goes, and with it every background job.                         *)
PodEnds ==
  /\ host' = "gone"
  /\ job' = [s \in Sessions |-> IF job[s] \in {"starting", "running"} THEN "killed" ELSE job[s]]

PodStays == UNCHANGED <<host, job>>

-----------------------------------------------------------------------------
(* config without pod: launch, attach the guard, wait_ready.  Until attach  *)
(* the finally block has no pod: a launch that raises AllocationUnknown or  *)
(* is cancelled in its thread may leave one behind.                         *)
Provision(s) ==
  /\ at[s] = "idle" /\ host = "none"
  /\ \/ /\ host' = "up" /\ guard' = guard \union {s}
        /\ \/ Goto(s, "prepare") /\ UNCHANGED results
           \/ \E how \in {"raise", "130"} : LeaveBody(s, how, Nobody)
     \/ /\ host' \in {"none", "up"} /\ UNCHANGED guard
        /\ Goto(s, "done")
        /\ \E how \in {"raise", "130"} : results' = [results EXCEPT ![s].how = how]
  /\ UNCHANGED <<remoteVars, terminators, elapsed>>

(* pod given: reattach, whatever runs there.                               *)
Reattach(s) ==
  /\ at[s] = "idle" /\ host # "none"
  /\ Goto(s, "prepare")
  /\ UNCHANGED <<host, remoteVars, terminators, guard, elapsed, results>>

(* SSH details, the GPU check and, with a local_root, the payload upload.  *)
(* A GPU check with a nonzero code is returned.                            *)
Prepare(s) ==
  /\ at[s] = "prepare" /\ host = "up"
  /\ \/ Goto(s, "script") /\ UNCHANGED results
     \/ LeaveBody(s, "code", Nobody)
  /\ UNCHANGED <<host, remoteVars, terminators, guard, elapsed>>

UploadScript(s) ==
  /\ at[s] = "script" /\ host = "up"
  /\ script' = s /\ Goto(s, "chmod")
  /\ UNCHANGED <<host, marker, job, ran, terminators, guard, elapsed, results>>

Chmod(s) ==
  /\ at[s] = "chmod" /\ host = "up"
  /\ Goto(s, "launch")
  /\ UNCHANGED <<host, remoteVars, terminators, guard, elapsed, results>>

(* The launch command goes to the background; its exec may still report a  *)
(* nonzero code (a timeout is -1) with the job on its way.                 *)
LaunchJob(s) ==
  /\ at[s] = "launch" /\ host = "up"
  /\ \/ /\ job' = [job EXCEPT ![s] = "starting"]
        /\ \/ Goto(s, "poll") /\ UNCHANGED results
           \/ LeaveBody(s, "code", Nobody)
           \/ LeaveBody(s, "raise", Nobody)
     \/ LeaveBody(s, "code", Nobody) /\ UNCHANGED job
  /\ UNCHANGED <<host, script, marker, ran, terminators, guard, elapsed>>

(* An exec_ssh or an SFTP session before the poll loop raises.             *)
Raises(s) ==
  /\ at[s] \in {"prepare", "script", "chmod", "launch"}
  /\ LeaveBody(s, "raise", Nobody)
  /\ UNCHANGED <<host, remoteVars, terminators, guard, elapsed>>

-----------------------------------------------------------------------------
(* Fault: the marker is written when the job starts.                       *)
JobStartsMarked(s) ==
  /\ job[s] = "starting"
  /\ job' = [job EXCEPT ![s] = "running"]
  /\ marker' = s /\ ran' = [ran EXCEPT ![s] = script]
  /\ UNCHANGED <<host, script, sessionVars, terminators, guard>>

(* cd remote_root && rm -f marker && nohup bash script                     *)
JobStarts(s) ==
  /\ job[s] = "starting"
  /\ \/ /\ job' = [job EXCEPT ![s] = "running"]
        /\ marker' = Nobody /\ ran' = [ran EXCEPT ![s] = script]
     \/ (* cd fails: nothing is removed or run, its code is the exit code *)
        /\ job' = [job EXCEPT ![s] = "ended"]
        /\ marker' = s /\ UNCHANGED ran
  /\ UNCHANGED <<host, script, sessionVars, terminators, guard>>

(* rc=$?; printf "$rc" > marker                                            *)
JobEnds(s) ==
  /\ job[s] = "running"
  /\ job' = [job EXCEPT ![s] = "ended"] /\ marker' = s
  /\ UNCHANGED <<host, script, ran, sessionVars, terminators, guard>>

-----------------------------------------------------------------------------

(* The head of the poll loop: the deadline is tested before each poll.     *)
TimesOut(s) ==
  /\ at[s] = "poll" /\ elapsed[s] > Timeout
  /\ LeaveBody(s, "124", Nobody)
  /\ UNCHANGED <<host, remoteVars, terminators, guard, elapsed>>

(* cat marker: an exit code ends the loop, anything else sleeps.           *)
Poll(s) ==
  /\ at[s] = "poll" /\ elapsed[s] <= Timeout /\ host = "up"
  /\ \E d \in {0, ExecLimit} : elapsed' = [elapsed EXCEPT ![s] = @ + d]
  /\ IF marker = Nobody
     THEN Goto(s, "sleep") /\ UNCHANGED results
     ELSE /\ Goto(s, "download")
          /\ results' = [results EXCEPT ![s].how = "exit", ![s].of = marker]
  /\ UNCHANGED <<host, remoteVars, terminators, guard>>

(* Fault: after a failed poll the deadline is not tested.                  *)
PollFailsUntested(s) ==
  /\ at[s] = "poll"
  /\ \E d \in {0, ExecLimit} : elapsed' = [elapsed EXCEPT ![s] = @ + d]
  /\ Goto(s, "sleep")
  /\ UNCHANGED <<host, remoteVars, terminators, guard, results>>

(* exec_ssh raises, or the command times out: as if there were no marker.  *)
PollFails(s) ==
  /\ at[s] = "poll" /\ elapsed[s] <= Timeout
  /\ \E d \in {0, ExecLimit} : elapsed' = [elapsed EXCEPT ![s] = @ + d]
  /\ Goto(s, "sleep")
  /\ UNCHANGED <<host, remoteVars, terminators, guard, results>>

Sleep(s) ==
  /\ at[s] = "sleep"
  /\ elapsed' = [elapsed EXCEPT ![s] = @ + Interval]
  /\ Goto(s, "poll")
  /\ UNCHANGED <<host, remoteVars, terminators, guard, results>>

(* With a local_root the artifacts are fetched; a failure is only logged.  *)
Download(s) ==
  /\ at[s] = "download"
  /\ Goto(s, "finally")
  /\ UNCHANGED <<host, remoteVars, terminators, guard, elapsed, results>>

(* Cancelled at an await: a command already sent goes on in its thread.    *)
Cancel(s) ==
  /\ at[s] \in {"prepare", "chmod", "launch", "poll", "sleep", "download"}
  /\ LeaveBody(s, "130", Nobody)
  /\ \/ UNCHANGED job
     \/ at[s] = "launch" /\ host = "up" /\ job' = [job EXCEPT ![s] = "starting"]
  /\ UNCHANGED <<host, script, marker, ran, terminators, guard, elapsed>>

(* finally: terminate the pod, or hand it back.  The exception of a failing*)
(* terminate replaces the result; the guard takes any "not found" text for *)
(* success.                                                                *)
FinallyBlock(s) ==
  /\ at[s] = "finally"
  /\ Goto(s, "done")
  /\ IF s \in terminators
     THEN \/ /\ PodEnds \/ (s \in guard /\ PodStays)
             /\ results' = [results EXCEPT ![s].terminated = TRUE]
          \/ /\ PodEnds \/ PodStays
             /\ results' = [results EXCEPT ![s].how = "raise"]
     ELSE PodStays /\ UNCHANGED results
  /\ UNCHANGED <<script, marker, ran, terminators, guard, elapsed>>

(* The guard of a session that terminates; otherwise it only records.      *)
Watchdog(s) ==
  /\ s \in guard /\ at[s] # "done" /\ s \in terminators
  /\ PodEnds
  /\ UNCHANGED <<script, marker, ran, sessionVars, terminators, guard>>

Step(s) ==
  \/ Prepare(s) \/ UploadScript(s) \/ Chmod(s) \/ LaunchJob(s)
  \/ Raises(s) \/ TimesOut(s) \/ Poll(s) \/ PollFails(s) \/ Sleep(s)
  \/ Download(s) \/ FinallyBlock(s)

Job(s) == JobStarts(s) \/ JobEnds(s)

DetachedNext ==
  \E s \in Sessions :
    Provision(s) \/ Reattach(s) \/ Step(s) \/ Job(s) \/ Cancel(s) \/ Watchdog(s)

(* Every command before the loop is answered or times out, and the loop is *)
(* driven by a sleep.  Jobs need not end.                                  *)
DetachedSpec ==
  DetachedInit /\ [][DetachedNext]_detachedVars /\ \A s \in Sessions : WF_detachedVars(Step(s))

-----------------------------------------------------------------------------
(* The exit code a session returns is that of a job that ended, and that   *)
(* of its own script as long as no other session has uploaded or launched  *)
(* anything on the pod, although it polls before its job has even started. *)
ExitIsReal ==
  \A s \in Sessions :
    results[s].how = "exit" =>
      /\ job[results[s].of] = "ended"
      /\ (\A t \in Sessions \ {s} : job[t] = "none" /\ at[t] \in {"idle", "prepare"})
           => results[s].of = s /\ ran[s] \in {s, Nobody}

(* The timeout is kept up to one poll and one sleep, whatever fails.       *)
TimeoutKept ==
  \A s \in Sessions : elapsed[s] <= Timeout + ExecLimit + Interval

-----------------------------------------------------------------------------
(* Claims of the documentation that the code does not keep; the README     *)
(* describes the counterexamples.                                          *)

(* "Run remote_script detached on a new pod or an existing pod"            *)
(* (runner.py:233): on a pod whose earlier sessions have all returned the  *)
(* exit codes of their own jobs, a session returns that of its own too.    *)
ExitIsOwn ==
  \A s \in Sessions :
    /\ results[s].how = "exit"
    /\ \A t \in Sessions \ {s} : at[t] = "done" /\ results[t].how = "exit" /\ results[t].of = t
    => results[s].of = s

=============================================================================
