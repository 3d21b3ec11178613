# A verification of runpod-lifecycle

TLA+ modules for `runpod-lifecycle`, the library and command line that launch, use and
terminate GPU pods at RunPod. Its first subject is *custody*: the program rents machines by the
minute through an HTTP API whose answers may be lost or late, from coroutines that may be
cancelled and processes that may die, so the question asked of almost every part is whether
it can hold two pods instead of one, leave one behind unmentioned, or report something about
a pod that is not so. The second is what several such processes do to one *shared volume*: the
build lock, the prebuilt environment it guards, the model assets and reports it does not.
Paths below are relative to the repository root; `lifecycle.py` and the
like stand for `src/runpod_lifecycle/lifecycle.py`. `PROJECT.json` maps every definition to
the lines it models.

## The system

| part | state it keeps | operations | what is hard | what makes it correct |
| --- | --- | --- | --- | --- |
| launch and retry (`lifecycle.py`, `api.py:create_pod`, `storage.py`) | none between calls; attempted pairs, resolved candidates and expanded volumes within one | `launch`, `launch_when_available` | a create whose answer is lost may have made a pod; hooks raise; tasks are cancelled while a thread creates; volumes grow again in every retry | one pod at most, a truthful ending, no pair skipped, bounded waiting and growth |
| termination (`api.py`, `pod.py`, `discovery.py`) | none: the provider's | `Pod.terminate`, `discovery.terminate`, `reconcile_pod_cleanup` | a DELETE is accepted before the pod is gone; the listing lags; several callers at once | success means gone (after an early 404: going), "pending" means accepted, and pending resolves |
| pod session (`pod.py`, `lifecycle.py`, `cli.py`) | `_ssh_details`, `_last_exec_at` | `wait_ready`, `exec_ssh`, `is_idle`, `resume_when_available`, `_connect_builder_ssh` | snapshots acted on after a hook; ports that move; lookups that fail; an activity timer renewed by the query that reads it | bounded, never "usable" for a dead pod, never "idle" for one just used |
| ship and run (`runner.py`, `guard.py`) | the guard: pod, timer task, breach log | `ship_and_run`, `PodGuard` | watchdog and coroutine share an event loop that blocking uploads stop; threads outlive cancelled awaits | a result tells the truth about the pod; no pod runs for ever |
| detached run (`runner.py`) | script, exit marker and job on the pod | `ship_and_run_detached` | jobs outlive sessions; sessions share paths; the marker is polled before the job has begun | an exit code is one that was written; the timeout is kept |
| build lock (`prebuilt.py`) | a lock file on a shared volume | `acquire_build_lock` and the `_release` it returns | shell scripts of several pods interleave; holders die; clients give up on scripts that go on | mutual exclusion, and a dead holder does not block for ever |
| pod-owning commands (`cli.py`) | `pod_obj`, `failed_pod` | `launch`, `prebuilt build`, `inspect`, `invalidate`, `check`, `reconcile` | replacement loops, Ctrl-C, errors in `finally` | no pod is left behind unmentioned |
| account sweeps (`guard.py`, `discovery.py`, `cli.py`) | `--known-ids-file` | `prune_pods_by_prefix`, `prebuilt cleanup`, `find-orphans --terminate` | the listing ages while owners act | young and owned pods are spared, and nothing is forgotten |
| synchronous fallbacks (`api.py`) | none | `create_pod_with_fallbacks` | a second rule for which errors permit another create | one pod at most but for errors the rule misreads, honest exhaustion |
| prebuilt cache (`prebuilt.py`, `cli.py`) | two bundles and the manifest on the volume, with their `.staging` files | `build`, `invalidate`, `inspect`, the reads of `check` | builds die between any two files; scripts outlive the client that holds the lock; `invalidate` and `check` take no lock | files appear whole, the manifest describes what lies beside it, a check never goes back to an older bundle, the last success stands |
| model assets and health report (`cli.py`, `prebuilt.py`) | asset files and `health.json` on the volume | `prebuilt reconcile`, the asset probe and the report of `check` | no lock at all; transfers go on after their client's timeout; one staging path for all checks | what was reconciled is found, who left a file incomplete says so, the last report stands |
| volume selection (`prebuilt.py`, `storage.py`) | none | a volume by name and data center | the name is resolved twice, by different rules | the commands work on the volume of their data center |
| pure parts: `df` and health thresholds, RAM tiers, safe extraction, capacity probe, configuration | none | | | not modelled, see the plan |

How they interact: `ship_and_run`, `ship_and_run_detached` and the commands call `launch` and
`Pod.terminate`; the build holds the build lock
while it replaces bundles and manifest over SSH; `check`, `reconcile` and `invalidate` work on
the same volume without it; `PodGuard`
terminates behind the back of the coroutine it guards; sweeps terminate pods of all of them.
Every blocking call goes through `asyncio.to_thread`, so *cancelling a task does not cancel
the request its thread has begun*; hooks are awaited between any two steps.

## The modules

| module | models | extends / composes |
| --- | --- | --- |
| `Custody` | abstract: what acquiring a pod promises a caller | |
| `Launch` | one call of `launch_when_available` with everything below it | implements `Custody` |
| `Teardown` | abstract: what terminating a pod promises its callers | |
| `Terminate` | `terminate_pod` and `reconcile_pod_cleanup` for one pod, many callers | implements `Teardown` |
| `BuildLock` | the acquire script command by command, release, deaths | |
| `PrebuiltVolume` | builders, an invalidation and a check on the three files of the environment | `L == INSTANCE BuildLock` takes its steps; shown to implement it |
| `ModelAssets` | `reconcile` and `check` on the asset files and the health report | |
| `ShipAndRun` | `ship_and_run` with `PodGuard` on one event loop | takes launching and terminating at the level of the modules above |
| `DetachedRun` | `ship_and_run_detached`: sessions, jobs, script, marker | |
| `PodSession` | one `Pod` object and the pod behind it | |
| `PodCommand` | the commands that own pods, with Ctrl-C, and the volume they choose | as `ShipAndRun` |
| `Sweep` | prune, cleanup, find-orphans | |
| `Fallbacks` | `create_pod_with_fallbacks` | implements `Custody` |
| `MCLaunch`, `MCTerminate`, `MCBuildLock`, `MCPrebuiltVolume`, `MCModelAssets`, `MCPodCommand`, `MCSweep` | instances for TLC | their module; `MCLaunch` and `MCBuildLock` through its proofs |
| `LaunchProofs`, `BuildLockProofs`, `PrebuiltVolumeProofs`, `PodSessionProofs`, `FallbacksProofs` | theorems and proofs | their module |
| `TerminationProofs` | theorems and proofs | `Terminate` and `Sweep` |
| `RunnerProofs` | theorems and proofs | `ShipAndRun` and `DetachedRun` |
| `CommandProofs` | theorems and proofs | `PodCommand` and `ModelAssets` |

The last three prove things of two models each. That is why one of the two has names of its own
(`SweepInit`, `DetachedNext`, `AssetsTypeOK`, ...) where the other has the plain ones.

A definition whose comment begins with "Fault:" is a mutation of the definition after it. No
specification uses it; it serves to check that a property notices the bug.

### State and actions, module by module

**Launch.** `pc` is the await the coroutine is at. `Announce` emits the hook and starts a
walk; `ResolveStorage` resolves volumes to `storage_targets`, and `{0}` stands for the pair
`(None, None)`; `NextCandidate`, `ResolveGpu`, `NextPair` and `Expand` are the nested loops of
`launch` and `_try_launch_one_gpu` with `check_and_expand_storage`, where several volumes
never change order; `IssueCreate` hands the request to a thread; `CreateReturns` and
`CreateRaises` are its answers. An error is abstracted to what the code asks of it, whether it
is a transport error and whether its text carries a capacity marker; a transport error leaves
the request in `inflight`, and `LateDecision` lets the provider decide it whenever it likes.
`LaunchFails`, `Backoff` and `Sleep` are the retry loop; `Cancel` may strike at every await.
`UncaughtRaises` are the hooks, the public key and the lookups whose exceptions nobody catches.

**Terminate.** Each caller is at `delete`, `verify`, `sleep` or an `emit`. The provider turns
`up` into `stopping` or `gone`, finishes deletions later (`FinishDeletion`) and forgets the id
in its listing later still (`Unlist`). A cancelled caller's DELETE stays under way
(`AbandonedDelete`). `DeleteNotFound` is the 404 that ends the call without a verification; the
provider gives it for a pod that is gone, or for one that it is still removing on somebody's
request, and the history variable `disowned` remembers the latter.

**BuildLock.** `test`, `stat`, `remove`, `create` are the commands of the script
(`prebuilt.py:955-977`). `GiveUp` is the client's 60 s timeout: the script goes on and may
still create the file. `Release` removes the file whoever made it. Ages are counted up to the
TTL, beyond which nothing tells them apart.

**ShipAndRun.** The places are the awaits of the body; `UploadSucceeds` and `CommandReturns`
differ from `PhaseSucceeds` by what may interrupt them: at `upload` the event loop is blocked
(`LoopBlocked`), so neither watchdog nor cancellation is enabled there. `LateCreate` is the
thread of a cancelled launch, `StrayDelete` that of a cancelled terminate.

**PrebuiltVolume.** `at` is the command a build's client is at, `script` how far the remote
script of that command has come: `fill` (tar or cat writes the staging file), `sum` (sha256 of
a bundle), `move` (rename to the final path). `staging` and `final` hold, per path, whose file
is there and whether it is whole; `sums` is the digest each build captured, as the file it was
taken of. `Locking`, `Tick`, `Release` and `Die` are the actions of `BuildLock` with what they
mean for the build; a script goes on when its client gives up, releases or dies, until
`PodGone`. `Remove` is `invalidate`, file by file and without the lock. `reader` is a `check`:
manifest, test of the bundles, extraction of one and the other, probes. `before`, `loose`,
`crowded` and `swept` are history: whose builds had begun when a builder got the lock, a lock
released under a running script, two builders at work at once, something invalidated.

**ModelAssets.** `jobs` are the remote scripts: `test`, `curl`, `transfer` of a fetch, `open`,
`fill`, `move` of a report. A file is absent, partial, whole or, after two transfers into it,
mixed; `writer` is history, the transfer that began last on each path. `FetchPlan` is
`_asset_fetch_plan`, as the positions of the named entries that no equal entry precedes;
`Current` is the entry the client has turned to, and `Planned` whether its position is in the
plan. `Reconcile`, `SkipEntry`, `SendFetch`, `FetchTimesOut` and `FetchesEnd` are the client,
which a script that ends answers only if it still waits. `Check` and `Probe` look for the same
entries, or skip them when the manifest or the runtime was missing. A report knows which *file*
it is in, because a script writes to the file it opened, wherever another check has moved it
meanwhile. `blind` and `covered` are history: a test that was not answered, the entries
reconciled when a check began.

**DetachedRun.** `script` and `marker` say whose file lies at the shared paths. A job is
`starting` until its shell has run `rm -f` of the old marker, `running`, and `ended` once it
wrote its own. `Raises` stands for every failing command before the loop.

**PodSession.** The provider's `desired`, `endpoint` and `epoch` change at any time
(`Publish`, `Withdraw`, `Lose`); `details` is the cache. One operation runs at a time, as the
callers in `cli.py` do it; each splits at every await. `quiet` is the time since
`_last_exec_at`, which every command renews when it ends, the query of `is_idle` too; `unused`
is the time since the caller's own last command. Both stop at the threshold, beyond which
nothing tells times apart; `Age` lets time pass between operations.

**PodCommand.** `kind` chooses the command: "build" with its replacement loop, "inline"
(inspect, invalidate), "probe" (check, reconcile through `_launch_prebuilt_probe_pod`), "hold"
(launch) and "claim" (launch --probe-only). `alive` and `leaving` are what the provider has;
`warned` are pods the command printed something about. `listing` is the account's volumes as
the provider lists them; `Selected` is the choice by name and data center that a command
begins with, `Resolved` that of the launch, by name alone; `inspect` and `invalidate` make only
the second. The remote work is one step that succeeds or fails: `PrebuiltVolume` and
`ModelAssets` have its detail.

**Sweep.** A listing reports, per pod, an uptime or none, and a creation time or none. `kills`
remembers each termination sent to a live pod with the pod's true age. A second sweep acts on
the pods of the first like an owner who terminates them (`OwnerTerminates`), so one sweep is
checked; the module allows any number. Without `--older-than` a sweep filters nothing
(`NotGiven`); an explicit 0 drops the pods without an uptime, as any other number does.

**Fallbacks.** Passes over resolved GPU x volume combinations; `PermitsAnother` is
`_is_capacity_error`, a test of the text alone. `Decide` is the provider, which makes a pod of
a request or refuses it, while the call waits or after; `CreateReturns` needs the pod, a
refusal by the provider needs that there is none, and any other error says nothing. A transport
error whose text carries a marker passes for a refusal, and the walk goes on: `misread` is the
history of the requests lost so (`Loses`), each of which may become a second pod. The refinement
of `Custody` speaks of all other pods. `Told` maps the end of the call to the reports of
`Custody`: any error but "exhausted" and "unresolved" counts as `AllocationUnknown` there, since
its type tells the caller no more.

**Teardown** and **Terminate.** The refinement keeps `pod`, `asked` and `disowned` and maps
`answer` to `outcome`. Places, listings, waiting times and abandoned DELETEs are internal; a place
passed is a stutter.

## Assumptions about the world outside

They are the external definitions of the map, taken from how the code uses RunPod:

- A create request makes at most one pod; an answered refusal makes none; one that times out
  may do either, later.
- A DELETE may be acknowledged before it takes effect. The listing may show a pod that is gone
  but never omits one that exists: `_wait_for_pod_absence` rests on that.
- A DELETE is answered 404 only once somebody's deletion of the pod was accepted: the pod is gone
  or being removed. `Terminate` has both cases. `ShipAndRun`, `PodCommand` and `Sweep`, which have
  one deletion where `Terminate` has all its answers, take a success of it for the pod being gone.
- Any error may carry any text: neither `Launch` nor `Fallbacks` assumes that a transport error
  quotes none of `_CAPACITY_ERROR_MARKERS`.
- A remote command whose client timed out goes on (`ssh.py:157`), until its pod is gone.
- A rename on the volume is atomic and a process that has a file open keeps writing to it under
  its new name. The volume's clock, by which locks age, is one clock for all pods.

## What the runs check

Every passing run's properties have a mutant in `PROJECT.json`: the mutated definition breaks
the property under the same configuration.

| run | shows | distinct states |
| --- | --- | --- |
| `launch` | `KeepsCustody` (refinement of `Custody`), `NoSkippedPair`, `OneGrowthPerLaunch`, `GrowthBounded`, `AtMostOneLateLaunch`, `CallReturns` | 640,562 |
| `terminate` | `AckMeansGone`, `KeepsTeardown` (refinement of `Teardown`), `CallsReturn`, `PendingResolves` | 176,886 |
| `build_lock` | `ExclusiveUntilStale`, `DeadLockGoes` | 225,201 |
| `ship_and_run` | `TerminatedMeansGone`, `NoSilentSurvivor`, `KeepMeansKept`, `WatchdogLimitsRuntime` | 646 |
| `detached_run` | `ExitIsReal`, `TimeoutKept` | 3,234,599 |
| `pod_session` | `OperationBounded`, `DeadStaysDead`, `AtMostOneLateStart`, `IdleIsUnused`, `OperationEnds` | 182,734 |
| `pod_command` | `NoSilentPod`, `AtMostOneLateBuild`, `RightVolume`, `CommandEnds` | 9,156 |
| `sweep` | `OwnedIsSpared`, `UptimeProtects`, `SweepIsComplete` | 5,030,616 |
| `fallbacks` | `KeepsCustody` (refinement of `Custody`), `ExhaustedIsHonest` | 312,610 |
| `prebuilt_volume` | `LockKeepsApart`, `PublishedIsWhole`, `ManifestMatchesBundles`, `NeverOlder`, `LastBuildStands` | 3,981,618 |
| `model_assets` | `ReconciledIsFound`, `IncompleteIsReported`, `ReportStands` | 6,616,412 |
| `pod_command_probe_pod` | violation of `ProbePodIsShortLived` | |

The type invariants are proved for all eleven models that are not abstract (below) and are left
out of the configurations.

### Bounds, and why they are enough

- `Launch`: 2 candidates x 2 tiers x (none or 2 volumes) is the smallest matrix in which order,
  skipping and sharing of a volume between pairs and candidates can go wrong; `MaxWait = 5`
  with `Interval = 2` and calls of length 0 or 2 leaves room for three launches before the
  deadline, and for the last of them to begin exactly on it, before or after it. One of the
  volumes starts below the free minimum. Nothing else is bounded: the deadline ends the call.
- `Terminate`: three callers allow a DELETE racing a verification racing a reconciliation;
  `Timeout = Poll = 1` lets a verification list several times and time out.
- `BuildLock`: a stale takeover needs two scripts and the holder they replace; `TTL = 2`
  distinguishes fresh, older and stale; two failures allow a dead holder and an abandoned
  script together.
- `PrebuiltVolume`: two builders, interchangeable (nothing tells them apart but their
  identity, so the symmetry is sound), are the two that can meet; with an environment of before
  or without it there are three makers of a file. `TTL = 1` lets a lock go stale while its
  holder's script runs, one failure leaves a dead holder's script behind. The constraint
  `NotCrowded` cuts behaviours off once two builders have been at work at once: four of the
  properties claim nothing from there on, and `LockKeepsApart` is checked in the state in which
  it happens. The proofs have neither bound.
- `ModelAssets`: three interchangeable commands, so that two can publish behind a third;
  one timeout or death; manifests in which an entry comes twice, two entries share a path or a
  name, and entries lack a path, a URL or a name.
- `ShipAndRun`: `MaxCancels = 2` delivers one cancellation to the body and one to `finally`.
- `DetachedRun`: a second session suffices for a foreign marker and a foreign script; timeouts
  allow two polls.
- `PodSession`: three endpoints allow two moves of the port; `Patience = 3`, `Interval = 2`
  put polls before, at and after the deadline; `Threshold = 2` separates just used, used for a
  while and idle.
- `PodCommand`: two signals interrupt the work and then `finally`; `Patience` as above allows
  several unready builders. `Listings` holds no volume, the right one, one of the name in
  another data center only, and two of the name with the right one last.
- `Sweep`: two pods under two prefixes, so that one listing precedes the other; `OlderThans`
  holds `NotGiven`, 0, and 3, one above `RegisterDelay + ListDelay`. With 2 or 1 instead an
  owned pod is terminated, so the bound `OwnedIsSpared` states is the exact one. Time ends at
  3, when a pod can have reached the largest age asked for.
- `Fallbacks`: 2 x (none or 2) combinations in 2 passes (the default is 5), one to miss and one to
  repeat: up to eight requests, any of which may be misread and decided whenever the provider
  likes.

`CHECK_DEADLOCK FALSE` appears where a call or a command really ends. `BuildLock`,
`PodSession` and `PrebuiltVolume`, whose checks and invalidations go on, do not stop, and
deadlock is checked there.

### Fairness

Weak fairness is assumed of steps the code's own timeouts guarantee, and of nothing else:
HTTP calls have 30 s timeouts, sleeps end, so a running call takes its next step
(`Launch`, `Terminate`, `PodSession`, `PodCommand`, `Fallbacks`, `Sweep`, `DetachedRun`). Not
assumed: that an operator answers a prompt, that a job ends, that a remote step of
`ship_and_run` is answered, that anyone presses Ctrl-C, that a lost request is ever decided.
Beyond that: in `Terminate` the provider finishes what it accepted and the caller told
"pending" comes back to reconcile, as `README.md` asks (`PendingResolves` is conditional on an
accepted deletion); in `BuildLock` scripts and builds end, clocks tick and builders try
again; in `ShipAndRun` the teardown and the watchdog's timer are fair, and uploads end.
The last is an assumption the code does not enforce: see `SpecHangingUpload` below.
`PrebuiltVolume` and `ModelAssets` state safety only, and assume no fairness.

## What is proved

TLAPS proves, for every value of the constants:

- `LaunchProofs`: `TypeCorrect`, `SingleAllocation`, `TruthfulFailure`, `BoundedWait`,
  `GrowthIsBounded`, `OneGrowth`, `NothingSkipped`, and `LaunchKeepsCustody`, that `Launch`
  implements `Custody`. From
  `LaunchAssumption` alone (numbers are natural, `Interval` positive, `Durations` not empty).
  Neither custody invariant is inductive: that the provider has at most one pod says nothing
  about requests under way. `IInv` adds `Holdings`: at every place from which another create
  can be issued the provider holds and owes nothing; at `create` it owes exactly the last
  request; everything allocated or owed is the last request. `Lateness` does the same for the
  deadline: once a launch began late, the places that lead to another launch are out of reach.
  `Indices` keeps the walk in its matrix. Growth is proved from its own bound and the
  arithmetic lemma `GrownBounded`; that a launch grows a volume once, from `Growth`, which says
  that a volume grown since the launch began is among the expanded ones; that no pair is
  skipped, from `Walked`, which says that every pair the walk has passed was attempted. The
  refinement has one lemma per kind of step: a step that changes `allocated` or
  `outcome` is `Allocate` or `Report`, all others stutter.
- `TerminationProofs`, of `Terminate`: `TypeCorrect`, `AcknowledgementIsTrue`, `PendingIsTrue`,
  `ReconcileIsReadOnly` and `TerminateKeepsTeardown`, that `Terminate` implements `Teardown`, for
  any set of callers, timeout and polling interval. The invariant relates each caller's place to
  the provider: past its DELETE the pod is no longer up, past the listing that missed it the pod
  is gone, past a 404 gone or, for a caller in `disowned`, on its way out; an abandoned DELETE
  belongs to a caller that asked, and an unlisted pod is gone.
  `Teardown` needs `Answering` besides: a call that runs has no answer yet, one that terminates
  has asked, and one that asked and reconciles does so after the deletion was accepted.
- `TerminationProofs`, of `Sweep`: `SweepTypeCorrect`, `OwnersAreSpared`, `UptimesProtect`,
  `SweepsAreComplete`, for any pods, sweeps, prefixes, ages and delays. `PodTimes` orders the
  times of a pod (name, creation, start, clock); `InDelay` says that an owner who is in time has
  registered by its delay, because time does not pass it; `KnownInTime` that an owned pod missing
  from the ids a sweep read was at most that old when it read them; `Selection` what follows
  from that for the pods selected, and that they only get older; `Complete` that a pod a sweep
  is for is selected once its prefix is listed, and failed or gone once the sweep is done.
- `BuildLockProofs`: `TypeCorrect` and `LockExcludes`, for any set of builders and TTL.
  `ExclusiveUntilStale` is strengthened by `FreshFile` (while nothing was stale the file's age
  is below the TTL) and `NoRemoval` (while nothing was stale no script is about to remove a
  file), which carry the exclusion over the interleaving of two scripts.
- `PrebuiltVolumeProofs`: `ImplementsLock`, that every behaviour is one of `BuildLock`, by a
  lemma per step, so that the lock's own invariant comes from its proof
  (`Lock == INSTANCE BuildLockProofs`) and is not repeated; then `TypeCorrect`,
  `BuildersAreApart`, `WholeFilesOnly`, `ManifestDescribes`, `ChecksGoForward` and
  `LastBuildWins`, for any set of builders, TTL and number of failures. The argument:
  `WorkerOwnsLock` (while no lock went stale or loose, whoever works owns the file, even its
  script after its client's death), hence `Alone`; a lone worker's staging file is its own
  (`StagingIsOwn`), so what it moves is whole and what it has moved stays until somebody else
  works or invalidates (`PublishedSoFar`); whoever works is the latest to have got the lock
  (`WorkerIsLatest`), and the order of publication gives the rest (`ManifestIsLast`,
  `BundlesFollow`).
- `RunnerProofs`, of `ShipAndRun`: `TypeCorrect`, `TerminatedIsTrue`, `SurvivorsAreReported`,
  `KeptIsKept`.
  `Unlaunched`, `Bound` and `Armed` relate pod, guard and timer to the place of the coroutine,
  whatever was cancelled; `Kept` says that without `terminate_after_exec` nobody ever sends a
  DELETE, the watchdog included.
- `RunnerProofs`, of `DetachedRun`: `DetachedTypeCorrect`, `ExitCodeIsWritten`,
  `PollingEndsInTime`, for any number of sessions and all durations. `Origins` says that the
  marker, and with it a result, is of a job that ended, and that whoever owns a script on the
  pod, or one that a job ran, has got past its preparation; `InTime` bounds the time of a
  session that sleeps by the timeout and the one poll it may have begun before it.
- `PodSessionProofs`: `TypeCorrect`, `TimeoutsHold`, `OneLateStart`, `DeadIsDead`,
  `IdleMeansUnused`. `OnTime` bounds the time at every place by what may still follow it,
  `LateEnds` shuts the way back to another start, `DeadKnown` carries a dead status from the
  snapshot to the answer, and `IdleKnown` says `quiet <= unused`: the timer errs on one side.
- `CommandProofs`, of `PodCommand`: `TypeCorrect`, `NothingLeftUnsaid`, `BoundedBuild`,
  `VolumeIsRight`. A pod nobody was warned of is the one the command answers for or the one it
  is dropping (`Custody`, `Accounted`), unless an interrupt cut a launch or a terminate short;
  `LastLaunch` and `VolumeKnown` are the strengthenings of the other two.
- `CommandProofs`, of `ModelAssets`: `AssetsTypeCorrect`, `WhatIsReconciledIsFound`,
  `WhatIsIncompleteIsReported`, `LastReportStands`, for any commands and manifests. `FetchJobs`
  says that a fetch script works for a client that waits for it, reported its entry failed or
  died, and `Begun` that a transfer under way has made its file; `Writers`, that an
  incomplete file has a writer and that the transfer that goes on there is the one that began
  last, so that its end is that writer's fault; `Passed`, that every named
  entry a reconcile has passed is there or among its faults (one that the plan leaves out equals
  one passed before), and that what was reconciled when a check began is there; `OnePublisher`,
  that without an overlap at most one script publishes, for the latest check, and the staging
  file is its own.
- `FallbacksProofs`: `TypeCorrect`; `SingleAllocation`, `HonestExhaustion` and
  `FallbacksKeepCustody`, that `Fallbacks` implements `Custody` for all requests but the misread
  ones, from `FallbacksAssumption` alone. `OneRequest` is the custody of the one request, not
  misread, that is under way or has become a pod; `Counted` relates the misses of a pass to the
  place in the walk, whatever they were.

Each proof has the usual three facts, `Init => IInv`, `IInv /\ [Next]_vars => IInv'` and
`IInv => Inv`, with one lemma per conjunct and one step per action; a refinement adds that each
step, from states of the invariant, is one of the abstract specification or a stutter.
`MCLaunch` and `MCBuildLock` extend the proof modules, so that the invariants can be tried with
TLC too; those of `Sweep`, `DetachedRun` and `ModelAssets` hold on the instances of the runs.

Every safety property of a passing run is proved. Only model-checked: liveness, with everything
under fairness, which is outside what TLAPS proves: `CallReturns`, `CallsReturn`,
`PendingResolves`, `DeadLockGoes`, `WatchdogLimitsRuntime`, `OperationEnds`, `CommandEnds`.

## Where documentation and code part

The violation run, with the quotation in `PROJECT.json`:

- `pod_command_probe_pod`: `_launch_prebuilt_probe_pod` loses its pod when `wait_ready` raises.

### Other divergences

These claims are stated in the modules and do not hold either; put the name into the
configuration's `INVARIANTS` to get the counterexample.

| definition | claim | what happens |
| --- | --- | --- |
| `BuildLock!OneLiveHolder` | `prebuilt.py:949`: "if the lock is held by another live holder" | two scripts that both found a stale file run `rm -f` one after the other's exclusive create, and a release removes the successor's file; exclusion holds until a lock outlives its TTL (`ExclusiveUntilStale`) |
| `Fallbacks!OthersAbort` | `api.py:311`: "Non-capacity errors abort immediately" | a transport error whose text carries a marker counts as a capacity error (`api.py:391`), unlike in `launch` (`lifecycle.py:177`): the next create goes out while this one is undecided, and both may become pods (`KeepsCustody` excepts them) |
| `Terminate!AckIsVerified` | `api.py:731`: "return only after provider-side deletion is verified" | a 404 ends the call at once (`api.py:747`); given while another's deletion is under way, it reports a pod terminated that is still stopping (`AckMeansGone` excepts it) |
| `ShipAndRun!PodTerminatedInFinally` | `runner.py:106`, on the default `terminate_after_exec=True` | a coroutine cancelled during its launch returns `terminated=True`, and the pod its thread creates stays up |
| `ModelAssets!HealthIsAtomic` | `prebuilt.py:369`: "Persist `env.health.json` atomically" | two checks share one staging file, and the report published may hold words of both |
| `ModelAssets!HydratedMeansWhole` | `README.md:314`: "Reconcile launches a short-lived pod only to hydrate model assets" | `test -f` takes the partial file of an earlier transfer for present, and the command exits 0 |
| `PodCommand!NoCreateWhileCleaning` | `errors.py:80`: "issuing a new create while cleanup is unresolved would violate provider-resource custody" | `build` warns about a pending cleanup of an unready builder and launches the next (`cli.py:1629`) |
| `PodCommand!CtrlCTerminates` | `cli.py:436`: "Press Ctrl-C to terminate" | under `asyncio.run` the sleep is cancelled, `except KeyboardInterrupt` does not run, and the pod stays |
| `DetachedRun!ExitIsOwn` | `runner.py:233`: "Run remote_script detached on a new pod or an existing pod" | the old marker is removed by the background shell, which the first poll may overtake: an earlier session's code is returned |
| `PodSession!ReadyMeansReachable` | `README.md:175-180`, a resume followed by `wait_ready` | the cached SSH details of before the stop are trusted |
| `PodSession!ConnectKeepsTrying` | `cli.py:882`: "keep refreshing SSH details until the bounded timeout expires" | missing port metadata ends the loop at once |
| `PodSession!FailureMeansNotStarted` | `errors.py:11`, on `LaunchFailure` | a STARTING hook that raises turns a confirmed start into a failure |
| `Sweep!PruneSparesYoung` | `guard.py:229`: pods that "have aged past stale_age_sec" | without an uptime, the time in the name counts, which is older than the pod after a wait for capacity |
| `ShipAndRun!WatchdogLimitsRuntime` under `SpecHangingUpload` | `guard.py:22`: "Watchdog that auto-terminates a pod" | `sftp.put` hangs on the event loop's own thread, and the watchdog with it |

Met while modelling, and not stated as properties:

- `prebuilt build --force` ("Continue past lock-busy errors", `cli.py:2342`) is never read.
- `check` compares versions and never digests, so bundles newer than the manifest it read, of
  two builds, may pass it; `NeverOlder` says that they are never older.
- An asset without a name is dropped by the fetch plan and probed by `check` all the same; a
  `test -f` that times out counts as a missing file.
- `inspect` and `invalidate` find the volume by its name alone. Where a name occurs in two data
  centers, the launch of the other commands resolves it again by name alone as well, and then
  attaches whichever comes first (`RightVolume` says what holds).
- `is_idle` renews the timer it reads: of two callers that poll for idleness, each sees the
  other's query as use.

## Not modelled

Wording, logging, tables and redaction. Configuration parsing, the capacity probe and SSH key
loading: no behaviour over time. `check_storage_health`, single uploads and downloads: one
round trip each. `reconcile --pod-id` as far as pods go, since it attaches and never
terminates (its scripts, which outlive it, are in `ModelAssets`). `build --storage-volumes` and
the selection of a volume by profile prefix. The health probes other than that of the assets,
which are read-only commands mapped to issues. `df`, thresholds, safe extraction. A hook that
itself raises a `LaunchFailure` (which the retry loop would take for its own). The content of
what is shipped.

## Plan

Done, in this order, the most important first: `Launch` with `Custody`, `Terminate`,
`BuildLock`, `ShipAndRun`, `DetachedRun`, `PodSession`, `PodCommand`, `Sweep`, `Fallbacks`, then
`PrebuiltVolume` over `BuildLock`, `ModelAssets`, `is_idle`, volume selection, and the proofs
listed above.

Left:

1. `Teardown` and `Custody` in place of the restated termination and launch steps of
   `ShipAndRun` and `PodCommand`, or those two shown to implement them.
2. Pure operators checked against reference definitions: RAM tiers, storage health and `df`,
   safe extraction, probe ranking.
