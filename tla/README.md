# A TLA+ verification of diki-operator

diki-operator is a Kubernetes operator that runs compliance scans. This
directory holds TLA+ models of its controllers, its admission webhook and its
report exporter, TLC configurations that check them on small instances, and
TLAPS proofs about the core of the system. Paths below are relative to the
repository root.

Contents: [the system](#1-the-system), [the modules](#2-modules-and-code),
[the runs](#3-runs), [findings](#4-what-the-checks-found),
[fairness](#5-fairness), [proofs](#6-proofs),
[limits](#7-what-is-not-covered), [plan](#8-plan).

To repeat a run: `tlc -config ScanSafety.cfg MCComplianceScan`; to repeat the
proofs: `tlapm` on each module named `*Proofs`.

## 1. The system

### Components

| Component | Code | State it keeps | Operations |
|---|---|---|---|
| compliancescan controller | `internal/reconciler/compliancescan` | `status.phase` and `status.conditions` of every ComplianceScan, one ConfigMap with the diki configuration per reconciliation; in memory: informer cache, workqueue, the worker's own copy of the scan | `Reconcile`, `deployDikiConfigMap`, `handleFailedScan`, `Predicate` |
| scheduledcompliancescan controller | `internal/reconciler/scheduledcompliancescan` | the child ComplianceScans of every ScheduledComplianceScan, `status.active`, `lastScheduleTime`, `lastCompletionTime`; in memory: two informer caches, workqueue, timer of the next run | `Reconcile`, `deployComplianceScan`, `setActiveScan`, `cleanupOldScans` |
| admission webhook | `internal/webhook/compliancescan` | none | `Handle` (create: check every reference to options; update: spec is immutable) |
| diki configuration | `internal/reconciler/compliancescan/dikiconfig.go` | contents of the ConfigMap | `deployDikiConfigMap`, `getRuleOptions`, `getRulesetOptions`, `getConfigMapKeyValue` |
| report-exporter | `internal/component/reportexporter`, a separate process | `status.rulesets`, `status.outputs` of a scan, ConfigMaps with the report | `Export`, one goroutine per output, `createRulesetSummaries` |
| conditions helper | `pkg/apis/diki/v1alpha1/helper` | none | `UpdateConditions`, `ConditionBuilder.Build` |
| operator configuration | `pkg/apis/config/v1alpha1` | the configuration of a process | defaulting and validation |
| operator processes | `cmd/diki-operator`, `SetupWithManager`, `AddToManager` | the lease of the leader election; per process: whether it leads, its caches and workers | start, lead, stop |
| API objects | `pkg/apis/diki/v1alpha1`: types and generated deep copies | the memory of a process: who refers to which slice, map or pointer | `DeepCopy` |
| the rest of the generated code, charts | `pkg/apis`, `imagevector`, `charts` | none of their own | none |

### How they interact

The components share no memory. They meet in the API server:

* a user, or the scheduled controller, creates a ComplianceScan; the webhook
  must allow it first (`failurePolicy: Fail`);
* the compliancescan controller hears of it through its informer, takes it from
  no phase to `Running`, creates the ConfigMap, and takes it to `Completed`, or
  to `Failed` on any error;
* the scheduled controller owns the scans it creates, so that each of their
  events queues the parent; it reads their phases to decide whether one is
  active, which may be deleted, and when to create the next;
* the report-exporter reads a scan and patches the two status fields that no
  controller writes.

Everything the controllers read comes from informer caches that run behind the
API server. Several operator processes may run at a time: all serve the webhook, one
leads and runs the controllers. Everything they write to a status goes there as a JSON merge patch
(`client.MergeFrom`), computed against the worker's own copy and sent without
`resourceVersion` or UID, so it is applied to whatever object has the name by
then. No finalizer, lock or transaction relates two calls.

### What makes it hard

* *Two calls, one decision.* A child is created and then recorded in the
  parent's status; a ConfigMap is created and then the scan is completed; each
  pair can break in the middle.
* *Stale copies.* The decision that a scan was not processed yet, that no child
  is active, that a child is old enough to be deleted, is taken on a cached
  object and acted on later.
* *Names that come back.* Names, not UIDs, address objects in patches and keys.
* *Calls that fail and calls whose answer is lost.* Both look the same to the
  caller. The ConfigMaps get generated names, so a repeated Create makes another.
* *Restarts.* A reconciliation ends with the process; what it left in the API
  server is all the next process knows. The timer of a schedule is in memory.
* *Several processes.* During an upgrade or after a crash the next leader must neither
  overlap the last one nor miss what a standby has seen and forgotten.
* *Shared memory.* Within a process, five workers and the informers hold objects
  made of slices, maps and pointers, which helpers change in place between the
  copy a patch is computed from and the patch.
* *Goroutines.* The exporter's goroutines send to a bounded channel that is
  drained only after the last of them is done.

`PROJECT.json` lists each of these hazards at its line, with the properties
that would fail if it bit.

### What correctness means

* compliancescan controller: phase and conditions tell the same story; a scan
  moves only forward and `Completed` and `Failed` are final; a completed scan
  had its configuration; every scan gets a phase, and ends; configurations do
  not multiply without a reason.
* webhook and diki configuration: an admitted scan gets exactly the rulesets and
  options it asks for, or fails for a reason the webhook could not have seen.
* scheduled controller: one active child at a time; a run for every match of
  the cron expression, and one only; references cleared when the child is
  finished; history limits never cost a newer scan; a schedule never falls
  asleep.
* operator processes: one leads at a time; whatever a configuration leaves out, a
  process that starts has what it needs; together the processes are one
  controller that restarts, and no scan is lost between two leaders.
* memory: what a worker changes is its own; no change in place is lost from a
  patch; a condition's times say when it changed.
* report-exporter: the status shows one result per configured output, of one
  run, and what it calls completed was exported; both halves of a summary agree;
  the exporter ends.

## 2. Modules and code

```
ScanLifecycle               abstract: the phases of a scan, as others see them
   ^ refines                       ^ environment of
ComplianceScanController    ScheduledScanController     ReportExporter
   ^ extends, refines   ^ refines
ScanOptions          OperatorReplicas  --extends-->  OperatorConfig
 (webhook + options    (processes + lease
  + controller)         + controller)

ProcessMemory               the workers of both controllers, as users of memory
   --extends-->  ApiObjects (references and deep copies), Conditions (the helper)

Filter                      slices.DeleteFunc and the like, as a recursive function;
                            extended by Conditions, ReportExporter and ScanOptions

*Proofs                     theorems about the module they are named after;
                            ReconciliationProofs continues ComplianceScanProofs;
                            ScanOptionsProofs and OperatorReplicasProofs instantiate
                            both, so the controller's theorems are cited there
MC*                         values of the constants for TLC
```

**`ScanLifecycle`** is what a phase promises to its readers: the phase changes
(`Moves`) are those the status patches make, a scan completes only out of
`Running`, the two final phases stay. `ComplianceScanController` is shown to
implement it (`LifecycleSpec`). The other two modules use its `Moves` for
the scans that change around them, instead of repeating the controller.

**`ComplianceScanController`**. Variables: `scan`, `configMaps` (the API
server), `watch` and `cache` (the informer: events not yet delivered, and what
was), `queue` (keys), and for each key the worker's `pc`, its local
`complianceScan` (`obj`) and whether its context is done (`expired`). One step per
call that leaves the process:

| Action | Code |
|---|---|
| `Deliver`, `Relist`, `Dequeue` | informer, `Predicate` and workqueue (`add.go`) |
| `ReconcileGet` | `Reconcile` up to the check of the phase |
| `PatchRunning` | the patch to `Running` |
| `DeployDikiConfigMap` | `deployDikiConfigMap`, as one step with its result |
| `PatchCompleted` | the patch to `Completed` |
| `HandleFailedScan` | `handleFailedScan`, reached from every error |
| `ContextExpires` | `ReconciliationTimeout`, or the end of the manager |
| `Restart` | the pod is replaced |

A call may be rejected or its answer lost. After a failed patch the local
variable stays as modified, as in Go, and the next patch is computed from it.
Conditions are pairs of type and status: reason and message are fixed by them,
and times are left out.

**`ScanOptions`** extends that module by the webhook and the options. An
admission request is answered reference by reference (`Submit`,
`ValidateConfigMapReference`, `Respond`; `UpdateScan` for updates); in the place of
the step `DeployDikiConfigMap` the options are read one by one (`GetOptions`) and
the ConfigMap is created at the end (`Create`); the user's ConfigMaps change at
any time (`ChangeOptions`). A missing ConfigMap acts as one without keys, since both
are errors to both readers. `options` is what the operator's cache holds: webhook
and controller see nothing else, so a stale read is a read before a change. The
fault "options" of the controller module is replaced by what the ConfigMaps
contain.

**`ScheduledScanController`**: one ScheduledComplianceScan and its children.
Variables: `sched`, `child` (API server), `seenSched`, `seen` with their pending
events (two informers that are *not* ordered with each other), `queued` and
`timer` (workqueue and delaying queue), the worker's `pc` and local variables
(`sl`, `view`, `now`, `expr`, `toDelete`). Time is a counter of seconds; a cron
expression is the set of seconds it matches, and `NextMatch` returns 0, the zero
time, when there is none, as the library does. A child is named by the second
it was created in, as `childScanName` names it.

| Action | Code (`reconciler.go`, `utils.go`) |
|---|---|
| `DeliverSched`, `DeliverChild`, `TimerFires`, `Dequeue` | `For`, `Owns`, `RequeueAfter`, workqueue |
| `ReconcileGet`, `ReconcileList` | Get, List and the classification of children |
| `ClearActive` | completion of the active scan is detected |
| `RecoverActive` | an active child without reference is adopted |
| `DecideToCreate` | parse the schedule, `shouldCreate` |
| `DeployComplianceScan`, `SetActiveScan` | create the child, then patch the status |
| `CleanupOldScan` | one Delete of `cleanupOldScans` |
| `RequeueForNextRun` | the final `RequeueAfter` |

**`ReportExporter`**: executions of the exporter for one scan, which may overlap
and die, over a scan that changes phase, vanishes and returns. The command
(`Complete`, `Run`), the main
goroutine (`Get`, `StartExports`, `Wait`, `PatchStatus`) and one goroutine per
output (`ExportOutput`, `SendStatus`) with the channel between them. The summary of a
report is a pure operator (`CreateRulesetSummaries`).

**`OperatorConfig`** is the configuration as data: what a file may say, with Go's zero
values, one operator per defaulting function and the validation. Leader election is
validated by a Gardener function and defaulted in part by `k8s.io/component-base`;
both are modelled from how the code uses them.

**`OperatorReplicas`** puts processes around the compliancescan controller. A process
goes `off`, `starting`, `standby`, `leading`, `stopping`, `exited`:

| Action | Code |
|---|---|
| `Launch` | `opt.Complete` (decoding calls the defaulting functions), `opt.Validate`, `ctrl.NewManager` |
| `Sync` | the rest of `run` up to `mgr.Start`: caches listed, webhook served |
| `Lead` | the lease is taken, or there is no leader election; the controllers start and their handlers see the list as Create events |
| `Renew`, `Tick` | client-go renews the lease; time passes from one deadline to the next |
| `Terminate`, `Release` | SIGTERM at the leader: first the workers stop, then the lease is given back (`LeaderElectionReleaseOnCancel`) |
| `Die` | the lease is lost, the process crashes or is killed: it ends at once |
| `Deliver`, `Worker` | informer and `Reconcile` of that process, as in `ComplianceScanController` |

What it assumes, because libraries and not this code provide it: a leader that
cannot renew its lease is gone `renewDeadline + retryPeriod` after its last
renewal (`OutlivesLease`); every cache has caught up before the lease
changes hands (`Lead`), since a lease lives seconds and a watch event
milliseconds; a process without leader election is started only when no other
runs (`RunsAlone`). A process starts once, a restarted container is another
process; `Former` stands for the leader before an upgrade. Two processes may have
different files. The webhook admits a scan whenever some process is up, so that a scan
may be created while nobody leads. `Controller` is the refinement mapping: the
controller's cache and workers are those of the process that leads or led last, and a
change of leader is its `Restart`.

**`Conditions`** is the helper in full: `Build` with reason, message and two times, and
`UpdateConditions` over a sequence of conditions.

**`ApiObjects`** lists the references (slices, maps, pointers) in ComplianceScan and
ScheduledComplianceScan by their paths, type by type (`...Refs`), and, function by
function, which of them the generated `DeepCopyInto` makes anew (`...Copies`).

**`ProcessMemory`**: `memory` holds, for every worker, the object in the informer
cache, the local variable, the base of the patch and what the worker creates, and the
shared configuration. An object is a function from reference paths to *cells*, each named
after the object that allocated it; two objects share memory when a cell is
in both. The cells that are written in place have contents: the array of
conditions and the labels. `Copy` is a deep copy as `ApiObjects` has it, `Overwrite` and
`Allocate` are the two ways through `UpdateConditions`, `Decode` is the client decoding
an answer over the object it was given. The actions are the calls of both
`Reconcile` functions; events, restarts and deletions do not touch the memory and are
left out, so a scan is reconciled when its worker is `queued` at the start. Child scans
in lists are deep copies that nobody writes, and the exporter is another process.

`PROJECT.json` maps every definition to the lines it stands for. Some
definitions are marked as mutants: they are plausible mistakes in the definition
that follows them, kept to show that the properties can fail.

## 3. Runs

All bounds are constants in the guards of actions, no state is cut off by a
constraint. `CHECK_DEADLOCK` is off because every bounded system stops: users do
nothing more and no failure is left.

### compliancescan controller (`MCComplianceScan`)

| Run | Instance | Shows |
|---|---|---|
| `ScanSafety` | one name used for two scans, 2 failures of any kind, 1 restart, 5 workers | `TypeOK`; `ConditionsMatchPhase`: phase and conditions agree whatever copy a patch came from; `CompletedWasConfigured`; `ConfigMapsBounded`: each ConfigMap beyond the first is paid for by a failure or a reused name; `InductiveInvariant` of the proofs |
| `ScanFinality` | two scans, 1 worker, names used once, 2 failures but no lost answer, 1 restart | `LifecycleSpec`: the controller implements `ScanLifecycle`; `EventuallyStarted`: no scan is forgotten, although only its one Create event passes the predicate |

Two failures are enough for a patch that fails and a failure patch that fails
too, and a second incarnation for every way in which a patch can reach
the wrong scan; a single worker makes the second scan wait.

What the limits hide, as TLC shows when they are lifted: with lost answers a
scan may go from `Completed` to `Failed`, and with reused names a patch of an old
reconciliation may move a new scan, so `LifecycleSpec` needs both
excluded. A scan deleted and created again while a worker is between two calls
is completed by the old scan's worker, and its own event is dropped because it has a
phase: no ConfigMap carries its UID, which is why `CompletedWasConfigured` speaks of the
name. With reused names *and* a relist the informer reports the new scan as an
update, which the predicate drops, so `EventuallyStarted` needs names used once.

### webhook, options and controller (`MCScanOptions`)

| Run | Instance | Shows |
|---|---|---|
| `ScanOptions` | one name used for two scans, two specs (default keys with an unsupported ruleset; a given key), one ConfigMap with four contents, one mishap: a failing call, a failing read of the webhook, a change of the ConfigMap, or broken YAML from the start | `ConfigIsRequested`: a configuration labelled with a UID is what that scan asks for; `FailsOnlyIfChanged`: options of an admitted scan fail only if the ConfigMap is not what the webhook saw, or the value is no YAML; `RunningIsRunning`, `EventuallyFinished`: with a single mishap and no restart every scan ends; `ControllerSpec`: the composition implements `ComplianceScanController`; `OptionsTypeOK` |

One mishap is the most for which `EventuallyFinished` holds: when an option and then
the patch to `Failed` fail, the scan stays `Running` (see `ScanStuck`).
The four contents are: nothing, everything, a default key missing, a value
that does not parse; all of them may be the first or the later one.
`ControllerSpec` counts a failing option as the controller's fault "options",
so every safety property of `ComplianceScanController` carries over.
`MaxOptionFailures` (3) bounds these failures and must not stop a worker. It does not:
with 4 the run reaches the same states, and `EventuallyFinished` would fail if
a worker could not go on.

### scheduledcompliancescan controller (`MCScheduledScan`)

| Run | Instance | Shows |
|---|---|---|
| `SchedSafety` | 2 seconds, a schedule changed to another or to an invalid one or an object deleted by the user (1), 1 failing or lost call, 1 restart, caches that miss nothing, history limits 0 | `AtMostOneActive`, `ClearedIsFinished`, `RunsOnSchedule`, `AlwaysArmed`: between reconciliations a parent whose expression parses always has a key, a timer or an event that brings it back; `TypeOK` |
| `SchedExact` | 4 seconds (two matches), no failure, limits 1 and 0 | `OneRunPerSlot`, `DueRuns`: a run for every match, and one only |
| `SchedStale` | 3 seconds, reads that may miss the last event, limits 1 and 0, no failure | `KeepsNewest`: cleanup deletes only finished scans that the limit gives up |

Two seconds hold a first run (there is no last one) and a match; four hold
a run that ends before and one that ends after the next match; three hold
three children, one more than any limit needs. Schedules match every second
second, with a match beyond the last second so that the end of time does not
look like the end of the schedule.

What the limits hide: with `MaxLag = 1` `ClearedIsFinished` fails, because the event of
the parent's own patch may arrive before the event of the child it created: the list
has no active child, so the reference is cleared and `lastCompletionTime` set while the
scan is yet to start; the child's event then brings the reference back.
`AtMostOneActive` fails when both caches miss an event and
the clock ticks within a reconciliation (`Prompt = FALSE`, `MaxLag = 1`), because
a second child can be created before the first is seen. `KeepsNewest` fails
with `MaxLag = 2`, and with `MaxLag = 1` for children of the same second, which
`sort` leaves in any order: two reconciliations then delete one each. We report
these here and not as findings: they need a reconciliation that lasts from one
match of the expression to the next.

### report-exporter (`MCReportExporter`)

| Run | Instance | Shows |
|---|---|---|
| `Exporter` | 2 overlapping runs, three configurations (two outputs; one name twice; an unsupported type), 2 reports, 1 failure or death, a scan that may vanish | `OutputsComplete`: the status lists every output once, all from one run; `CompletedOutputsExist`; `SummariesAgree`; `SendsNeverBlock`: the channel has room for every status still to be sent; `ExportReturns`: no goroutine blocks for ever; `TypeOK` |

Two outputs are needed to fill the channel in two orders, two runs to overwrite
each other. `status.rulesets` and `status.outputs` of overlapping runs may stem
from different runs, because a merge patch leaves out a field that equals
the run's own copy; nothing in the repository says otherwise.

### operator processes (`MCOperatorReplicas`)

| Run | Instance | Shows |
|---|---|---|
| `Replicas` | two processes after a former leader, six files (nothing said but the certificate directory; a short lease; no leader election; no certificates; timings client-go refuses; not decodable), one scan, 1 rejected call, 1 process that stops or dies | `OneLeader`; `ConfigIsComplete`: nothing that `run` dereferences is missing; `ControllerSpec`: the processes together implement `ComplianceScanController`, whose restarts are the hand-overs; `EventuallyStarted`: a scan admitted by a standby or lost with its leader is started by the next; `ReplicasTypeOK` |

Two processes are a rolling update; one exit is a hand-over in each of the ways
there are (death at any point, missed renewals, graceful stop) while the second must
still start the scan. The time between the deadlines of a lease does not matter, so
`Tick` jumps from one to the next.

What the limits hide: a lease shorter than `renewDeadline + retryPeriod` passes the
validation and gives two leaders (`LeaseAssumption` excludes it; the defaults are 15, 10
and 2 seconds). A lost answer followed by a hand-over is a failure and a restart in
`ComplianceScanController`, where `ScanSafety` has both.

### memory of a process (`MCProcessMemory`)

| Run | Instance | Shows |
|---|---|---|
| `Memory` | two scans and a parent, two of the three workers with something to do, a clock of 3, 2 failing or lost calls | `NothingShared`: what a worker changes or has decoded into is shared with nothing; `StatusConsistent`: no change in place is lost, one condition per type; `TransitionsAreDated`; `ConfigMapNamesItsScan`: the labels sent are the worker's own; `MemoryTypeOK` |

Two workers are enough to share something, two failures for a failed patch and a
failed failure patch, after which the retry reads an old copy; three
times tell the first report, the second and the retry apart. The scans are
interchangeable (`SYMMETRY`).

## 4. What the checks found

Each is a run that TLC must find violated.

| Run | Property | What happens |
|---|---|---|
| `ScanStuck` | `RunningIsRunning` | The operator dies between the patch to `Running` and the last one. The next process queues the scan, sees a phase and drops it: it says Running for ever. The scheduled controller then takes it for active and creates no further scan. |
| `SchedNever` | `RunsOnSchedule` | An expression that never matches (`0 0 30 2 *`) parses; `Next` returns the zero time and every time lies after it. Each finished scan is followed by the next at once. |
| `SchedRetry` | `OneRunPerSlot` | The status patch after the creation fails and the child finishes before the retry. The recovery looks for *active* orphans only; the retry creates a second scan for the same match. |

## 5. Fairness

* Informers deliver pending events (`WF`): client-go's reflectors retry.
* A queued key is taken when a worker is free: `SF(Dequeue)` for the scans,
  since a free worker may be taken by another key again and again, and the
  workqueue is FIFO; `WF` for the single parent.
* A worker that can make its next step makes it (`WF`, in the scheduled module
  `SF`, where a read waits for the cache to be fresh enough): calls return,
  at the latest by the reconciliation timeout.
* `SF(Tick)`: time passes. `SF(ScanFinishes)`: children finish, which is
  `EventuallyFinished` of the other controller and is assumed here. `ScanStuck` shows
  when the assumption is wrong.
* Goroutines that can run do run (`WF`).
* Operator processes (`OperatorReplicas`): the Deployment starts them, `run` reaches
  `mgr.Start`, a process that stops exits, informers deliver and workers run (`WF`).
  `SF(Lead)`: client-go asks for the lease every `retryPeriod`, so that a lease
  that is free again and again is taken; `WF(Tick)`: time passes.
* Users, failures, restarts and requests to the webhook have no fairness.

## 6. Proofs

### The compliancescan controller (`ComplianceScanProofs`)

For any set of scans, any number of incarnations, failures, restarts and workers
and any kinds of failure:

* `InvariantHolds`: `Spec => []InductiveInvariant`
* `TypeCorrect`: `Spec => []TypeOK`
* `ConditionsAgree`: `Spec => []ConditionsMatchPhase`
* `CompletionIsConfigured`: `Spec => []CompletedWasConfigured`

The only assumption on the constants is `BoundsAssumption`: the bounds are natural
numbers.

Neither property is inductive. A patch is a function of two old copies, the
server's object and the worker's, so what holds in the API server depends on
every copy under way, and `InductiveInvariant` strengthens them by

* `CopiesOK`: *every* copy of a scan, in the API server, in an undelivered event,
  in the cache or in a worker, has conditions that match its phase, and a UID
  not newer than the newest;
* `NewestIsStored`: the scan in the API server is the newest of its name. This is
  why a worker with an old copy cannot take back a newer configuration;
* `WorkerOK`: what the phase of the worker's copy is at each `pc`, including
  after a failed patch, where it is the phase the patch would have set; and a
  worker about to patch `Completed` has configured some scan of that name.

From the phase at a `pc` follows that the patch always sets both fields or,
against a copy that has them, neither differs: so the merge patch never takes the
phase from one scan and the conditions from another (`MergePatchValue`,
`MergedValue`). Each action then has a lemma; actions that touch no copy
(`ContextExpires`, `Dequeue`) share `QuietInvariant`. TLC checks the same
`InductiveInvariant` in `ScanSafety`.

`RunningIsRunningHolds` is the counterpart of the finding `ScanStuck`: with at most one
failing call, no expired context and no restart (`OneFailure`) a scan in phase
`Running` always has its worker. Its invariant `FailureIsHandled` says that a scan
that is Running while nobody is between the two patches belongs to a worker on its way
to `handleFailedScan` whose only failure has already happened. Each part of `OneFailure`
is needed: a second failure may hit the failure patch itself.

### How often a scan is reconciled (`ReconciliationProofs`)

For the same constants as above:

* `CountsHold`: the reconciliations of a name that are on the way as events, queued or
  running are never more than the scans that had the name, and each makes at most one
  ConfigMap unless something fails
* `ConfigMapsBoundedHolds`: `Spec => []ConfigMapsBounded`
* `LifecycleImplemented`: `Spec => LifecycleSpec`, if a name is used once (`UsedOnce`)
  and no answer is lost (`NothingLost`)

`ConfigMapsBounded` speaks of the past only; to be inductive it needs what is
still to come. `Pending` counts the events that the predicate will let pass, the key and
the worker; it is bounded by `incarnation` because two events that pass are separated by
the deletion of a scan (`CatchesUp`: the last event on the way is what the server
has). `Ahead` counts the ConfigMaps to come for a UID: none for a scan whose every copy
has a phase, else at most one for each pending reconciliation. A failure may
add one; that is the `faults` in the bound.

The refinement maps every step that changes a phase to a step of `ScanLifecycle` and
all others to stutters. `PhaseFollowed` says where a worker may stand for a scan in
each phase; for the final ones, that nobody who may still find the scan new is left,
which is `Pending` again: the single reconciliation is used up. Both hypotheses are
conditions under which the code keeps the promise; without one TLC shows a
scan that leaves `Completed` (section 3).

### The scheduledcompliancescan controller (`ScheduledScanProofs`)

For any schedules, cron expressions (sets of seconds), history limits, length of time,
failures and restarts:

* `SchedTypeOK`: `Spec => []TypeOK`
* `AlwaysArmedHolds`: `Spec => []AlwaysArmed`, whatever the caches miss
* `AtMostOneActiveHolds`, `ClearedIsFinishedHolds`: `AtMostOneActive` and
  `ClearedIsFinished`, for reads that miss nothing
* `RunsOnScheduleHolds`: `RunsOnSchedule`, for reads that miss nothing and expressions
  that always match again
* `OneRunPerSlotHolds`: `OneRunPerSlot`, for the same and no failure or restart
* `KeepsNewestHolds`: `KeepsNewest`, for reads that miss nothing and scans that nobody
  else deletes

The hypotheses are named and each marks a limit of the code that a run or section 3
shows: `FreshReads` (`MaxLag = 0`: a read of the cache waits for the events on the way;
section 3 says what a lag breaks), `EverMatches` (the finding `SchedNever`),
`NoFailures` (the finding `SchedRetry`), `OnlyWorkerDeletes` (a user who deletes
a newer scan leaves the cleanup with a list that counts it). None of them bounds the
number of edits, the times at which children finish or the interleaving with the worker.
`KeepsNewestHolds` complements `SchedStale`, where reads lag and nothing fails.

The invariants are built in layers, each on the last:

* `Typed`, `SchedFollows`, `ChildrenFollow`: the types; the last event on the way holds
  what the API server holds, and without one the cache does. With `FreshReads` what the
  worker reads is therefore current at that moment;
* `Armed`: the worker's copy of the schedule is current *or* an event is on the way that
  queues the parent again (`ScheduleIsRead`), and the delay it is about to ask for is
  positive (`NextIsLater`);
* `Alone`: between the list without an active child and the creation there is none
  (`NoneActive`), since only this worker creates children; hence two are never active
  (`OneActive`);
* `Decided`: the status in the worker's copy is current, since only this worker writes it
  (`StatusIsRead`), so what it decided to create is due (`DueIsDecided`);
* `Recorded`: the last run is the one the status records, except between creation and
  patch (`RunIsRecorded`);
* `Limited`: a child that is finished in the worker's list is still the same
  (`ViewIsCurrent`), and what is still to be deleted belongs to a selection that
  spares the newest (`Selected`).

### Scans with options (`ScanOptionsProofs`)

For any scans and specs, any finite set of ConfigMaps with any contents and changes,
and any bounds:

* `OptionsAreController`: `OptionsSpec => ControllerSpec`, the refinement of
  `ComplianceScanController`
* `OptionsKeepPromises`: conditions match the phase, and a completed scan was configured
* `ConfigIsRequestedHolds`: `OptionsSpec => []ConfigIsRequested`
* `FailsOnlyIfChangedHolds`: `OptionsSpec => FailsOnlyIfChanged`
* `OptionsLeaveNoneRunning`: `OptionsSpec => []RunningIsRunning`, for one failing call or
  mishap at most
* `OptionsTypeOKHolds`: `OptionsSpec => []OptionsTypeOK`

The assumptions are `SpecsAssumption` (a spec is a list of rulesets with the options the
API type has, whose references name ConfigMaps), `FewConfigMaps` (finitely many),
`OptionsAreNoFault` (the fault "options" is not injected besides) and that bounds are
natural numbers. Any ruleset may be unsupported, repeated or without options, any key
given or left to the default.

The refinement adds `optionFailures` to the controller's failures: a read that succeeds
is a stutter, one that fails is `DeployDikiConfigMap` failing with "options". Where the
worker is says whether the count is within the bound.

The two orders in which references are looked at are related through what a spec gives
(`Given`): `Validated` lists all of it, `Needed` what belongs to a supported ruleset
(`ReferencesAreGiven`, `NeededAreGiven`, from `FilteredPicks`), and for each
reference `WebhookKey` and `OptionsKey` agree (`KeysAgree`). On that rest

* `ConfigInvariant`: the worker's spec is the one of the UID it holds, and what it has read
  are the first of the needed options (`ReadFollows`), so that the configuration it creates
  in the end is the requested one (`AllReadIsRequested`). It is inductive since a spec is
  never written after its UID was given (`UpdateChangesNothing`, which is the webhook's
  rule for updates): a later scan of the name has another UID;
* `AdmissionInvariant`: whoever was admitted was seen with every key
  (`HasKeys`), and as long as there is no mishap what was seen is what the ConfigMaps
  contain and no value is broken (`IsCurrent`).

`FailsOnlyIfChanged` then says that the ConfigMap which fails is not the one that was seen
behind the same reference, or has the key (`NeededWasSeen`). For `RunningIsRunning`,
without a mishap all needed options can be read (`NeededIsReadable`): so a
failing option follows the one mishap, no call fails after it, and `FailureIsHandled`
of `ComplianceScanProofs` holds with mishaps counted as failures.

### Operator processes (`OperatorReplicasProofs`)

For any finite set of processes and scans, any files and bounds:

* `OneLeaderHolds`: `Spec => []OneLeader`
* `ConfigIsCompleteHolds`: `Spec => []ConfigIsComplete`
* `ProcessesAreOneController`: `Spec => ControllerSpec`, the refinement of
  `ComplianceScanController`
* `ReplicasKeepPromises`: what holds of one controller holds of the processes together
* `ReplicasTypeOKHolds`: `Spec => []ReplicasTypeOK`
* `DefaultsKeepValues`: defaulting the leader election changes nothing the file
  says, and defaulting twice is defaulting once
* `DefaultLeaseIsSafe`: the default timings satisfy `LeaseAssumption`

The assumptions are `FilesAssumption` (a file that decodes has the fields of the
configuration), `TextsAssumption` (the texts of files include the defaults),
`LeaseAssumption` (a lease outlasts a leader that cannot renew it),
`FinitenessAssumption` and that the nil pointer is neither a value nor a process.

`OneLeader` is not inductive: that a process leads says nothing of the lease.
`ElectionInvariant` adds that every process that lives has a configuration
that passed (`LivesRunnable`, which is also what makes `ConfigIsComplete` hold), that a
process that leads with leader election holds the lease, that the lease of a
leader is younger than its deadline to give up, and that two processes that live at
the same time both use leader election (`NeighboursElect`). So a lease that is free has no leader behind it: its
age has reached the lease duration, which is beyond the deadline.

The refinement needs `OneLeader` and more (`HandoverInvariant`): only the process that
leads, or led last, has workers (`Untouched`, `LastLeads`); its watch and cache follow the
API server (`CachesFollow`: the last event on the way is the scan, and without one the
cache is); and every hand-over was counted (`HandoversCounted`). Each action of a
process is then mapped: `Lead` of a new leader is `Restart`, the steps of the
process that leads are the controller's own, and what the others do changes nothing
the mapping looks at. For the last theorem `ReconciliationProofs` is instantiated with
the processes' variables, so its theorems are cited and not proved again.

### Memory (`ProcessMemoryProofs`)

* `CopiesAreComplete`: for both API objects, `DeepCopyInto` makes every reference
  anew, at any depth
* `NothingSharedHolds`: `Spec => []NothingShared`, for any scans and failures
* `BuildDates`: what the comment on `Build` promises
* `UpdateKeepsOnePerType`, for conditions of any length
* `MemoryTypeOKHolds`, `StatusConsistentHolds`, `ConfigMapNamesItsScanHolds`,
  `TransitionsAreDatedHolds`: the other properties of the run, for any scans, clock and
  failures

`NothingShared` follows from `Sound`: *every* reference of *every* object leads to a
cell that the object itself allocated. `Sound` is inductive because each change
of the memory keeps it: a deep copy because of `CopiesAreComplete`, a decoded answer
because new memory is the object's own, an update in place because it moves no
reference. `NothingShared` alone is not, since the base of a patch and the cache are
copied from and to.

The others rest on it. Since nothing is shared, the conditions of an object are what
its own array holds, however many other objects were changed in place meanwhile; so the
copy a patch is computed from and the modified copy are known at every `pc`. `MemoryInvariant`
says so for each scan (`ScanFollows`): the status in the API server is one that
`Reconcile` writes, with a condition that is complete and dated (`StatusTells`); the
cache has an older state of the same; the worker's copy and the labels it sends are as
`pc` says (`CopyFollows`, `LabelsFollow`). `PatchReady`
then determines what each of the three patches sends: the one condition
of the new status, dated now, and nothing of the old one.

### The report exporter (`ReportExporterProofs`)

* `ExporterTypeOK`: `Spec => []TypeOK`
* `OutputsCompleteHolds`: `Spec => []OutputsComplete`
* `CompletedOutputsExistHolds`: `Spec => []CompletedOutputsExist`
* `SummariesAgreeHolds`: `Spec => []SummariesAgree`
* `SendsNeverBlockHolds`: `Spec => []SendsNeverBlock`, the safety half of `ExportReturns`

for any number of overlapping runs, any configuration, reports, failures and deaths,
and without an assumption on them. The status is written by one patch out of what a
run drained from its channel, so `ExportInvariant` says what the channel holds
before: one status of every goroutine that is done (`ChannelOK`), each sent by the run
itself, and `Completed` only if it has exported (`Honest`); and once `wg.Wait()` is over,
all goroutines are done (`GoroutinesOK`). The names in the drained channel are then in
bijection with the outputs (`DrainedIsComplete`), and a goroutine that has still to send
finds the channel, made with one place for every output, not full. The run's own copy
of the scan plays no part: a patch sets the outputs or leaves them.

### Sequences (`FilterProofs`)

* `FilteredPicks`: what `Filtered` returns, for a sequence of any length: the elements
  at the positions to keep, in their order, each once.

The induction theorems of the library take an operator as a parameter, which the provers
cannot instantiate. The induction over the sequence is done here by looking at the
first prefix for which the statement fails (`LeastNumber`, from `WFMin`); for that
`Filtered` is a recursive function and not a RECURSIVE operator.

### Checked by TLC only

`KeepsNewest` for caches that lag, and all liveness (`EventuallyStarted`,
`EventuallyFinished`, `DueRuns`, `ExportReturns`), since the prover has no rules for
fairness. That `MaxOptionFailures` stops no worker is also checked on the instance
only.

## 7. What is not covered

* The diki runner: the code creates a configuration and completes the scan; the
  job itself is a TODO in `reconciler.go`. `syncPeriod`, `podCompletionTimeout` and
  the scans' `spec.outputs` have no reader yet.
* The scheduled controller in several processes: it starts and stops with the
  compliancescan controller, whose hand-over is modelled. Library behaviour under
  a clock that jumps or a partition that outlasts a lease: see the assumptions of
  `OperatorReplicas`. The cache of a new leader is assumed to be caught up; one that
  lags would run a scan twice, as after a retry.
* Validation lets ports above 65535 and equal ports through; the process fails
  when it listens. The chart's `_helpers.tpl` leaves out `leaderElect: false`, which
  defaulting then turns into true, and sets `waitInterval` and `execTimeout`, which no type
  has and the decoder ignores.
* Two parents whose child names collide after truncation in `childScanName`, and a
  parent whose name is longer than a label value may be (63): each of its children is
  rejected.
* The text of errors; YAML, JSON, compression, generated names. Conditions are
  pairs of type and status except in `Conditions` and `ProcessMemory`; there all
  errors have one message, and a report is dated when its patch is sent.
* The capacity of slices: `append` may write beyond a slice into an array it
  shares, which needs two slices over one array; `NothingShared` rules those out.
* Two options of one scan may be read from two versions of a ConfigMap, and the
  webhook may admit keys that no version had together: each is a Get of its
  own. The model has these behaviours, no property forbids them.
* The internal version of the API and its conversion, ReportOutput, the deep copies of
  lists and of the configuration: no code of the operator or the exporter calls them.
  Registration, charts, images: declarative.
* Restarts and timeouts in `ScanOptions`: they are in `ComplianceScanController`.

## 8. Plan

Done, in this order: `ScanLifecycle`, `ComplianceScanController` and its
proofs, `ScheduledScanController`, `ReportExporter`, `ScanOptions`; then
`OperatorConfig`, `OperatorReplicas` and their proofs, `Conditions`, `ApiObjects`,
`ProcessMemory` and their proofs, the proofs of `ReportExporter`; then
`ReconciliationProofs`, `ScheduledScanProofs`, `Filter` and `FilterProofs`, and the
types and remaining invariants of `ProcessMemory` and `ReportExporter`; then the two
refinements of `ComplianceScanController`, by `OperatorReplicas` and by `ScanOptions`, and
`ScanOptionsProofs`.

Next in the model:

1. A second parent in `ScheduledScanController` for colliding names.
2. The controllers together: `ScheduledScanController` over the real
   `ComplianceScanController`, for a schedule that a stuck child stops.

Next in the proofs:

1. `KeepsNewest` for caches that lag: the invariant must say how far the list that a
   cleanup works on may be behind.
2. A bound for `optionFailures` by incarnations and failures, which makes
   `MaxOptionFailures` a consequence and not a bound.
3. The safety half of `EventuallyStarted`: a scan without phase always has an event, a
   key or a worker that brings it to `Reconcile` (names used once), as `AlwaysArmed`
   says it of schedules.
