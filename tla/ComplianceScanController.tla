---------------------- MODULE ComplianceScanController ----------------------
(***************************************************************************)
(* The compliancescan controller of diki-operator                          *)
(* (internal/reconciler/compliancescan) between the API server it patches   *)
(* and the informer cache it reads.                                         *)
(*                                                                          *)
(* Every call to the API server is one step and may fail in two ways: it is *)
(* "rejected" (not applied) or its answer is "lost" (applied, but the       *)
(* caller gets an error). Reads come from the informer cache, which follows *)
(* the API server through the events in `watch`. Status patches are JSON    *)
(* merge patches (client.MergeFrom) without resourceVersion or UID          *)
(* precondition: they change the fields that differ from the reconciler's   *)
(* own copy, on whatever object has the name by then.                       *)
(***************************************************************************)
EXTENDS Naturals, Sequences, FiniteSets

CONSTANTS
  Scans,                    \* names of ComplianceScans
  MaxIncarnations,          \* bound: how often a name is given to a new scan
  MaxFaults,                \* bound: failures in one behaviour
  MaxRestarts,              \* bound: restarts of the operator process
  FaultKinds,               \* the failures that may happen
  MaxConcurrentReconciles   \* workers of the controller

ASSUME BoundsAssumption ==
  /\ MaxIncarnations \in Nat
  /\ MaxFaults \in Nat
  /\ MaxRestarts \in Nat

(***************************************************************************)
(* "rejected" and "lost" calls; "options": the ConfigMap with the ruleset   *)
(* options cannot be read; "timeout": the context of a reconciliation       *)
(* expires (ReconciliationTimeout) or is cancelled; "relist": the informer  *)
(* loses its watch and lists the scans anew.                                *)
(***************************************************************************)
ASSUME FaultKindsAssumption ==
  FaultKinds \subseteq {"rejected", "lost", "options", "timeout", "relist"}

ASSUME WorkersAssumption == MaxConcurrentReconciles \in Nat \ {0}

VARIABLES
  scan,         \* scan[s]: the ComplianceScan s in the API server, or NoScan
  incarnation,  \* incarnation[s]: how many scans had the name s so far
  configMaps,   \* configMaps[s][u]: diki config ConfigMaps labelled with UID u of s
  watch,        \* watch[s]: the changes of s the informer has not seen yet
  cache,        \* cache[s]: s as the informer cache has it
  queue,        \* keys in the workqueue
  pc,           \* pc[s]: where the worker reconciling s is, "idle" without one
  obj,          \* obj[s]: that worker's local variable complianceScan
  expired,      \* expired[s]: is that worker's context done?
  faults,       \* failures so far
  restarts      \* restarts so far

serverVars == <<scan, incarnation, watch>>
workerVars == <<pc, obj, expired>>
vars == <<scan, incarnation, configMaps, watch, cache, queue, pc, obj, expired,
          faults, restarts>>

-----------------------------------------------------------------------------
(* Objects. *)

Phases == {"", "Running", "Completed", "Failed"}

Conditions == [type : {"Completed", "Failed"}, status : {"True", "False"}]

Objects == [uid : 0..MaxIncarnations, phase : Phases,
            conditions : SUBSET Conditions]

\* A new object as a user or the scheduled controller creates it.
NewScan(uid) == [uid |-> uid, phase |-> "", conditions |-> {}]

\* The absence of an object, and the reconciler's variable before the Get.
NoScan == NewScan(0)

BuildUnknown(type, status) ==      \* mutant: no WithStatus, so the default applies
  [type |-> type, status |-> "Unknown"]

(***************************************************************************)
(* ConditionBuilder.Build, for a builder that is given every value, as      *)
(* UpdateConditions does: nothing of the old condition is left. Reason and  *)
(* message go with type and status; the times are left out.                 *)
(***************************************************************************)
Build(type, status) == [type |-> type, status |-> status]

\* v1alpha1helper.UpdateConditions: at most one condition of each type.
UpdateConditions(conditions, type, status) ==
  {c \in conditions : c.type # type} \cup {Build(type, status)}

RunningStatus(o) ==
  [uid |-> o.uid, phase |-> "Running",
   conditions |-> UpdateConditions(o.conditions, "Completed", "False")]

CompletedStatus(o) ==
  [uid |-> o.uid, phase |-> "Completed",
   conditions |-> UpdateConditions(o.conditions, "Completed", "True")]

FailedStatusKeepingCompleted(o) ==      \* mutant: no slices.DeleteFunc
  [uid |-> o.uid, phase |-> "Failed",
   conditions |-> UpdateConditions(o.conditions, "Failed", "True")]

FailedStatus(o) ==
  [uid |-> o.uid, phase |-> "Failed",
   conditions |-> {c \in UpdateConditions(o.conditions, "Failed", "True") :
                     c.type # "Completed"}]

MergeOverwriting(server, base, new) == new     \* mutant: Update instead of Patch

\* The server's object after the merge patch from base to new.
MergePatch(server, base, new) ==
  [uid |-> server.uid,
   phase |-> IF new.phase = base.phase THEN server.phase ELSE new.phase,
   conditions |-> IF new.conditions = base.conditions
                    THEN server.conditions ELSE new.conditions]

-----------------------------------------------------------------------------
Init == /\ scan = [s \in Scans |-> NoScan]
        /\ incarnation = [s \in Scans |-> 0]
        /\ configMaps = [s \in Scans |-> [u \in 0..MaxIncarnations |-> 0]]
        /\ watch = [s \in Scans |-> << >>]
        /\ cache = [s \in Scans |-> NoScan]
        /\ queue = {}
        /\ pc = [s \in Scans |-> "idle"]
        /\ obj = [s \in Scans |-> NoScan]
        /\ expired = [s \in Scans |-> FALSE]
        /\ faults = 0
        /\ restarts = 0

\* The API server stores o under the name s and tells the informers.
Store(s, o) == /\ scan' = [scan EXCEPT ![s] = o]
               /\ watch' = [watch EXCEPT ![s] = Append(@, o)]

Fault(kind) == /\ kind \in FaultKinds
               /\ faults < MaxFaults
               /\ faults' = faults + 1

\* A call of the worker on s returns an error before it has any effect.
CallRejected(s) == \/ expired[s] /\ UNCHANGED faults
                   \/ ~expired[s] /\ Fault("rejected")

\* A call of the worker on s is applied, and returns an error.
CallLost(s) == ~expired[s] /\ Fault("lost")

-----------------------------------------------------------------------------
(* Users and the scheduled controller create and delete scans. *)

CreateScan(s) ==
  /\ scan[s] = NoScan
  /\ incarnation[s] < MaxIncarnations
  /\ incarnation' = [incarnation EXCEPT ![s] = @ + 1]
  /\ Store(s, NewScan(incarnation[s] + 1))
  /\ UNCHANGED <<configMaps, cache, queue, workerVars, faults, restarts>>

DeleteScan(s) ==
  /\ scan[s] # NoScan
  /\ Store(s, NoScan)
  /\ UNCHANGED <<incarnation, configMaps, cache, queue, workerVars, faults,
                 restarts>>

-----------------------------------------------------------------------------
(* The informer and the workqueue. *)

\* Predicate: only Create events pass, those of scans the cache did not have.
Predicate(old, new) == old = NoScan /\ new # NoScan

Deliver(s) ==
  /\ watch[s] # << >>
  /\ cache' = [cache EXCEPT ![s] = Head(watch[s])]
  /\ watch' = [watch EXCEPT ![s] = Tail(@)]
  /\ queue' = IF Predicate(cache[s], Head(watch[s])) THEN queue \cup {s}
                                                     ELSE queue
  /\ UNCHANGED <<scan, incarnation, configMaps, workerVars, faults, restarts>>

(***************************************************************************)
(* After a broken watch the informer lists the scans: a scan replaced by    *)
(* another one of the same name in between is an update to it.              *)
(***************************************************************************)
Relist ==
  /\ Fault("relist")
  /\ cache' = scan
  /\ watch' = [s \in Scans |-> << >>]
  /\ queue' = queue \cup {s \in Scans : Predicate(cache[s], scan[s])}
  /\ UNCHANGED <<scan, incarnation, configMaps, workerVars, restarts>>

\* A free worker takes the key s, unless another worker has it.
Dequeue(s) ==
  /\ s \in queue
  /\ pc[s] = "idle"
  /\ Cardinality({t \in Scans : pc[t] # "idle"}) < MaxConcurrentReconciles
  /\ queue' = queue \ {s}
  /\ pc' = [pc EXCEPT ![s] = "get"]
  /\ UNCHANGED <<serverVars, configMaps, cache, obj, expired, faults, restarts>>

-----------------------------------------------------------------------------
(* Reconcile, one step per call. *)

Goto(s, label) == /\ pc' = [pc EXCEPT ![s] = label]
                  /\ UNCHANGED <<queue, expired>>

\* Reconcile returns; with an error the key is queued again after a delay.
Return(s, err) == /\ pc' = [pc EXCEPT ![s] = "idle"]
                  /\ obj' = [obj EXCEPT ![s] = NoScan]
                  /\ expired' = [expired EXCEPT ![s] = FALSE]
                  /\ queue' = IF err THEN queue \cup {s} ELSE queue

ProcessedNever(o) == FALSE                           \* mutant: check dropped

ProcessedWhenFinished(o) == o.phase \in {"Completed", "Failed"}   \* mutant

\* len(complianceScan.Status.Phase) > 0
AlreadyProcessed(o) == o.phase # ""

ReconcileGet(s) ==
  /\ pc[s] = "get"
  /\ \/ /\ cache[s] = NoScan                         \* "Object is gone"
        /\ Return(s, FALSE)
        /\ UNCHANGED faults
     \/ /\ Fault("rejected")                         \* error retrieving it
        /\ Return(s, TRUE)
     \/ /\ cache[s] # NoScan
        /\ AlreadyProcessed(cache[s])
        /\ Return(s, FALSE)
        /\ UNCHANGED faults
     \/ /\ cache[s] # NoScan
        /\ ~AlreadyProcessed(cache[s])
        /\ obj' = [obj EXCEPT ![s] = cache[s]]
        /\ Goto(s, "running")
        /\ UNCHANGED faults
  /\ UNCHANGED <<serverVars, configMaps, cache, restarts>>

(***************************************************************************)
(* r.Client.Status().Patch(ctx, complianceScan, MergeFrom(old copy)), where *)
(* new is the local variable as modified. After success the variable holds  *)
(* the server's answer, after an error it stays as modified.                *)
(***************************************************************************)
Merged(s, new) == MergePatch(scan[s], obj[s], new)

PatchOk(s, new) == /\ ~expired[s]
                   /\ scan[s] # NoScan
                   /\ Store(s, Merged(s, new))
                   /\ UNCHANGED faults

PatchFails(s, new) ==
  \/ /\ scan[s] = NoScan                             \* NotFound
     /\ UNCHANGED <<scan, watch, faults>>
  \/ /\ CallRejected(s)
     /\ UNCHANGED <<scan, watch>>
  \/ /\ scan[s] # NoScan
     /\ CallLost(s)
     /\ Store(s, Merged(s, new))

PatchRunning(s) ==
  LET new == RunningStatus(obj[s])
  IN  /\ pc[s] = "running"
      /\ \/ /\ PatchOk(s, new)
            /\ obj' = [obj EXCEPT ![s] = Merged(s, new)]
            /\ Goto(s, "deploy")
         \/ /\ PatchFails(s, new)
            /\ obj' = [obj EXCEPT ![s] = new]
            /\ Goto(s, "failed")
      /\ UNCHANGED <<incarnation, configMaps, cache, restarts>>

\* The ConfigMap gets a generated name and the UID of the local copy as label.
CreateConfigMap(s) ==
  configMaps' = [configMaps EXCEPT ![s][obj[s].uid] = @ + 1]

DeployIgnoringErrors(s) ==      \* mutant: err of deployDikiConfigMap unchecked
  /\ pc[s] = "deploy"
  /\ \/ ~expired[s] /\ CreateConfigMap(s) /\ UNCHANGED faults
     \/ CallRejected(s) /\ UNCHANGED configMaps
  /\ Goto(s, "completed")
  /\ UNCHANGED <<serverVars, cache, obj, restarts>>

DeployDikiConfigMap(s) ==
  /\ pc[s] = "deploy"
  /\ \/ /\ ~expired[s]
        /\ CreateConfigMap(s)
        /\ Goto(s, "completed")
        /\ UNCHANGED faults
     \/ /\ Fault("options") \/ CallRejected(s)
        /\ Goto(s, "failed")
        /\ UNCHANGED configMaps
     \/ /\ CallLost(s)
        /\ CreateConfigMap(s)
        /\ Goto(s, "failed")
  /\ UNCHANGED <<serverVars, cache, obj, restarts>>

PatchCompletedReturningErrors(s) ==      \* mutant: return err, no handleFailedScan
  LET new == CompletedStatus(obj[s])
  IN  /\ pc[s] = "completed"
      /\ \/ PatchOk(s, new) /\ Return(s, FALSE)
         \/ PatchFails(s, new) /\ Return(s, TRUE)
      /\ UNCHANGED <<incarnation, configMaps, cache, restarts>>

PatchCompleted(s) ==
  LET new == CompletedStatus(obj[s])
  IN  /\ pc[s] = "completed"
      /\ \/ /\ PatchOk(s, new)
            /\ Return(s, FALSE)
         \/ /\ PatchFails(s, new)
            /\ obj' = [obj EXCEPT ![s] = new]
            /\ Goto(s, "failed")
      /\ UNCHANGED <<incarnation, configMaps, cache, restarts>>

HandleFailedScanSwallowing(s) ==      \* mutant: err2 is logged, not returned
  /\ pc[s] = "failed"
  /\ PatchOk(s, FailedStatus(obj[s])) \/ PatchFails(s, FailedStatus(obj[s]))
  /\ Return(s, FALSE)
  /\ UNCHANGED <<incarnation, configMaps, cache, restarts>>

HandleFailedScan(s) ==
  /\ pc[s] = "failed"
  /\ \/ PatchOk(s, FailedStatus(obj[s])) /\ Return(s, FALSE)
     \/ PatchFails(s, FailedStatus(obj[s])) /\ Return(s, TRUE)
  /\ UNCHANGED <<incarnation, configMaps, cache, restarts>>

\* ReconciliationTimeout passes: all further calls of this worker fail.
ContextExpires(s) ==
  /\ pc[s] # "idle"
  /\ ~expired[s]
  /\ Fault("timeout")
  /\ expired' = [expired EXCEPT ![s] = TRUE]
  /\ UNCHANGED <<serverVars, configMaps, cache, queue, pc, obj, restarts>>

\* The operator dies; the next one lists all scans and queues every one.
Restart ==
  /\ restarts < MaxRestarts
  /\ restarts' = restarts + 1
  /\ cache' = scan
  /\ watch' = [s \in Scans |-> << >>]
  /\ queue' = {s \in Scans : Predicate(NoScan, scan[s])}
  /\ pc' = [s \in Scans |-> "idle"]
  /\ obj' = [s \in Scans |-> NoScan]
  /\ expired' = [s \in Scans |-> FALSE]
  /\ UNCHANGED <<scan, incarnation, configMaps, faults>>

-----------------------------------------------------------------------------
Worker(s) == \/ ReconcileGet(s)
             \/ PatchRunning(s)
             \/ DeployDikiConfigMap(s)
             \/ PatchCompleted(s)
             \/ HandleFailedScan(s)

Next == \/ \E s \in Scans : \/ CreateScan(s)
                           \/ DeleteScan(s)
                           \/ Deliver(s)
                           \/ Dequeue(s)
                           \/ Worker(s)
                           \/ ContextExpires(s)
        \/ Relist
        \/ Restart

Spec == Init /\ [][Next]_vars

(***************************************************************************)
(* The watch delivers, and the workers of controller-runtime take queued    *)
(* keys in FIFO order and run. Nothing is assumed of users or failures.     *)
(***************************************************************************)
Fairness == \A s \in Scans : /\ WF_vars(Deliver(s))
                             /\ SF_vars(Dequeue(s))
                             /\ WF_vars(Worker(s))

FairSpec == Spec /\ Fairness

-----------------------------------------------------------------------------
(* Properties. *)

\* Every variable has its type; a name's UIDs are its incarnations.
TypeOK ==
  /\ scan \in [Scans -> Objects]
  /\ incarnation \in [Scans -> 0..MaxIncarnations]
  /\ configMaps \in [Scans -> [0..MaxIncarnations -> Nat]]
  /\ watch \in [Scans -> Seq(Objects)]
  /\ cache \in [Scans -> Objects]
  /\ queue \subseteq Scans
  /\ pc \in [Scans -> {"idle", "get", "running", "deploy", "completed",
                       "failed"}]
  /\ obj \in [Scans -> Objects]
  /\ expired \in [Scans -> BOOLEAN]
  /\ faults \in 0..MaxFaults
  /\ restarts \in 0..MaxRestarts

\* The conditions that go with a phase, for the readers of either.
ConditionsOf(phase) ==
  CASE phase = ""          -> {}
    [] phase = "Running"   -> {[type |-> "Completed", status |-> "False"]}
    [] phase = "Completed" -> {[type |-> "Completed", status |-> "True"]}
    [] phase = "Failed"    -> {[type |-> "Failed", status |-> "True"]}

(***************************************************************************)
(* status.conditions and status.phase never contradict each other, although *)
(* they are patched field by field against a copy that may be stale, may    *)
(* stem from a failed patch or belong to an older scan of the same name     *)
(* (Reconcile's patches and handleFailedScan).                              *)
(***************************************************************************)
ConditionsMatchPhase ==
  \A s \in Scans : scan[s].conditions = ConditionsOf(scan[s].phase)

(***************************************************************************)
(* A scan is Completed only after a diki config ConfigMap was created for   *)
(* it, or for an older scan of its name (Reconcile: deployDikiConfigMap     *)
(* comes before the patch to Completed).                                    *)
(***************************************************************************)
CompletedWasConfigured ==
  \A s \in Scans : scan[s].phase = "Completed" =>
                     \E u \in 1..scan[s].uid : configMaps[s][u] > 0

(***************************************************************************)
(* A scan's ConfigMaps, never deleted, do not pile up: each one beyond the  *)
(* first is paid for by a failure or another scan of the same name, and a   *)
(* restart alone makes no duplicate (the check of status.phase in           *)
(* Reconcile, Create in deployDikiConfigMap).                               *)
(***************************************************************************)
ConfigMapsBounded ==
  \A s \in Scans : \A u \in 0..MaxIncarnations :
    configMaps[s][u] <= incarnation[s] + faults

(***************************************************************************)
(* The phase Running means that the scan is running: a worker is on it or   *)
(* will be (ComplianceScanRunning in the API types; Reconcile leaves every  *)
(* scan alone that has a phase).                                            *)
(***************************************************************************)
RunningIsRunning ==
  \A s \in Scans : scan[s].phase = "Running" => pc[s] # "idle" \/ s \in queue

(***************************************************************************)
(* The inductive invariant behind ConditionsMatchPhase and                  *)
(* CompletedWasConfigured: what is true of every copy of a scan, however    *)
(* old, and of a worker's local variable at each point of Reconcile.        *)
(***************************************************************************)
CopyOK(o, newest) == /\ o.conditions = ConditionsOf(o.phase)
                     /\ o = NoScan \/ o.uid \in 1..newest

CopiesOK == \A s \in Scans :
  /\ CopyOK(scan[s], incarnation[s])
  /\ CopyOK(cache[s], incarnation[s])
  /\ CopyOK(obj[s], incarnation[s])
  /\ \A i \in 1..Len(watch[s]) : CopyOK(watch[s][i], incarnation[s])

NewestIsStored == \A s \in Scans : scan[s] # NoScan => scan[s].uid = incarnation[s]

\* Some scan of the name s had a diki config ConfigMap.
Configured(s) == \E u \in 1..incarnation[s] : configMaps[s][u] > 0

WorkerOK == \A s \in Scans :
  /\ pc[s] = "running" => obj[s] # NoScan /\ obj[s].phase = ""
  /\ pc[s] \in {"deploy", "completed"} => obj[s].phase = "Running"
  /\ pc[s] = "failed" => obj[s].phase \in {"Running", "Completed"}
  /\ pc[s] = "completed" => Configured(s)

\* Holds throughout Reconcile and handleFailedScan, under every failure.
InductiveInvariant == /\ TypeOK
                      /\ CopiesOK
                      /\ NewestIsStored
                      /\ WorkerOK
                      /\ CompletedWasConfigured

\* The abstract lifecycle; a phase is that of the object in the API server.
Lifecycle == INSTANCE ScanLifecycle WITH
  phase <- [s \in Scans |-> IF scan[s] = NoScan THEN "Absent"
                                               ELSE scan[s].phase]

(***************************************************************************)
(* The controller implements the lifecycle: through the patches of all      *)
(* reconciliations, retries and restarts a scan takes only the phase        *)
(* changes of ScanLifecycle, Completed and Failed are final (Reconcile,     *)
(* handleFailedScan). Lost answers and reused names are excluded.           *)
(***************************************************************************)
LifecycleSpec == Lifecycle!Spec

(***************************************************************************)
(* No scan is forgotten: every new scan gets a phase, unless it is deleted, *)
(* whatever fails on the way (the Create event, the requeue after an error  *)
(* and the list of a restarted operator).                                   *)
(***************************************************************************)
EventuallyStarted ==
  \A s \in Scans : scan[s] # NoScan ~> scan[s] = NoScan \/ scan[s].phase # ""

(***************************************************************************)
(* Every scan ends in Completed or Failed, unless it is deleted             *)
(* (handleFailedScan on each error path of Reconcile).                      *)
(***************************************************************************)
EventuallyFinished ==
  \A s \in Scans : scan[s] # NoScan ~> \/ scan[s] = NoScan
                                        \/ scan[s].phase \in {"Completed", "Failed"}
=============================================================================
