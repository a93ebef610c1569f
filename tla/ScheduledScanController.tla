----------------------- MODULE ScheduledScanController -----------------------
(***************************************************************************)
(* The scheduledcompliancescan controller of diki-operator                  *)
(* (internal/reconciler/scheduledcompliancescan) for one                    *)
(* ScheduledComplianceScan, the parent, and the ComplianceScans it creates, *)
(* its children.                                                            *)
(*                                                                          *)
(* One worker reconciles the parent. It reads the parent and the children   *)
(* from two informer caches that follow the API server independently, and   *)
(* writes to the API server, where each call may be rejected or its answer  *)
(* lost. Time is counted in seconds, the unit of child names and of         *)
(* timestamps in the API; 0 is the zero time of Go and the nil pointer.     *)
(***************************************************************************)
EXTENDS Naturals, Sequences, FiniteSets, FiniteSetsExt

CONSTANTS
  MaxTime,           \* bound: the clock runs from 1 to MaxTime
  Schedules,         \* values of spec.schedule
  Slots,             \* Slots[x]: the times the cron expression x matches
  Unparsable,        \* the Schedules that are no cron expressions
  SuccessfulLimit,   \* spec.successfulScansHistoryLimit
  FailedLimit,       \* spec.failedScansHistoryLimit
  RequeueDelay,      \* the RequeueAfter of one minute
  MaxFaults,         \* bound: failed calls
  MaxRestarts,       \* bound: restarts of the operator process
  MaxEdits,          \* bound: changes and deletions by users
  FaultKinds,        \* failures that may happen: "rejected", "lost"
  MaxLag,            \* bound: events a read of a cache may miss
  UserDeletes,       \* may a change by a user be a deletion?
  Prompt             \* is a reconciliation over before the clock ticks?

ASSUME BoundsAssumption ==
  /\ MaxTime \in Nat \ {0}
  /\ RequeueDelay \in Nat \ {0}
  /\ {SuccessfulLimit, FailedLimit, MaxFaults, MaxRestarts, MaxEdits,
      MaxLag} \subseteq Nat

ASSUME ScheduleAssumption ==
  /\ Unparsable \subseteq Schedules
  /\ Slots \in [Schedules -> SUBSET (Nat \ {0})]
  /\ \A x \in Schedules : IsFiniteSet(Slots[x])

ASSUME SwitchAssumption ==
  /\ FaultKinds \subseteq {"rejected", "lost"}
  /\ {UserDeletes, Prompt} \subseteq BOOLEAN

VARIABLES
  sched,         \* the parent in the API server
  child,         \* child[c]: the child created with the name suffix c
  clock,         \* the time
  seenSched,     \* the parent in the informer cache
  schedEvents,   \* changes of the parent its informer has not seen yet
  seen,          \* the children in the informer cache
  childEvents,   \* changes of children their informer has not seen yet
  queued,        \* is the parent's key in the workqueue?
  timer,         \* when the delaying queue adds the key, 0 for never
  pc,            \* where the worker is, "idle" without reconciliation
  sl,            \* local scheduledScan
  view,          \* local childScans
  now,           \* local now
  expr,          \* local expr, as the schedule it was parsed from
  toDelete,      \* children cleanupOldScans has yet to delete
  lastRun,       \* name of the last child ever created (history)
  faults, restarts, edits

serverVars == <<sched, child, schedEvents, childEvents, lastRun>>
cacheVars == <<seenSched, seen>>
localVars == <<sl, view, now, expr, toDelete>>
boundVars == <<faults, restarts, edits>>
vars == <<serverVars, clock, cacheVars, queued, timer, pc, localVars, boundVars>>

Times == 1..MaxTime
Names == Times        \* childScanName: the parent's name and the unix time

-----------------------------------------------------------------------------
(* Objects. *)

Scheds == [exists : BOOLEAN, schedule : Schedules, active : Names \cup {0},
           lastSchedule : 0..MaxTime, lastCompletion : 0..MaxTime]

NewSched(x) == [exists |-> TRUE, schedule |-> x, active |-> 0,
                lastSchedule |-> 0, lastCompletion |-> 0]

\* The absence of the parent, and the worker's variable before the Get.
NoSched == [NewSched(CHOOSE x \in Schedules : TRUE) EXCEPT !.exists = FALSE]

ScanPhases == {"", "Running", "Completed", "Failed"}

Children == [phase : ScanPhases \cup {"Absent"}, created : 0..MaxTime]

NoChild == [phase |-> "Absent", created |-> 0]

Present(c) == child[c].phase # "Absent"

Lifecycle == INSTANCE ScanLifecycle WITH
  Scans <- Names, phase <- [c \in Names |-> child[c].phase]

Finished(o) == o.phase \in {"Completed", "Failed"}

\* Merge patch of the status: the fields changed by the worker are set.
MergeStatus(server, base, new) ==
  [server EXCEPT
     !.active = IF new.active = base.active THEN @ ELSE new.active,
     !.lastSchedule = IF new.lastSchedule = base.lastSchedule
                        THEN @ ELSE new.lastSchedule,
     !.lastCompletion = IF new.lastCompletion = base.lastCompletion
                          THEN @ ELSE new.lastCompletion]

-----------------------------------------------------------------------------
(* Cron. *)

\* cron.Schedule.Next: the first match after t, the zero time without any.
NextMatch(x, t) == LET later == {s \in Slots[x] : s > t}
              IN  IF later = {} THEN 0 ELSE Min(later)

DueWhenPast(x, last, t) == last = 0 \/ t > NextMatch(x, last)          \* mutant

DueAlways(x, last, t) == TRUE                                     \* mutant

\* shouldCreate: never scheduled before, or !now.Before(nextSchedule).
ShouldCreate(x, last, t) == last = 0 \/ t >= NextMatch(x, last)

-----------------------------------------------------------------------------
Init == /\ \E x \in Schedules : sched = NewSched(x)
        /\ child = [c \in Names |-> NoChild]
        /\ clock = 1
        /\ seenSched = NoSched
        /\ schedEvents = <<sched>>
        /\ seen = child
        /\ childEvents = << >>
        /\ queued = FALSE
        /\ timer = 0
        /\ pc = "idle"
        /\ sl = NoSched
        /\ view = child
        /\ now = 0
        /\ expr = NoSched.schedule
        /\ toDelete = {}
        /\ lastRun = 0
        /\ faults = 0
        /\ restarts = 0
        /\ edits = 0

StoreSched(o) == /\ sched' = o
                 /\ schedEvents' = Append(schedEvents, o)

StoreChild(c, o) == /\ child' = [child EXCEPT ![c] = o]
                    /\ childEvents' = Append(childEvents, [name |-> c, object |-> o])

Fault(kind) == /\ kind \in FaultKinds
               /\ faults < MaxFaults
               /\ faults' = faults + 1
               /\ UNCHANGED <<restarts, edits>>

\* A call of the worker returns an error, and had no effect.
CallRejected == Fault("rejected")

\* A call of the worker has its effect, and returns an error.
CallLost == Fault("lost")

-----------------------------------------------------------------------------
(* Users, the compliancescan controller, the garbage collector, the clock. *)

Edit == /\ edits < MaxEdits
        /\ edits' = edits + 1
        /\ UNCHANGED <<faults, restarts>>

EditSchedule(x) ==
  /\ sched.exists
  /\ x # sched.schedule
  /\ Edit
  /\ StoreSched([sched EXCEPT !.schedule = x])
  /\ UNCHANGED <<child, childEvents, lastRun, clock, cacheVars, queued, timer, pc,
                 localVars>>

DeleteSched ==
  /\ UserDeletes
  /\ sched.exists
  /\ Edit
  /\ StoreSched(NoSched)
  /\ UNCHANGED <<child, childEvents, lastRun, clock, cacheVars, queued, timer, pc,
                 localVars>>

\* The compliancescan controller patches the phase of a child.
ScanAdvances(c) ==
  /\ \E to \in ScanPhases :
       /\ <<child[c].phase, to>> \in Lifecycle!Moves
       /\ StoreChild(c, [child[c] EXCEPT !.phase = to])
  /\ UNCHANGED <<sched, schedEvents, lastRun, clock, cacheVars, queued, timer, pc,
                 localVars, boundVars>>

\* A user deletes a child, or the garbage collector after its parent.
ChildVanishes(c) ==
  /\ Present(c)
  /\ \/ UserDeletes /\ Edit
     \/ ~sched.exists /\ UNCHANGED boundVars
  /\ StoreChild(c, NoChild)
  /\ UNCHANGED <<sched, schedEvents, lastRun, clock, cacheVars, queued, timer, pc,
                 localVars>>

TimerDue == timer # 0 /\ timer <= clock

Tick ==
  /\ clock < MaxTime
  /\ Prompt => pc = "idle" /\ ~TimerDue
  /\ clock' = clock + 1
  /\ UNCHANGED <<serverVars, cacheVars, queued, timer, pc, localVars, boundVars>>

-----------------------------------------------------------------------------
(* The informers and the workqueue. *)

\* For(&ScheduledComplianceScan{}): every event queues the parent.
DeliverSched ==
  /\ schedEvents # << >>
  /\ seenSched' = Head(schedEvents)
  /\ schedEvents' = Tail(schedEvents)
  /\ queued' = TRUE
  /\ UNCHANGED <<sched, child, childEvents, lastRun, clock, seen, timer, pc,
                 localVars, boundVars>>

\* Owns(&ComplianceScan{}): every event of a child queues its parent.
DeliverChild ==
  /\ childEvents # << >>
  /\ seen' = [seen EXCEPT ![Head(childEvents).name] = Head(childEvents).object]
  /\ childEvents' = Tail(childEvents)
  /\ queued' = TRUE
  /\ UNCHANGED <<sched, child, schedEvents, lastRun, clock, seenSched, timer, pc,
                 localVars, boundVars>>

TimerFires ==
  /\ TimerDue
  /\ timer' = 0
  /\ queued' = TRUE
  /\ UNCHANGED <<serverVars, clock, cacheVars, pc, localVars, boundVars>>

Dequeue ==
  /\ queued
  /\ pc = "idle"
  /\ queued' = FALSE
  /\ pc' = "get"
  /\ UNCHANGED <<serverVars, clock, cacheVars, timer, localVars, boundVars>>

-----------------------------------------------------------------------------
(* Reconcile, one step per call. *)

Goto(label) == /\ pc' = label
               /\ UNCHANGED <<queued, timer>>

Leave == /\ pc' = "idle"
         /\ sl' = NoSched
         /\ view' = [c \in Names |-> NoChild]
         /\ now' = 0
         /\ expr' = NoSched.schedule
         /\ toDelete' = {}

ReturnErrorSwallowed == Leave /\ UNCHANGED <<queued, timer>>       \* mutant

\* return reconcile.Result{}, err: the key is added again, rate limited.
ReturnError == Leave /\ queued' = TRUE /\ UNCHANGED timer

\* The delaying queue keeps the earlier of two times for the same key.
Earlier(t, u) == IF t = 0 THEN u ELSE IF u < t THEN u ELSE t

\* return Result{RequeueAfter: delay}, nil; no delay means no requeue.
ReturnAfter(delay) ==
  /\ Leave
  /\ timer' = IF delay = 0 THEN timer ELSE Earlier(timer, clock + delay)
  /\ UNCHANGED queued

ReconcileGet ==
  /\ pc = "get"
  /\ Len(schedEvents) <= MaxLag
  /\ \/ /\ CallRejected
        /\ ReturnError
     \/ /\ ~seenSched.exists                       \* "Object is gone"
        /\ ReturnAfter(0)
        /\ UNCHANGED boundVars
     \/ /\ seenSched.exists
        /\ sl' = seenSched
        /\ Goto("list")
        /\ UNCHANGED <<view, now, expr, toDelete, boundVars>>
  /\ UNCHANGED <<serverVars, clock, cacheVars>>

RunningOnly(o) == o.phase = "Running"                             \* mutant

\* Categorize child scans: neither Completed nor Failed means active.
IsActive(o) == o.phase \notin {"Absent", "Completed", "Failed"}

Active(children) == {c \in Names : IsActive(children[c])}

ReconcileList ==
  /\ pc = "list"
  /\ Len(childEvents) <= MaxLag
  /\ \/ /\ CallRejected
        /\ ReturnError
     \/ /\ Active(seen) # {} /\ sl.active # 0
        /\ ReturnAfter(RequeueDelay)
        /\ UNCHANGED boundVars
     \/ /\ Active(seen) = {} \/ sl.active = 0
        /\ view' = seen
        /\ now' = clock
        /\ Goto(IF Active(seen) # {} THEN "recover"
                ELSE IF sl.active # 0 THEN "clear" ELSE "due")
        /\ UNCHANGED <<sl, expr, toDelete, boundVars>>
  /\ UNCHANGED <<serverVars, clock, cacheVars>>

(***************************************************************************)
(* r.Client.Status().Patch of the parent, where new is the local variable   *)
(* as modified; after success it holds the server's answer.                 *)
(***************************************************************************)
Merged(new) == MergeStatus(sched, sl, new)

PatchOk(new) == /\ sched.exists
                /\ StoreSched(Merged(new))
                /\ UNCHANGED <<child, childEvents, lastRun, boundVars>>

PatchFails(new) ==
  /\ \/ ~sched.exists /\ UNCHANGED <<sched, schedEvents, boundVars>>    \* NotFound
     \/ CallRejected /\ UNCHANGED <<sched, schedEvents>>
     \/ sched.exists /\ CallLost /\ StoreSched(Merged(new))
  /\ UNCHANGED <<child, childEvents, lastRun>>

ClearActive ==
  LET new == [sl EXCEPT !.active = 0, !.lastCompletion = now]
  IN  /\ pc = "clear"
      /\ \/ /\ PatchOk(new)
            /\ sl' = Merged(new)
            /\ Goto("due")
            /\ UNCHANGED <<view, now, expr, toDelete>>
         \/ /\ PatchFails(new)
            /\ ReturnError
      /\ UNCHANGED <<clock, cacheVars>>

SetActiveNextRun(c, t) ==      \* mutant: the time of the next run is recorded
  [sl EXCEPT !.active = c, !.lastSchedule = NextMatch(sl.schedule, t)]

\* setActiveScan: of the scan just created, or of one found without reference.
SetActive(c, t) == [sl EXCEPT !.active = c, !.lastSchedule = t]

RecoverActive ==
  /\ pc = "recover"
  /\ \E c \in Active(view) :
       LET new == SetActive(c, view[c].created)
       IN  \/ PatchOk(new) /\ ReturnAfter(RequeueDelay)
           \/ PatchFails(new) /\ ReturnError
  /\ UNCHANGED <<clock, cacheVars>>

ExcessNewest(phase, limit) ==      \* mutant: sorted the other way around
  LET scans == {c \in Names : view[c].phase = phase}
  IN  {old \in SUBSET scans :
         /\ Cardinality(old) = (IF Cardinality(scans) > limit
                                  THEN Cardinality(scans) - limit ELSE 0)
         /\ \A c \in old, d \in scans \ old : view[c].created >= view[d].created}

\* cleanupOldScans: all but the newest limit ones, by creation timestamp.
Excess(phase, limit) ==
  LET scans == {c \in Names : view[c].phase = phase}
  IN  {old \in SUBSET scans :
         /\ Cardinality(old) = (IF Cardinality(scans) > limit
                                  THEN Cardinality(scans) - limit ELSE 0)
         /\ \A c \in old, d \in scans \ old : view[c].created <= view[d].created}

GotoCleanup ==
  /\ \E done \in Excess("Completed", SuccessfulLimit),
        failed \in Excess("Failed", FailedLimit) : toDelete' = done \cup failed
  /\ Goto("cleanup")

DecideToCreate ==
  /\ pc = "due"
  /\ \/ /\ sl.schedule \in Unparsable              \* "Invalid cron expression"
        /\ ReturnAfter(0)
     \/ /\ sl.schedule \notin Unparsable
        /\ expr' = sl.schedule
        /\ UNCHANGED <<sl, view, now>>
        /\ \/ /\ ShouldCreate(sl.schedule, sl.lastSchedule, now)
              /\ Goto("create")
              /\ UNCHANGED toDelete
           \/ /\ ~ShouldCreate(sl.schedule, sl.lastSchedule, now)
              /\ GotoCleanup
  /\ UNCHANGED <<serverVars, clock, cacheVars, boundVars>>

DeployComplianceScan ==
  LET deployed == /\ ~Present(now)
                  /\ StoreChild(now, [phase |-> "", created |-> clock])
                  /\ lastRun' = now
  IN  /\ pc = "create"
      /\ \/ /\ deployed
            /\ Goto("setActive")
            /\ UNCHANGED <<localVars, boundVars>>
         \/ /\ \/ Present(now) /\ UNCHANGED <<child, childEvents, lastRun, boundVars>>
               \/ CallRejected /\ UNCHANGED <<child, childEvents, lastRun>>
               \/ CallLost /\ deployed
            /\ ReturnError
      /\ UNCHANGED <<sched, schedEvents, clock, cacheVars>>

SetActiveScan ==
  LET new == SetActive(now, now)
  IN  /\ pc = "setActive"
      /\ \/ /\ PatchOk(new)
            /\ sl' = Merged(new)
            /\ GotoCleanup
            /\ UNCHANGED <<view, now, expr>>
         \/ /\ PatchFails(new)
            /\ ReturnError
      /\ UNCHANGED <<clock, cacheVars>>

\* Completed scans are deleted before Failed ones, older ones before newer ones.
DeletedBefore(c, d) ==
  \/ view[c].phase = "Completed" /\ view[d].phase = "Failed"
  \/ view[c].phase = view[d].phase /\ view[c].created < view[d].created

\* client.Delete by name; NotFound is ignored, an error is only logged.
CleanupOldScan ==
  /\ pc = "cleanup"
  /\ \E c \in toDelete :
       /\ ~\E d \in toDelete : DeletedBefore(d, c)
       /\ toDelete' = toDelete \ {c}
       /\ \/ /\ Present(c)
             /\ StoreChild(c, NoChild)
             /\ UNCHANGED boundVars \/ CallLost
          \/ /\ CallRejected \/ (~Present(c) /\ UNCHANGED boundVars)
             /\ UNCHANGED <<child, childEvents>>
  /\ UNCHANGED <<sched, schedEvents, lastRun, clock, cacheVars, queued, timer, pc,
                 sl, view, now, expr>>

\* RequeueAfter: max(nextRun.Sub(now), 0).
RequeueForNextRun ==
  LET nextRun == NextMatch(expr, IF sl.lastSchedule # 0 THEN sl.lastSchedule ELSE now)
  IN  /\ pc = "cleanup"
      /\ toDelete = {}
      /\ ReturnAfter(IF nextRun > now THEN nextRun - now ELSE 0)
      /\ UNCHANGED <<serverVars, clock, cacheVars, boundVars>>

\* The operator dies; the next one lists everything and starts with an empty queue.
Restart ==
  /\ restarts < MaxRestarts
  /\ restarts' = restarts + 1
  /\ Leave
  /\ seenSched' = sched
  /\ seen' = child
  /\ schedEvents' = << >>
  /\ childEvents' = << >>
  /\ queued' = (sched.exists \/ \E c \in Names : Present(c))
  /\ timer' = 0
  /\ UNCHANGED <<sched, child, lastRun, clock, faults, edits>>

-----------------------------------------------------------------------------
Worker == \/ ReconcileGet
          \/ ReconcileList
          \/ ClearActive
          \/ RecoverActive
          \/ DecideToCreate
          \/ DeployComplianceScan
          \/ SetActiveScan
          \/ CleanupOldScan
          \/ RequeueForNextRun

Informers == DeliverSched \/ DeliverChild

Next == \/ \E x \in Schedules : EditSchedule(x)
        \/ DeleteSched
        \/ \E c \in Names : ScanAdvances(c) \/ ChildVanishes(c)
        \/ Tick
        \/ Informers
        \/ TimerFires
        \/ Dequeue
        \/ Worker
        \/ Restart

Spec == Init /\ [][Next]_vars

\* The compliancescan controller finishes every scan (EventuallyFinished there).
ScanFinishes(c) == ScanAdvances(c) /\ child'[c].phase \in {"Completed", "Failed"}

(***************************************************************************)
(* The informers deliver, the delaying queue and the worker run, time       *)
(* passes and children finish. Users and failures are not fair.             *)
(***************************************************************************)
Fairness == /\ WF_vars(DeliverSched)
            /\ WF_vars(DeliverChild)
            /\ WF_vars(TimerFires)
            /\ WF_vars(Dequeue)
            /\ SF_vars(Worker)
            /\ SF_vars(Tick)
            /\ \A c \in Names : SF_vars(ScanFinishes(c))

FairSpec == Spec /\ Fairness

-----------------------------------------------------------------------------
(* Properties. *)

\* Every variable has its type; the worker's readings of the clock lie in the past.
TypeOK ==
  /\ sched \in Scheds
  /\ child \in [Names -> Children]
  /\ clock \in Times
  /\ seenSched \in Scheds
  /\ schedEvents \in Seq(Scheds)
  /\ seen \in [Names -> Children]
  /\ childEvents \in Seq([name : Names, object : Children])
  /\ queued \in BOOLEAN
  /\ timer \in Nat
  /\ pc \in {"idle", "get", "list", "clear", "recover", "due", "create",
             "setActive", "cleanup"}
  /\ sl \in Scheds
  /\ view \in [Names -> Children]
  /\ now \in 0..clock
  /\ expr \in Schedules
  /\ toDelete \subseteq Names
  /\ lastRun \in 0..clock
  /\ faults \in 0..MaxFaults
  /\ restarts \in 0..MaxRestarts
  /\ edits \in 0..MaxEdits

\* The other children with the result of c that are no older than c.
NoOlder(c) == {d \in Names \ {c} : /\ child[d].phase = child[c].phase
                                   /\ child[d].created >= child[c].created}

(***************************************************************************)
(* cleanupOldScans deletes only finished scans, and only while as many      *)
(* scans with the same result as the limit keeps remain that are no older,  *)
(* however stale its list of children is.                                   *)
(***************************************************************************)
KeepsNewest ==
  [][\A c \in Names :
       pc = "cleanup" /\ c \in toDelete \ toDelete' /\ Present(c) /\ ~Present(c)' =>
         \/ child[c].phase = "Completed" /\ Cardinality(NoOlder(c)) >= SuccessfulLimit
         \/ child[c].phase = "Failed" /\ Cardinality(NoOlder(c)) >= FailedLimit]_vars

(***************************************************************************)
(* A parent with a valid cron expression is never left without something    *)
(* that reconciles it again: a queued key, a timer or an event of its own   *)
(* on the way (the results Reconcile returns, For in SetupWithManager).     *)
(***************************************************************************)
AlwaysArmed ==
  pc = "idle" /\ sched.exists /\ sched.schedule \notin Unparsable
    => queued \/ timer # 0 \/ schedEvents # << >>

(***************************************************************************)
(* A parent has no two children that have not finished ("should not create  *)
(* a new ComplianceScan while one is active and requeue", Reconcile).       *)
(***************************************************************************)
AtMostOneActive ==
  Cardinality({c \in Names : child[c].phase \in {"", "Running"}}) <= 1

(***************************************************************************)
(* The reference to the active scan is cleared, and the completion time     *)
(* set, only once that scan has finished or is gone (Reconcile: "Detect     *)
(* active scan completion").                                                *)
(***************************************************************************)
ClearedIsFinished ==
  [][sched.active # 0 /\ sched'.active = 0 /\ sched'.exists
       => child[sched.active].phase \in {"Absent", "Completed", "Failed"}]_vars

(***************************************************************************)
(* After the first run a scan is created only when the cron expression the  *)
(* reconciliation read has matched since the last run recorded in the API   *)
(* server (Reconcile: shouldCreate).                                        *)
(***************************************************************************)
RunsOnSchedule ==
  [][lastRun' # lastRun /\ sched.exists =>
       \/ sched.lastSchedule = 0
       \/ \E s \in Slots[expr] : sched.lastSchedule < s /\ s <= clock]_vars

(***************************************************************************)
(* One match of the cron expression causes one run: between two created     *)
(* children there is a match (Reconcile, and its recovery of an orphaned    *)
(* scan whose status patch failed).                                         *)
(***************************************************************************)
OneRunPerSlot ==
  [][lastRun' # lastRun /\ sched.exists =>
       \/ lastRun = 0
       \/ \E s \in Slots[expr] : lastRun < s /\ s <= lastRun']_vars

(***************************************************************************)
(* Every match of the cron expression is followed by a run, late if a scan  *)
(* was still active (Reconcile's RequeueAfter, Owns and For).               *)
(***************************************************************************)
DueRuns ==
  \A s \in Times :
    s \in Slots[sched.schedule] /\ clock >= s ~> lastRun >= s \/ ~sched.exists
=============================================================================
