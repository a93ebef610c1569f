---------------------------- MODULE ProcessMemory ----------------------------
(***************************************************************************)
(* The memory of a diki-operator process: who refers to which piece of it   *)
(* while workers change objects in place.                                   *)
(*                                                                          *)
(* A worker reads an object from the informer cache (a deep copy), keeps    *)
(* another deep copy as the base of a patch, changes the object and sends   *)
(* what differs. The helper changes conditions in place, DeleteFunc clears  *)
(* what it removes, and the client decodes an answer into the object it was *)
(* given, over what is there. Each is safe only if nobody else refers to    *)
(* that memory: not the cache, which other goroutines read, not the base,   *)
(* not another worker.                                                      *)
(*                                                                          *)
(* One ComplianceScan worker per scan, one worker of the scheduled          *)
(* controller with a single parent. The control of the workers is that of   *)
(* ComplianceScanController and ScheduledScanController without the event   *)
(* filter, restarts and deletions, which leave the memory alone.            *)
(***************************************************************************)
EXTENDS ApiObjects, Conditions, FiniteSets, Functions

CONSTANTS
  Scans,        \* ComplianceScans
  Parent,       \* a ScheduledComplianceScan
  Config,       \* the configuration, shared by all workers
  None,         \* no label
  MaxBusy,      \* bound: workers that get something to do
  MaxTime,      \* bound: the clock
  MaxFaults     \* bound: failed calls

ASSUME NamesAssumption == /\ Parent \notin Scans
                          /\ None \notin Scans
ASSUME MemoryBoundsAssumption == /\ MaxBusy \in Nat
                                 /\ MaxTime \in Nat \ {0}
                                 /\ MaxFaults \in Nat

Workers == Scans \cup {Parent}

(***************************************************************************)
(* The objects of a worker w: the one in the informer cache, the local      *)
(* variable it was read into, the base of the patch, and what the worker    *)
(* creates: a ConfigMap or, for the parent, a child.                        *)
(***************************************************************************)
Cached(w)  == <<"cached", w>>
Local(w)   == <<"local", w>>
Base(w)    == <<"base", w>>
Created(w) == <<"created", w>>
Shared     == <<"config", Config>>

Objects == ({"cached", "local", "base", "created"} \X Workers) \cup {Shared}

\* References the controllers write through or replace.
ConditionsRef == <<"status", "conditions">>
LabelsRef     == <<"metadata", "labels">>
ActiveRef     == <<"status", "active">>
ScheduledRef  == <<"status", "lastScheduleTime">>
CompletedRef  == <<"status", "lastCompletionTime">>

Phases == {"", "Running", "Completed", "Failed"}

VARIABLES
  server,       \* server[s]: status of the scan s in the API server
  parentRefs,   \* the references in the parent's status in the API server
  memory,       \* memory[o]: the object o
  pc,           \* pc[w]: where the worker w is
  now,          \* the clock
  faults        \* failed calls so far

vars == <<server, parentRefs, memory, pc, now, faults>>

(***************************************************************************)
(* An object: where its references lead, its phase, and what it allocated:  *)
(* the array of its conditions and its label map (of which only the scan's  *)
(* UID matters). A cell is named after the object that allocated it and its *)
(* place there. len is the length of the object's own slice of conditions,  *)
(* whosever array that slice leads to.                                      *)
(***************************************************************************)
Object(refs, phase, array, label) ==
  [refs |-> refs, phase |-> phase, array |-> array, len |-> Len(array),
   label |-> label]

Own(o, paths) == [p \in paths |-> <<o, p>>]

\* The references refs, with those in paths leading to new memory of o.
Renew(o, refs, paths) == [p \in DOMAIN refs \cup paths |->
                            IF p \in paths THEN <<o, p>> ELSE refs[p]]

NoObject == Object(<< >>, "", << >>, None)

Owner(m, o, path) == m[o].refs[path][1]

\* status.conditions as the object o shows it.
Slice(m, o) ==
  IF ConditionsRef \in DOMAIN m[o].refs
  THEN SubSeq(m[Owner(m, o, ConditionsRef)].array, 1, m[o].len)
  ELSE << >>

-----------------------------------------------------------------------------
(* Changes of the memory. *)

\* *to is a copy of *from that makes the references in copies anew.
Copy(m, from, to, copies) ==
  [m EXCEPT ![to] =
     [refs  |-> [p \in DOMAIN m[from].refs |->
                   IF p \in copies THEN <<to, p>> ELSE m[from].refs[p]],
      phase |-> m[from].phase,
      array |-> Slice(m, from),
      len   |-> m[from].len,
      label |-> m[from].label]]

Cleared(n) == [i \in 1..n |-> ZeroCondition]

\* The array that o's conditions lie in now holds conditions, in place.
Overwrite(m, o, conditions) ==
  LET gone == Cleared(m[o].len - Len(conditions))
  IN  [m EXCEPT ![Owner(m, o, ConditionsRef)].array = conditions \o gone,
                ![o].len = Len(conditions)]

\* A new array for o's conditions.
Allocate(m, o, conditions) ==
  [m EXCEPT ![o] = [refs  |-> Renew(o, m[o].refs, {ConditionsRef}),
                    phase |-> m[o].phase,
                    array |-> conditions,
                    len   |-> Len(conditions),
                    label |-> m[o].label]]

\* status.conditions = UpdateConditions(status.conditions, ...)
Update(m, o, report) ==
  LET updated == UpdateConditions(Slice(m, o), report)
  IN  IF Has(Slice(m, o), report.type) THEN Overwrite(m, o, updated)
                                       ELSE Allocate(m, o, updated)

SetPhase(m, o, phase) == [m EXCEPT ![o].phase = phase]

\* The cells that lie behind an object's references.
Cells(m, o) == Range(m[o].refs)

\* The references of a scan whose status is st.
ScanRefs(st) ==
  {p \in ComplianceScanRefs :
     /\ p = ConditionsRef => st.conditions # << >>
     /\ p[1] = "status" /\ p # ConditionsRef => st.reported}

ParentRefs(set) ==
  {p \in ScheduledComplianceScanRefs : p[1] = "status" => p \in set}

(***************************************************************************)
(* The answer of the API server is decoded into o: into the memory that is  *)
(* there, and into new memory where o has a nil reference.                  *)
(***************************************************************************)
Decode(m, o, paths) ==
  [m EXCEPT ![o].refs = Renew(o, @, paths \ DOMAIN @)]

DecodeStatus(m, o, st) ==
  LET rest == Decode(SetPhase(m, o, st.phase), o, ScanRefs(st) \ {ConditionsRef})
  IN  IF ConditionsRef \in DOMAIN m[o].refs THEN Overwrite(rest, o, st.conditions)
                                            ELSE rest

-----------------------------------------------------------------------------
NewStatus == [phase |-> "", conditions |-> << >>, reported |-> FALSE]

CachedScan(s, st) == Object(Own(Cached(s), ScanRefs(st)), st.phase, st.conditions, None)

CachedParent(set) == Object(Own(Cached(Parent), ParentRefs(set)), "", << >>, None)

Init == /\ server = [s \in Scans |-> NewStatus]
        /\ parentRefs = {}
        /\ memory = [o \in Objects |->
                       IF o = Shared THEN Object(Own(Shared, {LabelsRef}), "", << >>, None)
                       ELSE IF o = Cached(Parent) THEN CachedParent({})
                       ELSE IF o[1] = "cached" THEN CachedScan(o[2], NewStatus)
                       ELSE NoObject]
        /\ \E busy \in SUBSET Workers :
             /\ Cardinality(busy) <= MaxBusy
             /\ pc = [w \in Workers |-> IF w \in busy THEN "queued" ELSE "idle"]
        /\ now = 1
        /\ faults = 0

Goto(w, label) == pc' = [pc EXCEPT ![w] = label]

Fault == faults < MaxFaults /\ faults' = faults + 1

\* The informer replaces the cached object by the one it received.
Deliver(w) ==
  LET received == IF w = Parent THEN CachedParent(parentRefs)
                                ELSE CachedScan(w, server[w])
  IN  /\ memory[Cached(w)] # received
      /\ memory' = [memory EXCEPT ![Cached(w)] = received]
      /\ UNCHANGED <<server, parentRefs, pc, now, faults>>

\* The report-exporter patches status.rulesets and status.outputs.
ExporterPatch(s) ==
  /\ server[s].phase # ""
  /\ ~server[s].reported
  /\ server' = [server EXCEPT ![s].reported = TRUE]
  /\ UNCHANGED <<parentRefs, memory, pc, now, faults>>

Tick == /\ now < MaxTime
        /\ now' = now + 1
        /\ UNCHANGED <<server, parentRefs, memory, pc, faults>>

-----------------------------------------------------------------------------
(* Reconcile of the compliancescan controller. *)

\* r.Client.Get and the phase check.
ReconcileGet(s) ==
  /\ pc[s] = "queued"
  /\ memory' = IF memory[Cached(s)].phase = ""
               THEN Copy(memory, Cached(s), Local(s), ComplianceScanCopies)
               ELSE memory
  /\ Goto(s, IF memory[Cached(s)].phase = "" THEN "running" ELSE "idle")
  /\ UNCHANGED <<server, parentRefs, now, faults>>

\* patch := client.MergeFrom(complianceScan.DeepCopy())
MergeFrom(s) == Copy(memory, Local(s), Base(s), ComplianceScanCopies)

\* The status of s after the patch from the base to the object in m.
Patched(m, s) ==
  LET base == Slice(m, Base(s))
      mine == Slice(m, Local(s))
  IN  [server[s] EXCEPT
         !.phase = IF m[Local(s)].phase = m[Base(s)].phase THEN @ ELSE m[Local(s)].phase,
         !.conditions = IF mine = base THEN @ ELSE mine]

\* The variables of a Reconcile of w that returns are gone.
Forget(m, w) == [m EXCEPT ![Local(w)] = NoObject, ![Base(w)] = NoObject,
                          ![Created(w)] = NoObject]

\* The base is of no use after its patch.
Used(m, w) == [m EXCEPT ![Base(w)] = NoObject]

\* r.Client.Status().Patch of the object as m has it.
PatchOk(s, m) == /\ server' = [server EXCEPT ![s] = Patched(m, s)]
                 /\ UNCHANGED <<parentRefs, now, faults>>

PatchFails(s, m) == /\ Fault
                    /\ server' \in {server, [server EXCEPT ![s] = Patched(m, s)]}
                    /\ UNCHANGED <<parentRefs, now>>

\* The changes to the local variable: a condition and the phase.
Changed(s, phase, report) ==
  SetPhase(Update(MergeFrom(s), Local(s), report), Local(s), phase)

PatchRunning(s) ==
  LET m == Changed(s, "Running", Report("Completed", "False", "ComplianceScanRunning",
                                        "running", now))
  IN  /\ pc[s] = "running"
      /\ \/ /\ PatchOk(s, m)
            /\ memory' = Used(DecodeStatus(m, Local(s), Patched(m, s)), s)
            /\ Goto(s, "labels")
         \/ /\ PatchFails(s, m)
            /\ memory' = Used(m, s)
            /\ Goto(s, "failed")

\* mutant: the labels of the configuration are the map that is filled in
LabelsOfConfig(s) == memory[Shared].refs

\* getLabels makes a map and copies the configured labels into it.
GetLabels(s) == Own(Created(s), {LabelsRef})

\* The options are read, which may fail, and the ConfigMap is put together.
DeployLabels(s) ==
  LET refs == GetLabels(s)
  IN  /\ pc[s] = "labels"
      /\ \/ /\ memory' = [memory EXCEPT ![Created(s)].refs = refs,
                                        ![refs[LabelsRef][1]].label = s]
            /\ Goto(s, "create")
            /\ UNCHANGED faults
         \/ /\ Fault
            /\ Goto(s, "failed")
            /\ UNCHANGED memory
      /\ UNCHANGED <<server, parentRefs, now>>

\* r.Client.Create of the ConfigMap, which sends its labels as they are now.
DeployCreate(s) ==
  /\ pc[s] = "create"
  /\ \/ Goto(s, "completed") /\ UNCHANGED faults
     \/ Goto(s, "failed") /\ Fault
  /\ UNCHANGED <<server, parentRefs, memory, now>>

PatchCompleted(s) ==
  LET m == Changed(s, "Completed", Report("Completed", "True", "ComplianceScanCompleted",
                                          "completed", now))
  IN  /\ pc[s] = "completed"
      /\ \/ /\ PatchOk(s, m)
            /\ memory' = Forget(DecodeStatus(m, Local(s), Patched(m, s)), s)
            /\ Goto(s, "idle")
         \/ /\ PatchFails(s, m)
            /\ memory' = Used(m, s)
            /\ Goto(s, "failed")

HandleFailedScan(s) ==
  LET changed == Changed(s, "Failed", Report("Failed", "True", "ComplianceScanFailed",
                                             "failed", now))
      m == Overwrite(changed, Local(s), WithoutCompleted(Slice(changed, Local(s))))
  IN  /\ pc[s] = "failed"
      /\ \/ /\ PatchOk(s, m)
            /\ memory' = Forget(DecodeStatus(m, Local(s), Patched(m, s)), s)
            /\ Goto(s, "idle")
         \/ /\ PatchFails(s, m)
            /\ memory' = Forget(m, s)
            /\ Goto(s, "queued")

-----------------------------------------------------------------------------
(* Reconcile of the scheduledcompliancescan controller. The list of         *)
(* children is a set of deep copies that nobody writes; what it shows is    *)
(* left open: an active scan or none.                                       *)

ScheduledGet ==
  /\ pc[Parent] = "queued"
  /\ memory' = Copy(memory, Cached(Parent), Local(Parent), ScheduledComplianceScanCopies)
  /\ Goto(Parent, "listed")
  /\ UNCHANGED <<server, parentRefs, now, faults>>

\* The base, and new memory behind the references set; those in dropped are nil.
Assign(dropped, set) ==
  LET m == Copy(memory, Local(Parent), Base(Parent), ScheduledComplianceScanCopies)
  IN  [m EXCEPT ![Local(Parent)].refs =
         Renew(Local(Parent), [p \in DOMAIN @ \ dropped |-> @[p]], set)]

\* r.Client.Status().Patch of the parent; the next step is at ok.
PatchParent(dropped, set, ok) ==
  LET answer  == (parentRefs \ dropped) \cup set
      decoded == Decode(Assign(dropped, set), Local(Parent), ParentRefs(answer))
  IN  /\ \/ /\ parentRefs' = answer
            /\ memory' = IF ok = "queued" THEN Forget(decoded, Parent)
                                          ELSE Used(decoded, Parent)
            /\ Goto(Parent, ok)
            /\ UNCHANGED faults
         \/ /\ Fault
            /\ parentRefs' \in {parentRefs, answer}
            /\ memory' = Forget(memory, Parent)
            /\ Goto(Parent, "queued")
      /\ UNCHANGED <<server, now>>

ActiveIsSet == ActiveRef \in DOMAIN memory[Local(Parent)].refs

\* The active reference is set and no child is active.
ClearActive == /\ pc[Parent] = "listed"
               /\ ActiveIsSet
               /\ PatchParent({ActiveRef}, {CompletedRef}, "due")

\* A child is active and the reference is not set.
RecoverActive == /\ pc[Parent] = "listed"
                 /\ ~ActiveIsSet
                 /\ PatchParent({}, {ActiveRef, ScheduledRef}, "queued")

\* mutant: Spec: parent.Spec.ScanTemplate.Spec
TemplateShared(path) == memory[Local(Parent)].refs[<<"spec", "scanTemplate">> \o path]

\* Spec: *parent.Spec.ScanTemplate.Spec.DeepCopy()
ChildSpec(path) ==
  IF path \in Under("spec", ComplianceScanSpecCopies)
  THEN <<Created(Parent), path>>
  ELSE memory[Local(Parent)].refs[<<"spec", "scanTemplate">> \o path]

NewChild ==
  Renew(Created(Parent),
        [p \in Under("spec", ComplianceScanSpecRefs) |-> ChildSpec(p)],
        {LabelsRef, <<"metadata", "ownerReferences">>})

DeployComplianceScan ==
  /\ pc[Parent] \in {"listed", "due"}
  /\ ~ActiveIsSet
  /\ \/ /\ memory' = [memory EXCEPT ![Created(Parent)].refs = NewChild]
        /\ Goto(Parent, "created")
        /\ UNCHANGED faults
     \/ /\ Fault
        /\ memory' = Forget(memory, Parent)
        /\ Goto(Parent, "queued")
  /\ UNCHANGED <<server, parentRefs, now>>

SetActiveScan == /\ pc[Parent] = "created"
                 /\ PatchParent({}, {ActiveRef, ScheduledRef}, "queued")

\* A child is active, nothing is due, or the expression is not valid.
ScheduledReturn == /\ pc[Parent] \in {"listed", "due"}
                   /\ memory' = Forget(memory, Parent)
                   /\ Goto(Parent, "queued")
                   /\ UNCHANGED <<server, parentRefs, now, faults>>

-----------------------------------------------------------------------------
ScanWorker(s) == \/ ReconcileGet(s)
                 \/ PatchRunning(s)
                 \/ DeployLabels(s)
                 \/ DeployCreate(s)
                 \/ PatchCompleted(s)
                 \/ HandleFailedScan(s)

ParentWorker == \/ ScheduledGet
                \/ ClearActive
                \/ RecoverActive
                \/ DeployComplianceScan
                \/ SetActiveScan
                \/ ScheduledReturn

Next == \/ \E s \in Scans : ScanWorker(s) \/ ExporterPatch(s)
        \/ \E w \in Workers : Deliver(w)
        \/ ParentWorker
        \/ Tick

Spec == Init /\ [][Next]_vars

-----------------------------------------------------------------------------
(* Properties. *)

Labels == {"queued", "idle", "running", "labels", "create", "completed", "failed",
           "listed", "due", "created"}

AllConditions == [type : ConditionTypes, status : ConditionStatuses,
                  reason : {"ComplianceScanRunning", "ComplianceScanCompleted",
                            "ComplianceScanFailed"},
                  message : {"running", "completed", "failed"},
                  lastUpdateTime : 1..MaxTime, lastTransitionTime : 1..MaxTime]

\* The types; a condition in the API server is complete and dated.
MemoryTypeOK ==
  /\ \A s \in Scans : /\ server[s].phase \in Phases
                      /\ Range(server[s].conditions) \subseteq AllConditions
                      /\ server[s].reported \in BOOLEAN
  /\ parentRefs \subseteq {ActiveRef, ScheduledRef, CompletedRef}
  /\ \A o \in Objects : \A p \in DOMAIN memory[o].refs :
       memory[o].refs[p][1] \in Objects
  /\ pc \in [Workers -> Labels]
  /\ now \in 1..MaxTime
  /\ faults \in 0..MaxFaults

(***************************************************************************)
(* What a worker changes, or hands to the client to decode an answer into,  *)
(* is its own: no reference in it, at any depth, leads to memory that the   *)
(* informer cache, the configuration or another object refers to (the       *)
(* generated DeepCopyInto functions, Get from the cache, the template's     *)
(* copy in deployComplianceScan, getLabels).                                *)
(***************************************************************************)
NothingShared ==
  \A w \in Workers : \A mine \in {Local(w), Created(w)} :
    \A o \in Objects \ {mine} : Cells(memory, mine) \cap Cells(memory, o) = {}

(***************************************************************************)
(* The conditions in the API server say what the phase says, one condition  *)
(* per type: no change made in place is lost because the patch's base       *)
(* changed along (Reconcile, handleFailedScan).                             *)
(***************************************************************************)
StatusConsistent ==
  \A s \in Scans :
    LET st == server[s]
        Says(type, status) == \E c \in Range(st.conditions) :
                                c.type = type /\ c.status = status
    IN  /\ OnePerType(st.conditions)
        /\ st.phase = "" => st.conditions = << >>
        /\ st.phase = "Running" => Says("Completed", "False")
        /\ st.phase = "Completed" => Says("Completed", "True")
        /\ st.phase = "Failed" => Says("Failed", "True")
        /\ st.phase = "Failed" => ~Has(st.conditions, "Completed")
        /\ st.phase \in {"Running", "Completed"} => ~Has(st.conditions, "Failed")

(***************************************************************************)
(* A condition that appears or changes its status is dated at that moment,  *)
(* and one that keeps its status never goes back in time, whatever is       *)
(* retried from an old copy (Build: "Any changes to status set the          *)
(* LastTransitionTime").                                                    *)
(***************************************************************************)
Dated(before, c) ==
  IF \E old \in Range(before) : old.type = c.type /\ old.status = c.status
  THEN \E old \in Range(before) : /\ old.type = c.type
                                  /\ old.lastTransitionTime <= c.lastTransitionTime
                                  /\ old.lastUpdateTime <= c.lastUpdateTime
  ELSE c.lastTransitionTime = now

TransitionsAreDated ==
  [][\A s \in Scans : \A c \in Range(server'[s].conditions) :
       Dated(server[s].conditions, c)]_vars

(***************************************************************************)
(* A ConfigMap is sent with the UID of the scan it is made for, though all  *)
(* workers build its labels from the one configuration (getLabels).         *)
(***************************************************************************)
ConfigMapNamesItsScan ==
  \A s \in Scans : pc[s] = "create" =>
    memory[Owner(memory, Created(s), LabelsRef)].label = s
=============================================================================
