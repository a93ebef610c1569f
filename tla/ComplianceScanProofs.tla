------------------------ MODULE ComplianceScanProofs ------------------------
(* Invariants of the compliancescan controller, for all constants. *)
EXTENDS ComplianceScanController, TLAPS

-----------------------------------------------------------------------------
(* The status values the patches compute. *)

\* What UpdateConditions makes of the conditions of a phase.
LEMMA UpdatedConditions ==
  /\ UpdateConditions(ConditionsOf(""), "Completed", "False") =
       ConditionsOf("Running")
  /\ UpdateConditions(ConditionsOf("Running"), "Completed", "True") =
       ConditionsOf("Completed")
  /\ \A p \in {"Running", "Completed"} :
       {c \in UpdateConditions(ConditionsOf(p), "Failed", "True") :
          c.type # "Completed"} = ConditionsOf("Failed")
<1>1. UpdateConditions(ConditionsOf(""), "Completed", "False") =
        ConditionsOf("Running")
  BY DEF UpdateConditions, Build, ConditionsOf
<1>2. UpdateConditions(ConditionsOf("Running"), "Completed", "True") =
        ConditionsOf("Completed")
  BY DEF UpdateConditions, Build, ConditionsOf
<1>3. {c \in UpdateConditions(ConditionsOf("Running"), "Failed", "True") :
         c.type # "Completed"} = ConditionsOf("Failed")
  BY DEF UpdateConditions, Build, ConditionsOf
<1>4. {c \in UpdateConditions(ConditionsOf("Completed"), "Failed", "True") :
         c.type # "Completed"} = ConditionsOf("Failed")
  BY DEF UpdateConditions, Build, ConditionsOf
<1> QED BY <1>1, <1>2, <1>3, <1>4

\* Reconcile's first patch turns a new scan into a Running one.
LEMMA RunningStatusValue ==
  ASSUME NEW o \in Objects, o.phase = "", o.conditions = ConditionsOf("")
  PROVE  RunningStatus(o) = [uid |-> o.uid, phase |-> "Running",
                             conditions |-> ConditionsOf("Running")]
<1>1. UpdateConditions(o.conditions, "Completed", "False") = ConditionsOf("Running")
  BY UpdatedConditions
<1> QED BY <1>1 DEF RunningStatus

\* Reconcile's last patch turns a Running scan into a Completed one.
LEMMA CompletedStatusValue ==
  ASSUME NEW o \in Objects, o.phase = "Running",
         o.conditions = ConditionsOf("Running")
  PROVE  CompletedStatus(o) = [uid |-> o.uid, phase |-> "Completed",
                               conditions |-> ConditionsOf("Completed")]
<1>1. UpdateConditions(o.conditions, "Completed", "True") = ConditionsOf("Completed")
  BY UpdatedConditions
<1> QED BY <1>1 DEF CompletedStatus

\* handleFailedScan removes the Completed condition, whatever its status was.
LEMMA FailedStatusValue ==
  ASSUME NEW o \in Objects, o.phase \in {"Running", "Completed"},
         o.conditions = ConditionsOf(o.phase)
  PROVE  FailedStatus(o) = [uid |-> o.uid, phase |-> "Failed",
                            conditions |-> ConditionsOf("Failed")]
<1>1. {c \in UpdateConditions(o.conditions, "Failed", "True") :
         c.type # "Completed"} = ConditionsOf("Failed")
  BY UpdatedConditions
<1> QED BY <1>1 DEF FailedStatus

\* The conditions of a phase are well-formed and tell the phase.
LEMMA ConditionsOfPhase ==
  /\ \A p \in Phases : ConditionsOf(p) \in SUBSET Conditions
  /\ \A p, q \in Phases : ConditionsOf(p) = ConditionsOf(q) => p = q
<1>1. /\ ConditionsOf("") = {}
      /\ ConditionsOf("Running") = {[type |-> "Completed", status |-> "False"]}
      /\ ConditionsOf("Completed") = {[type |-> "Completed", status |-> "True"]}
      /\ ConditionsOf("Failed") = {[type |-> "Failed", status |-> "True"]}
  BY DEF ConditionsOf
<1>2. \A p \in Phases : ConditionsOf(p) \in SUBSET Conditions
  <2>1. /\ [type |-> "Completed", status |-> "False"] \in Conditions
        /\ [type |-> "Completed", status |-> "True"] \in Conditions
        /\ [type |-> "Failed", status |-> "True"] \in Conditions
    BY DEF Conditions
  <2> QED BY <1>1, <2>1, Zenon DEF Phases
<1>3. /\ [type |-> "Completed", status |-> "False"] # [type |-> "Completed", status |-> "True"]
      /\ [type |-> "Completed", status |-> "False"] # [type |-> "Failed", status |-> "True"]
      /\ [type |-> "Completed", status |-> "True"] # [type |-> "Failed", status |-> "True"]
  OBVIOUS
<1>4. \A p, q \in Phases : ConditionsOf(p) = ConditionsOf(q) => p = q
  BY <1>1, <1>3, Zenon DEF Phases
<1> QED BY <1>2, <1>4

(***************************************************************************)
(* A patch that changes the phase changes the conditions too, so both       *)
(* fields are sent and the server's object gets both.                       *)
(***************************************************************************)
LEMMA MergePatchValue ==
  ASSUME NEW server \in Objects, NEW base \in Objects, NEW new \in Objects,
         base.conditions = ConditionsOf(base.phase),
         new.conditions = ConditionsOf(new.phase),
         new.phase # base.phase
  PROVE  MergePatch(server, base, new) =
           [uid |-> server.uid, phase |-> new.phase,
            conditions |-> ConditionsOf(new.phase)]
<1>1. new.conditions # base.conditions
  BY ConditionsOfPhase DEF Objects
<1> QED BY <1>1 DEF MergePatch

-----------------------------------------------------------------------------
(* What each kind of step does to the copies of scans. *)

\* The empty object is a copy of every scan's absence; a new one is of itself.
LEMMA NewScanValue ==
  /\ NoScan \in Objects
  /\ \A n \in Nat : CopyOK(NoScan, n)
  /\ \A n \in 1..MaxIncarnations : /\ NewScan(n) \in Objects
                                   /\ CopyOK(NewScan(n), n)
                                   /\ NewScan(n) # NoScan
                                   /\ NewScan(n).uid = n
                                   /\ NewScan(n).phase = ""
<1>1. ConditionsOf("") = {}
  BY DEF ConditionsOf
<1>2. {} \in SUBSET Conditions /\ "" \in Phases
  BY DEF Phases
<1>3. \A n \in 0..MaxIncarnations :
        /\ NewScan(n) \in Objects
        /\ NewScan(n).uid = n
        /\ NewScan(n).phase = ""
        /\ NewScan(n).conditions = ConditionsOf(NewScan(n).phase)
  BY <1>1, <1>2 DEF NewScan, Objects
<1>4. 0 \in 0..MaxIncarnations /\ \A n \in 1..MaxIncarnations : n \in 1..n
  BY BoundsAssumption
<1>5. NoScan \in Objects /\ \A n \in Nat : CopyOK(NoScan, n)
  BY <1>3, <1>4 DEF NoScan, CopyOK
<1>6. ASSUME NEW n \in 1..MaxIncarnations
      PROVE  /\ NewScan(n) \in Objects
             /\ CopyOK(NewScan(n), n)
             /\ NewScan(n) # NoScan
             /\ NewScan(n).uid = n
             /\ NewScan(n).phase = ""
  <2>1. n \in 0..MaxIncarnations /\ n # 0
    BY BoundsAssumption
  <2>2. NoScan.uid = 0
    BY <1>3, <1>4 DEF NoScan
  <2> QED BY <1>3, <1>4, <2>1, <2>2 DEF CopyOK
<1> QED BY <1>5, <1>6

\* A copy stays a copy when the name is given to yet another scan.
LEMMA CopyStays ==
  ASSUME NEW m \in Nat, NEW n \in Nat, m <= n, NEW o \in Objects, CopyOK(o, m)
  PROVE  CopyOK(o, n)
BY DEF CopyOK

\* Storing a good object keeps the API server and the event stream good.
LEMMA StoreCopies ==
  ASSUME TypeOK, CopiesOK, NEW s \in Scans, NEW o \in Objects, Store(s, o),
         incarnation' \in [Scans -> 0..MaxIncarnations],
         \A t \in Scans : incarnation[t] <= incarnation'[t],
         CopyOK(o, incarnation'[s])
  PROVE  /\ scan' \in [Scans -> Objects]
         /\ watch' \in [Scans -> Seq(Objects)]
         /\ \A t \in Scans :
              /\ CopyOK(scan'[t], incarnation'[t])
              /\ \A i \in 1..Len(watch'[t]) : CopyOK(watch'[t][i], incarnation'[t])
<1>1. scan' \in [Scans -> Objects] /\ watch' \in [Scans -> Seq(Objects)]
  BY DEF TypeOK, Store
<1>2. ASSUME NEW t \in Scans
      PROVE  /\ CopyOK(scan'[t], incarnation'[t])
             /\ \A i \in 1..Len(watch'[t]) : CopyOK(watch'[t][i], incarnation'[t])
  <2>1. \A p \in Objects :
          CopyOK(p, incarnation[t]) => CopyOK(p, incarnation'[t])
    <3> TAKE p \in Objects
    <3>1. incarnation[t] \in Nat /\ incarnation'[t] \in Nat
      BY BoundsAssumption DEF TypeOK
    <3> QED BY <3>1, CopyStays
  <2>2. CASE t = s
    <3>1. /\ scan'[t] = o
          /\ watch'[t] = Append(watch[t], o)
          /\ watch[t] \in Seq(Objects)
      BY <2>2 DEF Store, TypeOK
    <3>2. ASSUME NEW i \in 1..Len(watch'[t])
          PROVE  CopyOK(watch'[t][i], incarnation'[t])
      <4>1. watch'[t][i] = o \/ (i \in 1..Len(watch[t]) /\ watch'[t][i] = watch[t][i])
        BY <3>1
      <4>2. i \in 1..Len(watch[t]) => watch[t][i] \in Objects
        BY <3>1
      <4> QED BY <4>1, <4>2, <2>1, <2>2 DEF CopiesOK
    <3> QED BY <3>1, <3>2, <2>2
  <2>3. CASE t # s
    <3>1. scan'[t] = scan[t] /\ watch'[t] = watch[t]
      BY <2>3 DEF Store, TypeOK
    <3>2. scan[t] \in Objects /\ watch[t] \in Seq(Objects)
      BY DEF TypeOK
    <3>3. \A i \in 1..Len(watch[t]) : watch[t][i] \in Objects
      BY <3>2
    <3>4. CopyOK(scan[t], incarnation[t])
      BY DEF CopiesOK
    <3>5. \A i \in 1..Len(watch[t]) : CopyOK(watch[t][i], incarnation[t])
      BY DEF CopiesOK
    <3> QED BY <3>1, <3>2, <3>3, <3>4, <3>5, <2>1
  <2> QED BY <2>2, <2>3
<1> QED BY <1>1, <1>2

(***************************************************************************)
(* A status patch of the worker on s, applied to the object of that name:   *)
(* the result has the patch's phase and conditions and the stored UID.      *)
(***************************************************************************)
LEMMA MergedValue ==
  ASSUME TypeOK, CopiesOK, NEW s \in Scans, scan[s] # NoScan,
         NEW new \in Objects, new.conditions = ConditionsOf(new.phase),
         new.phase # obj[s].phase
  PROVE  /\ Merged(s, new) = [uid |-> scan[s].uid, phase |-> new.phase,
                              conditions |-> ConditionsOf(new.phase)]
         /\ Merged(s, new) \in Objects
         /\ CopyOK(Merged(s, new), incarnation[s])
<1>1. scan[s] \in Objects /\ obj[s] \in Objects
  BY DEF TypeOK
<1>2. obj[s].conditions = ConditionsOf(obj[s].phase)
  BY DEF CopiesOK, CopyOK
<1>3. Merged(s, new) = [uid |-> scan[s].uid, phase |-> new.phase,
                        conditions |-> ConditionsOf(new.phase)]
  BY <1>1, <1>2, MergePatchValue DEF Merged
<1>4. new.phase \in Phases /\ ConditionsOf(new.phase) \in SUBSET Conditions
  BY ConditionsOfPhase DEF Objects
<1>5. scan[s].uid \in 1..incarnation[s] /\ scan[s].uid \in 0..MaxIncarnations
  BY <1>1 DEF CopiesOK, CopyOK, Objects
<1> QED BY <1>3, <1>4, <1>5 DEF Objects, CopyOK

-----------------------------------------------------------------------------
(* The inductive invariant. *)

LEMMA InitInvariant == Init => InductiveInvariant
<1> SUFFICES ASSUME Init PROVE InductiveInvariant
  OBVIOUS
<1> USE BoundsAssumption DEF Init
<1>1. TypeOK
  <2>1. /\ scan \in [Scans -> Objects]
        /\ cache \in [Scans -> Objects]
        /\ obj \in [Scans -> Objects]
    BY NewScanValue
  <2>2. watch \in [Scans -> Seq(Objects)]
    OBVIOUS
  <2>3. /\ incarnation \in [Scans -> 0..MaxIncarnations]
        /\ configMaps \in [Scans -> [0..MaxIncarnations -> Nat]]
    OBVIOUS
  <2> QED BY <2>1, <2>2, <2>3 DEF TypeOK
<1>2. CopiesOK
  <2>1. ASSUME NEW s \in Scans
        PROVE  /\ scan[s] = NoScan /\ cache[s] = NoScan /\ obj[s] = NoScan
               /\ incarnation[s] \in Nat
               /\ 1..Len(watch[s]) = {}
    OBVIOUS
  <2> QED BY <2>1, NewScanValue DEF CopiesOK
<1>3. NewestIsStored /\ WorkerOK
  BY DEF NewestIsStored, WorkerOK
<1>4. CompletedWasConfigured
  <2>1. NoScan.phase # "Completed"
    BY DEF NoScan, NewScan
  <2> QED BY <2>1 DEF CompletedWasConfigured
<1> QED BY <1>1, <1>2, <1>3, <1>4 DEF InductiveInvariant

\* A user's or the scheduled controller's Create.
LEMMA CreateScanInvariant ==
  ASSUME InductiveInvariant, NEW s \in Scans, CreateScan(s)
  PROVE  InductiveInvariant'
<1> DEFINE n == incarnation[s] + 1
<1> USE DEF InductiveInvariant
<1>1. n \in 1..MaxIncarnations /\ incarnation[s] \in Nat
  BY BoundsAssumption DEF TypeOK, CreateScan
<1>2. /\ incarnation' \in [Scans -> 0..MaxIncarnations]
      /\ incarnation'[s] = n
      /\ \A t \in Scans : t # s => incarnation'[t] = incarnation[t]
      /\ \A t \in Scans : incarnation[t] \in Nat /\ incarnation[t] <= incarnation'[t]
  <2>1. incarnation \in [Scans -> 0..MaxIncarnations]
    BY DEF TypeOK
  <2>2. incarnation' = [incarnation EXCEPT ![s] = n]
    BY DEF CreateScan
  <2>3. 1..MaxIncarnations \subseteq 0..MaxIncarnations
    BY BoundsAssumption
  <2>4. incarnation' \in [Scans -> 0..MaxIncarnations]
    BY <1>1, <2>1, <2>2, <2>3
  <2>5. /\ incarnation'[s] = n
        /\ \A t \in Scans : t # s => incarnation'[t] = incarnation[t]
    BY <2>1, <2>2
  <2>6. \A t \in Scans : incarnation[t] \in Nat
    BY <2>1, BoundsAssumption
  <2>7. \A t \in Scans : incarnation[t] <= incarnation'[t]
    BY <2>5, <2>6
  <2> QED BY <2>4, <2>5, <2>6, <2>7
<1>3. /\ scan' \in [Scans -> Objects]
      /\ watch' \in [Scans -> Seq(Objects)]
      /\ \A t \in Scans :
           /\ CopyOK(scan'[t], incarnation'[t])
           /\ \A i \in 1..Len(watch'[t]) : CopyOK(watch'[t][i], incarnation'[t])
  BY <1>1, <1>2, NewScanValue, StoreCopies DEF CreateScan
<1>4. TypeOK'
  BY <1>2, <1>3 DEF TypeOK, CreateScan, workerVars
<1>5. CopiesOK'
  <2>1. ASSUME NEW t \in Scans
        PROVE  CopyOK(cache'[t], incarnation'[t]) /\ CopyOK(obj'[t], incarnation'[t])
    <3>1. /\ cache'[t] = cache[t] /\ obj'[t] = obj[t]
          /\ cache[t] \in Objects /\ obj[t] \in Objects
          /\ incarnation'[t] \in Nat
      BY <1>2, BoundsAssumption DEF CreateScan, workerVars, TypeOK
    <3> QED BY <3>1, <1>2, CopyStays DEF CopiesOK
  <2> QED BY <1>3, <2>1 DEF CopiesOK
<1>6. /\ scan'[s] = NewScan(n)
      /\ \A t \in Scans : t # s => scan'[t] = scan[t]
  BY DEF CreateScan, Store, TypeOK
<1>7. NewestIsStored'
  <2>1. NewScan(n).uid = n
    BY <1>1, NewScanValue
  <2> QED BY <1>2, <1>6, <2>1 DEF NewestIsStored
<1>8. WorkerOK'
  <2>1. \A t \in Scans : Configured(t) => Configured(t)'
    BY <1>2 DEF Configured, CreateScan
  <2> QED BY <2>1 DEF WorkerOK, CreateScan, workerVars
<1>9. CompletedWasConfigured'
  <2>1. NewScan(n).phase # "Completed"
    BY <1>1, NewScanValue
  <2> QED BY <1>6, <2>1 DEF CompletedWasConfigured, CreateScan
<1> QED BY <1>4, <1>5, <1>7, <1>8, <1>9

\* A deletion; the objects it leaves behind are untouched.
LEMMA DeleteScanInvariant ==
  ASSUME InductiveInvariant, NEW s \in Scans, DeleteScan(s)
  PROVE  InductiveInvariant'
<1> USE DEF InductiveInvariant
<1>1. /\ incarnation' = incarnation
      /\ \A t \in Scans : incarnation[t] \in Nat
  BY BoundsAssumption DEF TypeOK, DeleteScan
<1>2. /\ scan' \in [Scans -> Objects]
      /\ watch' \in [Scans -> Seq(Objects)]
      /\ \A t \in Scans :
           /\ CopyOK(scan'[t], incarnation'[t])
           /\ \A i \in 1..Len(watch'[t]) : CopyOK(watch'[t][i], incarnation'[t])
  <2>1. NoScan \in Objects /\ CopyOK(NoScan, incarnation'[s])
    BY <1>1, NewScanValue
  <2>2. incarnation' \in [Scans -> 0..MaxIncarnations] /\ Store(s, NoScan)
    BY <1>1 DEF TypeOK, DeleteScan
  <2>3. \A t \in Scans : incarnation[t] <= incarnation'[t]
    BY <1>1
  <2> QED BY <2>1, <2>2, <2>3, StoreCopies
<1>3. TypeOK'
  BY <1>1, <1>2 DEF TypeOK, DeleteScan, workerVars
<1>4. CopiesOK'
  BY <1>1, <1>2 DEF CopiesOK, DeleteScan, workerVars
<1>5. /\ scan'[s] = NoScan
      /\ \A t \in Scans : t # s => scan'[t] = scan[t]
  BY DEF DeleteScan, Store, TypeOK
<1>6. NewestIsStored'
  BY <1>1, <1>5 DEF NewestIsStored
<1>7. WorkerOK'
  BY <1>1 DEF WorkerOK, Configured, DeleteScan, workerVars
<1>8. CompletedWasConfigured'
  <2>1. NoScan.phase # "Completed"
    BY DEF NoScan, NewScan
  <2> QED BY <1>5, <2>1 DEF CompletedWasConfigured, DeleteScan
<1> QED BY <1>3, <1>4, <1>6, <1>7, <1>8

\* One event reaches the informer cache: an older copy replaces a yet older one.
LEMMA DeliverInvariant ==
  ASSUME InductiveInvariant, NEW s \in Scans, Deliver(s)
  PROVE  InductiveInvariant'
<1> USE DEF InductiveInvariant
<1>1. watch[s] \in Seq(Objects) /\ Len(watch[s]) \in Nat \ {0}
  BY DEF TypeOK, Deliver
<1>2. /\ Head(watch[s]) = watch[s][1]
      /\ Head(watch[s]) \in Objects
      /\ Tail(watch[s]) \in Seq(Objects)
      /\ Len(Tail(watch[s])) = Len(watch[s]) - 1
      /\ \A i \in 1..Len(Tail(watch[s])) : Tail(watch[s])[i] = watch[s][i + 1]
  BY <1>1
<1>3. TypeOK'
  BY <1>2 DEF TypeOK, Deliver, workerVars
<1>4. CopiesOK'
  <2>1. ASSUME NEW t \in Scans, t # s
        PROVE  cache'[t] = cache[t] /\ watch'[t] = watch[t]
    BY <2>1 DEF Deliver, TypeOK
  <2>2. /\ cache'[s] = watch[s][1]
        /\ watch'[s] = Tail(watch[s])
    BY <1>2 DEF Deliver, TypeOK
  <2>3. CopyOK(cache'[s], incarnation[s])
    BY <1>1, <2>2 DEF CopiesOK
  <2>4. ASSUME NEW i \in 1..Len(watch'[s])
        PROVE  CopyOK(watch'[s][i], incarnation[s])
    <3>1. i + 1 \in 1..Len(watch[s]) /\ watch'[s][i] = watch[s][i + 1]
      BY <1>1, <1>2, <2>2
    <3> QED BY <3>1 DEF CopiesOK
  <2>5. scan' = scan /\ incarnation' = incarnation /\ obj' = obj
    BY DEF Deliver, workerVars
  <2> QED BY <2>1, <2>3, <2>4, <2>5 DEF CopiesOK
<1>5. NewestIsStored' /\ WorkerOK' /\ CompletedWasConfigured'
  BY DEF NewestIsStored, WorkerOK, Configured, CompletedWasConfigured, Deliver,
         workerVars
<1> QED BY <1>3, <1>4, <1>5

\* A list brings every copy in the cache up to date.
LEMMA RelistInvariant ==
  ASSUME InductiveInvariant, Relist
  PROVE  InductiveInvariant'
<1> USE DEF InductiveInvariant
<1>1. TypeOK'
  BY BoundsAssumption DEF TypeOK, Relist, Fault, workerVars
<1>2. CopiesOK'
  <2>1. ASSUME NEW t \in Scans
        PROVE  cache'[t] = scan[t] /\ 1..Len(watch'[t]) = {}
    BY DEF Relist
  <2> QED BY <2>1 DEF CopiesOK, Relist, workerVars
<1>3. NewestIsStored' /\ WorkerOK' /\ CompletedWasConfigured'
  BY DEF NewestIsStored, WorkerOK, Configured, CompletedWasConfigured, Relist,
         workerVars
<1> QED BY <1>1, <1>2, <1>3

\* The process starts anew: no worker, no old copy.
LEMMA RestartInvariant ==
  ASSUME InductiveInvariant, Restart
  PROVE  InductiveInvariant'
<1> USE DEF InductiveInvariant
<1>1. TypeOK'
  <2>1. /\ obj' \in [Scans -> Objects]
        /\ watch' \in [Scans -> Seq(Objects)]
    <3>1. << >> \in Seq(Objects)
      OBVIOUS
    <3>2. NoScan \in Objects
      BY NewScanValue
    <3> QED BY <3>1, <3>2 DEF Restart
  <2>2. /\ pc' \in [Scans -> {"idle", "get", "running", "deploy", "completed",
                             "failed"}]
        /\ expired' \in [Scans -> BOOLEAN]
    BY DEF Restart
  <2>3. queue' \subseteq Scans /\ restarts' \in 0..MaxRestarts
    BY BoundsAssumption DEF TypeOK, Restart
  <2> QED BY <2>1, <2>2, <2>3 DEF TypeOK, Restart
<1>2. CopiesOK'
  <2>1. ASSUME NEW t \in Scans
        PROVE  /\ cache'[t] = scan[t] /\ obj'[t] = NoScan
               /\ 1..Len(watch'[t]) = {} /\ incarnation[t] \in Nat
    BY BoundsAssumption DEF Restart, TypeOK
  <2> QED BY <2>1, NewScanValue DEF CopiesOK, Restart
<1>3. NewestIsStored' /\ WorkerOK' /\ CompletedWasConfigured'
  BY DEF NewestIsStored, WorkerOK, CompletedWasConfigured, Restart
<1> QED BY <1>1, <1>2, <1>3

\* A worker takes a key, or its context expires: no copy changes.
LEMMA QuietInvariant ==
  ASSUME InductiveInvariant, NEW s \in Scans, Dequeue(s) \/ ContextExpires(s)
  PROVE  InductiveInvariant'
<1> USE DEF InductiveInvariant
<1>1. TypeOK'
  <2>1. pc' \in [Scans -> {"idle", "get", "running", "deploy", "completed",
                          "failed"}]
    BY DEF TypeOK, Dequeue, ContextExpires
  <2>2. expired' \in [Scans -> BOOLEAN]
    BY DEF TypeOK, Dequeue, ContextExpires
  <2>3. queue' \subseteq Scans /\ faults' \in 0..MaxFaults
    BY BoundsAssumption DEF TypeOK, Dequeue, ContextExpires, Fault
  <2> QED BY <2>1, <2>2, <2>3 DEF TypeOK, Dequeue, ContextExpires, serverVars
<1>2. CopiesOK' /\ NewestIsStored' /\ CompletedWasConfigured'
  BY DEF CopiesOK, NewestIsStored, CompletedWasConfigured, Dequeue,
         ContextExpires, serverVars
<1>3. WorkerOK'
  BY DEF WorkerOK, Configured, TypeOK, Dequeue, ContextExpires, serverVars
<1> QED BY <1>1, <1>2, <1>3

\* The worker reads its copy from the cache.
LEMMA ReconcileGetInvariant ==
  ASSUME InductiveInvariant, NEW s \in Scans, ReconcileGet(s)
  PROVE  InductiveInvariant'
<1> USE DEF InductiveInvariant
<1>1. TypeOK'
  <2>1. pc' \in [Scans -> {"idle", "get", "running", "deploy", "completed",
                          "failed"}]
    BY DEF TypeOK, ReconcileGet, Return, Goto
  <2>2. obj' \in [Scans -> Objects]
    <3>1. \/ obj' = [obj EXCEPT ![s] = NoScan]
          \/ obj' = [obj EXCEPT ![s] = cache[s]]
      BY DEF ReconcileGet, Return
    <3>2. NoScan \in Objects /\ cache[s] \in Objects /\ obj \in [Scans -> Objects]
      BY NewScanValue DEF TypeOK
    <3> QED BY <3>1, <3>2
  <2>3. expired' \in [Scans -> BOOLEAN] /\ queue' \subseteq Scans
    BY DEF TypeOK, ReconcileGet, Return, Goto
  <2>4. faults' \in 0..MaxFaults
    <3>1. faults' = faults \/ (faults < MaxFaults /\ faults' = faults + 1)
      BY DEF ReconcileGet, Fault
    <3> QED BY <3>1, BoundsAssumption DEF TypeOK
  <2> QED BY <2>1, <2>2, <2>3, <2>4 DEF TypeOK, ReconcileGet, serverVars
<1>2. CopiesOK'
  <2>1. ASSUME NEW t \in Scans
        PROVE  obj'[t] \in {obj[t], cache[t], NoScan} /\ incarnation[t] \in Nat
    BY BoundsAssumption DEF ReconcileGet, Return, TypeOK
  <2>2. \A t \in Scans : CopyOK(obj'[t], incarnation[t])
    BY <2>1, NewScanValue DEF CopiesOK
  <2> QED BY <2>2 DEF CopiesOK, ReconcileGet, serverVars
<1>3. NewestIsStored' /\ CompletedWasConfigured'
  BY DEF NewestIsStored, CompletedWasConfigured, ReconcileGet, serverVars
<1>4. WorkerOK'
  <2>1. pc'[s] \in {"idle", "running"}
    BY DEF ReconcileGet, Return, Goto, TypeOK
  <2>2. pc'[s] = "running" =>
          obj'[s] = cache[s] /\ cache[s] # NoScan /\ ~AlreadyProcessed(cache[s])
    BY DEF ReconcileGet, Return, Goto, TypeOK
  <2>3. \A t \in Scans : t # s => pc'[t] = pc[t] /\ obj'[t] = obj[t]
    BY DEF ReconcileGet, Return, Goto, TypeOK
  <2>4. \A t \in Scans : Configured(t)' <=> Configured(t)
    BY DEF Configured, ReconcileGet, serverVars
  <2>5. ASSUME NEW t \in Scans
        PROVE  /\ pc'[t] = "running" => obj'[t] # NoScan /\ obj'[t].phase = ""
               /\ pc'[t] \in {"deploy", "completed"} => obj'[t].phase = "Running"
               /\ pc'[t] = "failed" => obj'[t].phase \in {"Running", "Completed"}
               /\ pc'[t] = "completed" => Configured(t)'
    <3>1. CASE t = s
      BY <2>1, <2>2, <3>1 DEF AlreadyProcessed
    <3>2. CASE t # s
      BY <2>3, <2>4, <3>2 DEF WorkerOK
    <3> QED BY <3>1, <3>2
  <2> QED BY <2>5 DEF WorkerOK
<1> QED BY <1>1, <1>2, <1>3, <1>4

(***************************************************************************)
(* The server side of any status patch, applied or not: the server's        *)
(* objects stay good, and only a patch to Completed makes a scan Completed. *)
(***************************************************************************)
LEMMA PatchServer ==
  ASSUME InductiveInvariant, NEW s \in Scans, NEW new \in Objects,
         new.conditions = ConditionsOf(new.phase), new.phase # obj[s].phase,
         PatchOk(s, new) \/ PatchFails(s, new), incarnation' = incarnation
  PROVE  /\ scan' \in [Scans -> Objects]
         /\ watch' \in [Scans -> Seq(Objects)]
         /\ faults' \in 0..MaxFaults
         /\ \A t \in Scans :
              /\ CopyOK(scan'[t], incarnation[t])
              /\ \A i \in 1..Len(watch'[t]) : CopyOK(watch'[t][i], incarnation[t])
              /\ scan'[t] # NoScan => scan'[t].uid = incarnation[t]
              /\ scan'[t] # scan[t] =>
                   /\ t = s
                   /\ scan'[t].phase = new.phase
                   /\ scan'[t].uid = incarnation[t]
<1> USE DEF InductiveInvariant
<1>1. faults' \in 0..MaxFaults
  BY BoundsAssumption DEF TypeOK, PatchOk, PatchFails, CallRejected, CallLost, Fault
<1>2. CASE scan' = scan /\ watch' = watch
  BY <1>1, <1>2 DEF TypeOK, CopiesOK, NewestIsStored
<1>3. CASE scan[s] # NoScan /\ Store(s, Merged(s, new))
  <2>1. /\ Merged(s, new) = [uid |-> scan[s].uid, phase |-> new.phase,
                             conditions |-> ConditionsOf(new.phase)]
        /\ Merged(s, new) \in Objects
        /\ CopyOK(Merged(s, new), incarnation[s])
    BY <1>3, MergedValue
  <2>2. /\ incarnation' \in [Scans -> 0..MaxIncarnations]
        /\ \A t \in Scans : incarnation[t] <= incarnation'[t]
    BY BoundsAssumption DEF TypeOK
  <2>3. /\ scan' \in [Scans -> Objects]
        /\ watch' \in [Scans -> Seq(Objects)]
        /\ \A t \in Scans :
             /\ CopyOK(scan'[t], incarnation'[t])
             /\ \A i \in 1..Len(watch'[t]) : CopyOK(watch'[t][i], incarnation'[t])
    BY <1>3, <2>1, <2>2, StoreCopies
  <2>4. /\ scan'[s] = Merged(s, new)
        /\ \A t \in Scans : t # s => scan'[t] = scan[t]
    BY <1>3 DEF Store, TypeOK
  <2>5. scan[s].uid = incarnation[s]
    BY <1>3 DEF NewestIsStored
  <2> QED BY <1>1, <2>1, <2>3, <2>4, <2>5 DEF NewestIsStored
<1> QED BY <1>2, <1>3 DEF PatchOk, PatchFails

\* Past the Get, the local variable is a copy of some scan of this name.
LEMMA WorkerCopy ==
  ASSUME InductiveInvariant, NEW s \in Scans,
         pc[s] \in {"running", "deploy", "completed", "failed"}
  PROVE  /\ obj[s] \in Objects
         /\ incarnation[s] \in Nat
         /\ obj[s].uid \in 1..incarnation[s]
         /\ obj[s].conditions = ConditionsOf(obj[s].phase)
<1> USE DEF InductiveInvariant
<1>1. obj[s] \in Objects /\ incarnation[s] \in Nat
  BY BoundsAssumption DEF TypeOK
<1>2. obj[s] # NoScan
  <2>1. NoScan.phase = ""
    BY DEF NoScan, NewScan
  <2>2. CASE pc[s] = "running"
    BY <2>2 DEF WorkerOK
  <2>3. CASE pc[s] # "running"
    BY <2>1, <2>3 DEF WorkerOK
  <2> QED BY <2>2, <2>3
<1> QED BY <1>1, <1>2 DEF CopiesOK, CopyOK

\* A status computed from a copy is itself that of a good copy.
LEMMA StatusCopy ==
  ASSUME NEW o \in Objects, NEW n \in Nat, o.uid \in 1..n, NEW p \in Phases,
         NEW new,
         new = [uid |-> o.uid, phase |-> p, conditions |-> ConditionsOf(p)]
  PROVE  /\ new \in Objects
         /\ CopyOK(new, n)
         /\ new.phase = p
         /\ new.conditions = ConditionsOf(new.phase)
<1>1. ConditionsOf(p) \in SUBSET Conditions
  BY ConditionsOfPhase
<1>2. o.uid \in 0..MaxIncarnations
  BY DEF Objects
<1>3. new \in Objects
  BY <1>1, <1>2 DEF Objects
<1>4. new.uid = o.uid /\ new.phase = p /\ new.conditions = ConditionsOf(p)
  OBVIOUS
<1> QED BY <1>3, <1>4 DEF CopyOK

\* Reconcile's patch to Running.
LEMMA PatchRunningInvariant ==
  ASSUME InductiveInvariant, NEW s \in Scans, PatchRunning(s)
  PROVE  InductiveInvariant'
<1> DEFINE new == RunningStatus(obj[s])
<1> USE DEF InductiveInvariant
<1>1. /\ obj[s] \in Objects
      /\ incarnation[s] \in Nat
      /\ obj[s].uid \in 1..incarnation[s]
      /\ obj[s].conditions = ConditionsOf("")
      /\ obj[s].phase = ""
  BY WorkerCopy DEF WorkerOK, PatchRunning
<1>2. new = [uid |-> obj[s].uid, phase |-> "Running",
             conditions |-> ConditionsOf("Running")]
  BY <1>1, RunningStatusValue
<1>3. new \in Objects /\ CopyOK(new, incarnation[s])
  <2>1. "Running" \in Phases
    BY DEF Phases
  <2> HIDE DEF new, InductiveInvariant
  <2>2. \A p \in Phases : new = [uid |-> obj[s].uid, phase |-> p,
                                conditions |-> ConditionsOf(p)]
          => new \in Objects /\ CopyOK(new, incarnation[s])
    <3>1. /\ obj[s] \in Objects /\ incarnation[s] \in Nat
          /\ obj[s].uid \in 1..incarnation[s]
      BY <1>1
    <3> QED BY <3>1, StatusCopy
  <2> QED BY <1>2, <2>1, <2>2
<1>4. /\ new.phase = "Running" /\ new.phase # obj[s].phase
      /\ new.conditions = ConditionsOf(new.phase)
  <2>1. new.phase = "Running" /\ new.conditions = ConditionsOf("Running")
    BY <1>2
  <2> QED BY <1>1, <2>1
<1>5. PatchOk(s, new) \/ PatchFails(s, new)
  BY DEF PatchRunning
<1>6. /\ scan' \in [Scans -> Objects]
      /\ watch' \in [Scans -> Seq(Objects)]
      /\ faults' \in 0..MaxFaults
      /\ \A t \in Scans :
           /\ CopyOK(scan'[t], incarnation[t])
           /\ \A i \in 1..Len(watch'[t]) : CopyOK(watch'[t][i], incarnation[t])
           /\ scan'[t] # NoScan => scan'[t].uid = incarnation[t]
           /\ scan'[t] # scan[t] =>
                /\ t = s
                /\ scan'[t].phase = new.phase
                /\ scan'[t].uid = incarnation[t]
  <2> HIDE DEF new, InductiveInvariant
  <2>1. incarnation' = incarnation
    BY DEF PatchRunning
  <2> QED BY <1>3, <1>4, <1>5, <2>1, PatchServer
<1>7. \/ /\ obj' = [obj EXCEPT ![s] = Merged(s, new)]
         /\ pc' = [pc EXCEPT ![s] = "deploy"]
         /\ scan[s] # NoScan
      \/ /\ obj' = [obj EXCEPT ![s] = new]
         /\ pc' = [pc EXCEPT ![s] = "failed"]
  BY DEF PatchRunning, PatchOk, Goto
<1>8. scan[s] # NoScan => /\ Merged(s, new) \in Objects
                          /\ CopyOK(Merged(s, new), incarnation[s])
                          /\ Merged(s, new).phase = "Running"
  <2> HIDE DEF new
  <2> QED BY <1>3, <1>4, MergedValue
<1>9. TypeOK'
  <2>1. obj' \in [Scans -> Objects]
    BY <1>3, <1>7, <1>8 DEF TypeOK
  <2>2. pc' \in [Scans -> {"idle", "get", "running", "deploy", "completed",
                          "failed"}]
    BY <1>7 DEF TypeOK
  <2> QED BY <1>6, <2>1, <2>2 DEF TypeOK, PatchRunning, Goto
<1>10. CopiesOK'
  <2>1. \A t \in Scans : CopyOK(obj'[t], incarnation[t])
    BY <1>3, <1>7, <1>8 DEF CopiesOK, TypeOK
  <2> QED BY <1>6, <2>1 DEF CopiesOK, PatchRunning
<1>11. NewestIsStored'
  BY <1>6 DEF NewestIsStored, PatchRunning
<1>12. WorkerOK'
  <2>1. obj'[s].phase = "Running" /\ pc'[s] \in {"deploy", "failed"}
    BY <1>4, <1>7, <1>8 DEF TypeOK
  <2>2. \A t \in Scans : t # s => obj'[t] = obj[t] /\ pc'[t] = pc[t]
    BY <1>7 DEF TypeOK
  <2>3. \A t \in Scans : Configured(t)' <=> Configured(t)
    BY DEF Configured, PatchRunning
  <2> QED BY <2>1, <2>2, <2>3 DEF WorkerOK
<1>13. CompletedWasConfigured'
  BY <1>4, <1>6 DEF CompletedWasConfigured, PatchRunning
<1> QED BY <1>9, <1>10, <1>11, <1>12, <1>13

\* The Create in deployDikiConfigMap adds one to the count of its label.
LEMMA CreateConfigMapValue ==
  ASSUME NEW s \in Scans, obj[s].uid \in 0..MaxIncarnations,
         configMaps \in [Scans -> [0..MaxIncarnations -> Nat]],
         CreateConfigMap(s)
  PROVE  /\ configMaps' \in [Scans -> [0..MaxIncarnations -> Nat]]
         /\ configMaps'[s][obj[s].uid] > 0
         /\ configMaps'[s][obj[s].uid] = configMaps[s][obj[s].uid] + 1
         /\ \A u \in 0..MaxIncarnations :
              u # obj[s].uid => configMaps'[s][u] = configMaps[s][u]
         /\ \A t \in Scans : t # s => configMaps'[t] = configMaps[t]
         /\ \A t \in Scans : \A u \in 0..MaxIncarnations :
              configMaps'[t][u] >= configMaps[t][u]
<1> DEFINE label == obj[s].uid
           Counts == [0..MaxIncarnations -> Nat]
           counts == [configMaps[s] EXCEPT ![label] = @ + 1]
<1>1. configMaps[s] \in Counts /\ label \in 0..MaxIncarnations
  OBVIOUS
<1>2. /\ counts \in Counts
      /\ counts[label] = configMaps[s][label] + 1
      /\ \A u \in 0..MaxIncarnations : counts[u] >= configMaps[s][u]
      /\ \A u \in 0..MaxIncarnations : u # label => counts[u] = configMaps[s][u]
  <2> HIDE DEF label
  <2> QED BY <1>1
<1>3. configMaps' = [configMaps EXCEPT ![s] = counts]
  BY DEF CreateConfigMap
<1>4. configMaps' \in [Scans -> Counts]
  <2> HIDE DEF Counts, counts
  <2> QED BY <1>2, <1>3 DEF Counts
<1>5. configMaps'[s] = counts /\ \A t \in Scans : t # s => configMaps'[t] = configMaps[t]
  <2> HIDE DEF counts
  <2> QED BY <1>3
<1>6. configMaps'[s][label] > 0
  <2>1. configMaps[s][label] \in Nat
    BY <1>1
  <2> HIDE DEF counts, label
  <2> QED BY <1>2, <1>5, <2>1
<1>7. ASSUME NEW t \in Scans, NEW u \in 0..MaxIncarnations
      PROVE  configMaps'[t][u] >= configMaps[t][u]
  <2>1. configMaps[t] \in Counts
    OBVIOUS
  <2>2. configMaps[t][u] \in Nat
    BY <2>1
  <2> HIDE DEF counts, Counts
  <2> QED BY <1>2, <1>5, <2>2
<1> QED BY <1>2, <1>4, <1>5, <1>6, <1>7

\* deployDikiConfigMap: ConfigMaps are only added, for a scan that exists or did.
LEMMA DeployInvariant ==
  ASSUME InductiveInvariant, NEW s \in Scans, DeployDikiConfigMap(s)
  PROVE  InductiveInvariant'
<1> USE DEF InductiveInvariant
<1>1. /\ obj[s].uid \in 1..incarnation[s]
      /\ obj[s].uid \in 0..MaxIncarnations
      /\ obj[s].phase = "Running"
  BY WorkerCopy DEF WorkerOK, DeployDikiConfigMap, Objects
<1>2. \/ /\ CreateConfigMap(s)
         /\ pc' = [pc EXCEPT ![s] = "completed"]
      \/ /\ configMaps' = configMaps \/ CreateConfigMap(s)
         /\ pc' = [pc EXCEPT ![s] = "failed"]
  BY DEF DeployDikiConfigMap, Goto
<1>3. configMaps \in [Scans -> [0..MaxIncarnations -> Nat]]
  BY DEF TypeOK
<1>4. /\ configMaps' \in [Scans -> [0..MaxIncarnations -> Nat]]
      /\ \A t \in Scans : \A u \in 0..MaxIncarnations :
           /\ configMaps[t][u] \in Nat /\ configMaps'[t][u] \in Nat
           /\ configMaps'[t][u] >= configMaps[t][u]
  <2>1. CASE CreateConfigMap(s)
    <3>1. /\ configMaps' \in [Scans -> [0..MaxIncarnations -> Nat]]
          /\ \A t \in Scans : \A u \in 0..MaxIncarnations :
               configMaps'[t][u] >= configMaps[t][u]
      BY <1>1, <1>3, <2>1, CreateConfigMapValue
    <3> QED BY <1>3, <3>1
  <2>2. CASE configMaps' = configMaps
    <3>1. \A t \in Scans : \A u \in 0..MaxIncarnations : configMaps[t][u] \in Nat
      BY <1>3
    <3>2. \A t \in Scans : \A u \in 0..MaxIncarnations :
            configMaps[t][u] >= configMaps[t][u]
      BY <3>1
    <3> QED BY <1>3, <2>2, <3>1, <3>2
  <2> QED BY <1>2, <2>1, <2>2
<1>5. TypeOK'
  <2>1. pc' \in [Scans -> {"idle", "get", "running", "deploy", "completed",
                          "failed"}]
    BY <1>2 DEF TypeOK
  <2>2. faults' \in 0..MaxFaults
    <3>1. faults' = faults \/ (faults < MaxFaults /\ faults' = faults + 1)
      BY DEF DeployDikiConfigMap, CallRejected, CallLost, Fault
    <3> QED BY <3>1, BoundsAssumption DEF TypeOK
  <2> QED BY <1>4, <2>1, <2>2 DEF TypeOK, DeployDikiConfigMap, Goto, serverVars
<1>6. CopiesOK' /\ NewestIsStored'
  BY DEF CopiesOK, NewestIsStored, DeployDikiConfigMap, serverVars
<1>7. \A t \in Scans : Configured(t) => Configured(t)'
  <2> TAKE t \in Scans
  <2>1. incarnation[t] \in 0..MaxIncarnations /\ incarnation'[t] = incarnation[t]
    BY DEF TypeOK, DeployDikiConfigMap, serverVars
  <2>2. \A u \in 1..incarnation[t] :
          configMaps[t][u] \in Nat /\ configMaps'[t][u] \in Nat
            /\ configMaps'[t][u] >= configMaps[t][u]
    BY <1>4, <2>1, BoundsAssumption
  <2> QED BY <2>1, <2>2 DEF Configured
<1>8. WorkerOK'
  <2>1. CASE pc' = [pc EXCEPT ![s] = "completed"] /\ CreateConfigMap(s)
    <3>1. configMaps'[s][obj[s].uid] > 0
      BY <1>1, <1>3, <2>1, CreateConfigMapValue
    <3>2. Configured(s)'
      BY <1>1, <3>1 DEF Configured, DeployDikiConfigMap, serverVars
    <3> QED BY <1>1, <1>7, <2>1, <3>2 DEF WorkerOK, TypeOK, DeployDikiConfigMap
  <2>2. CASE pc' = [pc EXCEPT ![s] = "failed"]
    BY <1>1, <1>7, <2>2 DEF WorkerOK, TypeOK, DeployDikiConfigMap
  <2> QED BY <1>2, <2>1, <2>2
<1>9. CompletedWasConfigured'
  <2>1. ASSUME NEW t \in Scans, scan'[t].phase = "Completed"
        PROVE  \E u \in 1..scan'[t].uid : configMaps'[t][u] > 0
    <3>1. scan'[t] = scan[t] /\ scan[t].uid \in 0..MaxIncarnations
      BY DEF DeployDikiConfigMap, serverVars, TypeOK, Objects
    <3>2. PICK u \in 1..scan[t].uid : configMaps[t][u] > 0
      BY <2>1, <3>1 DEF CompletedWasConfigured
    <3>3. u \in 0..MaxIncarnations
      BY <3>1, BoundsAssumption
    <3> QED BY <1>4, <3>1, <3>2, <3>3
  <2> QED BY <2>1 DEF CompletedWasConfigured
<1> QED BY <1>5, <1>6, <1>8, <1>9

\* Reconcile's patch to Completed, of a scan whose name was configured.
LEMMA PatchCompletedInvariant ==
  ASSUME InductiveInvariant, NEW s \in Scans, PatchCompleted(s)
  PROVE  InductiveInvariant'
<1> DEFINE new == CompletedStatus(obj[s])
<1> USE DEF InductiveInvariant
<1>1. /\ obj[s] \in Objects
      /\ incarnation[s] \in Nat
      /\ obj[s].uid \in 1..incarnation[s]
      /\ obj[s].conditions = ConditionsOf("Running")
      /\ obj[s].phase = "Running"
  BY WorkerCopy DEF WorkerOK, PatchCompleted
<1>2. new = [uid |-> obj[s].uid, phase |-> "Completed",
             conditions |-> ConditionsOf("Completed")]
  BY <1>1, CompletedStatusValue
<1>3. new \in Objects /\ CopyOK(new, incarnation[s])
  <2>1. "Completed" \in Phases
    BY DEF Phases
  <2> HIDE DEF new, InductiveInvariant
  <2>2. \A p \in Phases : new = [uid |-> obj[s].uid, phase |-> p,
                                conditions |-> ConditionsOf(p)]
          => new \in Objects /\ CopyOK(new, incarnation[s])
    <3>1. /\ obj[s] \in Objects /\ incarnation[s] \in Nat
          /\ obj[s].uid \in 1..incarnation[s]
      BY <1>1
    <3> QED BY <3>1, StatusCopy
  <2> QED BY <1>2, <2>1, <2>2
<1>4. /\ new.phase = "Completed" /\ new.phase # obj[s].phase
      /\ new.conditions = ConditionsOf(new.phase)
  <2>1. new.phase = "Completed" /\ new.conditions = ConditionsOf("Completed")
    BY <1>2
  <2> QED BY <1>1, <2>1
<1>5. PatchOk(s, new) \/ PatchFails(s, new)
  BY DEF PatchCompleted
<1>6. /\ scan' \in [Scans -> Objects]
      /\ watch' \in [Scans -> Seq(Objects)]
      /\ faults' \in 0..MaxFaults
      /\ \A t \in Scans :
           /\ CopyOK(scan'[t], incarnation[t])
           /\ \A i \in 1..Len(watch'[t]) : CopyOK(watch'[t][i], incarnation[t])
           /\ scan'[t] # NoScan => scan'[t].uid = incarnation[t]
           /\ scan'[t] # scan[t] =>
                /\ t = s
                /\ scan'[t].phase = new.phase
                /\ scan'[t].uid = incarnation[t]
  <2> HIDE DEF new, InductiveInvariant
  <2>1. incarnation' = incarnation
    BY DEF PatchCompleted
  <2> QED BY <1>3, <1>4, <1>5, <2>1, PatchServer
<1>7. \/ /\ obj' = [obj EXCEPT ![s] = NoScan]
         /\ pc' = [pc EXCEPT ![s] = "idle"]
         /\ expired' = [expired EXCEPT ![s] = FALSE]
         /\ queue' = queue
      \/ /\ obj' = [obj EXCEPT ![s] = new]
         /\ pc' = [pc EXCEPT ![s] = "failed"]
         /\ expired' = expired
         /\ queue' = queue
  BY DEF PatchCompleted, Return, Goto
<1>8. TypeOK'
  <2>1. obj' \in [Scans -> Objects]
    BY <1>3, <1>7, NewScanValue DEF TypeOK
  <2>2. pc' \in [Scans -> {"idle", "get", "running", "deploy", "completed",
                          "failed"}]
    BY <1>7 DEF TypeOK
  <2>3. expired' \in [Scans -> BOOLEAN] /\ queue' \subseteq Scans
    BY <1>7 DEF TypeOK
  <2> QED BY <1>6, <2>1, <2>2, <2>3 DEF TypeOK, PatchCompleted
<1>9. CopiesOK'
  <2>1. \A t \in Scans : CopyOK(obj'[t], incarnation[t])
    <3> HIDE DEF new
    <3>1. CopyOK(NoScan, incarnation[s])
      BY <1>1, NewScanValue
    <3>2. CopyOK(obj'[s], incarnation[s])
      BY <1>3, <1>7, <3>1 DEF TypeOK
    <3>3. \A t \in Scans : t # s => obj'[t] = obj[t]
      BY <1>7 DEF TypeOK
    <3> QED BY <3>2, <3>3 DEF CopiesOK
  <2> QED BY <1>6, <2>1 DEF CopiesOK, PatchCompleted
<1>10. NewestIsStored'
  BY <1>6 DEF NewestIsStored, PatchCompleted
<1>11. WorkerOK'
  <2>1. pc'[s] = "idle" \/ (pc'[s] = "failed" /\ obj'[s].phase = "Completed")
    BY <1>4, <1>7 DEF TypeOK
  <2>2. \A t \in Scans : t # s => obj'[t] = obj[t] /\ pc'[t] = pc[t]
    BY <1>7 DEF TypeOK
  <2>3. \A t \in Scans : Configured(t)' <=> Configured(t)
    BY DEF Configured, PatchCompleted
  <2> QED BY <2>1, <2>2, <2>3 DEF WorkerOK
<1>12. CompletedWasConfigured'
  <2>1. Configured(s)
    BY DEF WorkerOK, PatchCompleted
  <2> QED BY <1>6, <2>1 DEF CompletedWasConfigured, Configured, PatchCompleted
<1> QED BY <1>8, <1>9, <1>10, <1>11, <1>12

\* handleFailedScan's patch, which ends the reconciliation in any case.
LEMMA HandleFailedScanInvariant ==
  ASSUME InductiveInvariant, NEW s \in Scans, HandleFailedScan(s)
  PROVE  InductiveInvariant'
<1> DEFINE new == FailedStatus(obj[s])
<1> USE DEF InductiveInvariant
<1>1. /\ obj[s] \in Objects
      /\ incarnation[s] \in Nat
      /\ obj[s].uid \in 1..incarnation[s]
      /\ obj[s].conditions = ConditionsOf(obj[s].phase)
      /\ obj[s].phase \in {"Running", "Completed"}
  BY WorkerCopy DEF WorkerOK, HandleFailedScan
<1>2. new = [uid |-> obj[s].uid, phase |-> "Failed",
             conditions |-> ConditionsOf("Failed")]
  BY <1>1, FailedStatusValue
<1>3. new \in Objects /\ CopyOK(new, incarnation[s])
  <2>1. "Failed" \in Phases
    BY DEF Phases
  <2> HIDE DEF new, InductiveInvariant
  <2>2. \A p \in Phases : new = [uid |-> obj[s].uid, phase |-> p,
                                conditions |-> ConditionsOf(p)]
          => new \in Objects /\ CopyOK(new, incarnation[s])
    <3>1. /\ obj[s] \in Objects /\ incarnation[s] \in Nat
          /\ obj[s].uid \in 1..incarnation[s]
      BY <1>1
    <3> QED BY <3>1, StatusCopy
  <2> QED BY <1>2, <2>1, <2>2
<1>4. /\ new.phase = "Failed" /\ new.phase # obj[s].phase
      /\ new.conditions = ConditionsOf(new.phase)
  <2>1. new.phase = "Failed" /\ new.conditions = ConditionsOf("Failed")
    BY <1>2
  <2> QED BY <1>1, <2>1
<1>5. PatchOk(s, new) \/ PatchFails(s, new)
  BY DEF HandleFailedScan
<1>6. /\ scan' \in [Scans -> Objects]
      /\ watch' \in [Scans -> Seq(Objects)]
      /\ faults' \in 0..MaxFaults
      /\ \A t \in Scans :
           /\ CopyOK(scan'[t], incarnation[t])
           /\ \A i \in 1..Len(watch'[t]) : CopyOK(watch'[t][i], incarnation[t])
           /\ scan'[t] # NoScan => scan'[t].uid = incarnation[t]
           /\ scan'[t] # scan[t] =>
                /\ t = s
                /\ scan'[t].phase = new.phase
                /\ scan'[t].uid = incarnation[t]
  <2> HIDE DEF new, InductiveInvariant
  <2>1. incarnation' = incarnation
    BY DEF HandleFailedScan
  <2> QED BY <1>3, <1>4, <1>5, <2>1, PatchServer
<1>7. /\ obj' = [obj EXCEPT ![s] = NoScan]
      /\ pc' = [pc EXCEPT ![s] = "idle"]
      /\ expired' = [expired EXCEPT ![s] = FALSE]
      /\ queue' \subseteq queue \cup {s}
  BY DEF HandleFailedScan, Return
<1>8. TypeOK'
  <2>1. obj' \in [Scans -> Objects]
    BY <1>7, NewScanValue DEF TypeOK
  <2>2. pc' \in [Scans -> {"idle", "get", "running", "deploy", "completed",
                          "failed"}]
    BY <1>7 DEF TypeOK
  <2>3. expired' \in [Scans -> BOOLEAN] /\ queue' \subseteq Scans
    BY <1>7 DEF TypeOK
  <2> QED BY <1>6, <2>1, <2>2, <2>3 DEF TypeOK, HandleFailedScan
<1>9. CopiesOK'
  <2>1. \A t \in Scans : CopyOK(obj'[t], incarnation[t])
    BY <1>1, <1>7, NewScanValue DEF CopiesOK, TypeOK
  <2> QED BY <1>6, <2>1 DEF CopiesOK, HandleFailedScan
<1>10. NewestIsStored'
  BY <1>6 DEF NewestIsStored, HandleFailedScan
<1>11. WorkerOK'
  <2>1. pc'[s] = "idle" /\ \A t \in Scans : t # s => obj'[t] = obj[t] /\ pc'[t] = pc[t]
    BY <1>7 DEF TypeOK
  <2>2. \A t \in Scans : Configured(t)' <=> Configured(t)
    BY DEF Configured, HandleFailedScan
  <2> QED BY <2>1, <2>2 DEF WorkerOK
<1>12. CompletedWasConfigured'
  BY <1>4, <1>6 DEF CompletedWasConfigured, HandleFailedScan
<1> QED BY <1>8, <1>9, <1>10, <1>11, <1>12

-----------------------------------------------------------------------------
(***************************************************************************)
(* Every behaviour of the controller, through any number of recreated       *)
(* names, failures and restarts, keeps the inductive invariant (Reconcile,  *)
(* handleFailedScan, deployDikiConfigMap).                                  *)
(***************************************************************************)
THEOREM InvariantHolds == Spec => []InductiveInvariant
<1>1. InductiveInvariant /\ [Next]_vars => InductiveInvariant'
  <2> SUFFICES ASSUME InductiveInvariant, [Next]_vars
               PROVE  InductiveInvariant'
    OBVIOUS
  <2>1. CASE \E s \in Scans : CreateScan(s)
    BY <2>1, CreateScanInvariant
  <2>2. CASE \E s \in Scans : DeleteScan(s)
    BY <2>2, DeleteScanInvariant
  <2>3. CASE \E s \in Scans : Deliver(s)
    BY <2>3, DeliverInvariant
  <2>4. CASE \E s \in Scans : Dequeue(s) \/ ContextExpires(s)
    BY <2>4, QuietInvariant
  <2>5. CASE \E s \in Scans : ReconcileGet(s)
    BY <2>5, ReconcileGetInvariant
  <2>6. CASE \E s \in Scans : PatchRunning(s)
    BY <2>6, PatchRunningInvariant
  <2>7. CASE \E s \in Scans : DeployDikiConfigMap(s)
    BY <2>7, DeployInvariant
  <2>8. CASE \E s \in Scans : PatchCompleted(s)
    BY <2>8, PatchCompletedInvariant
  <2>9. CASE \E s \in Scans : HandleFailedScan(s)
    BY <2>9, HandleFailedScanInvariant
  <2>10. CASE Relist
    BY <2>10, RelistInvariant
  <2>11. CASE Restart
    BY <2>11, RestartInvariant
  <2>12. CASE UNCHANGED vars
    BY <2>12 DEF vars, InductiveInvariant, TypeOK, CopiesOK, NewestIsStored,
                 WorkerOK, Configured, CompletedWasConfigured
  <2> QED BY <2>1, <2>2, <2>3, <2>4, <2>5, <2>6, <2>7, <2>8, <2>9, <2>10, <2>11,
             <2>12 DEF Next, Worker
<1> QED BY <1>1, InitInvariant, PTL DEF Spec

\* The state of the controller and of the API server is well-typed throughout.
THEOREM TypeCorrect == Spec => []TypeOK
<1>1. InductiveInvariant => TypeOK
  BY DEF InductiveInvariant
<1> QED BY <1>1, InvariantHolds, PTL

(***************************************************************************)
(* Whatever copy a patch was computed from, phase and conditions in the API *)
(* server agree (UpdateConditions, handleFailedScan's DeleteFunc, MergeFrom).*)
(***************************************************************************)
THEOREM ConditionsAgree == Spec => []ConditionsMatchPhase
<1>1. InductiveInvariant => ConditionsMatchPhase
  BY DEF InductiveInvariant, CopiesOK, CopyOK, ConditionsMatchPhase
<1> QED BY <1>1, InvariantHolds, PTL

\* No scan is Completed before deployDikiConfigMap succeeded for its name.
THEOREM CompletionIsConfigured == Spec => []CompletedWasConfigured
<1>1. InductiveInvariant => CompletedWasConfigured
  BY DEF InductiveInvariant
<1> QED BY <1>1, InvariantHolds, PTL

-----------------------------------------------------------------------------
(* One failure. *)

(***************************************************************************)
(* A single call fails and no operator dies. An expired context counts as   *)
(* more than one failure: all further calls of that reconciliation fail.    *)
(***************************************************************************)
OneFailure == MaxFaults <= 1 /\ MaxRestarts = 0 /\ "timeout" \notin FaultKinds

\* A scan left behind by a worker that failed is about to become Failed.
FailureIsHandled ==
  \A s \in Scans : /\ ~expired[s]
                   /\ scan[s].phase = "Running" =>
                        \/ pc[s] \in {"deploy", "completed"}
                        \/ pc[s] = "failed" /\ faults = 1

\* No action but the worker's makes a scan Running.
LEMMA OthersHandled ==
  ASSUME InductiveInvariant, FailureIsHandled, NEW s \in Scans,
         CreateScan(s) \/ DeleteScan(s) \/ Deliver(s) \/ Dequeue(s)
  PROVE  FailureIsHandled'
<1>0. TypeOK
  BY DEF InductiveInvariant
<1>1. /\ faults' = faults /\ expired' = expired
      /\ \A t \in Scans : scan'[t] = scan[t] \/ scan'[t].phase # "Running"
      /\ \A t \in Scans : pc'[t] = pc[t] \/ pc[t] = "idle"
  <2>1. CASE CreateScan(s)
    <3>1. incarnation[s] + 1 \in 1..MaxIncarnations
      BY <1>0, <2>1, BoundsAssumption DEF CreateScan, TypeOK
    <3>2. NewScan(incarnation[s] + 1).phase # "Running"
      BY <3>1, NewScanValue
    <3> QED BY <1>0, <2>1, <3>2 DEF CreateScan, Store, TypeOK, workerVars
  <2>2. CASE DeleteScan(s)
    <3>1. NoScan.phase # "Running"
      BY DEF NoScan, NewScan
    <3> QED BY <1>0, <2>2, <3>1 DEF DeleteScan, Store, TypeOK, workerVars
  <2>3. CASE Deliver(s)
    BY <2>3 DEF Deliver, workerVars
  <2>4. CASE Dequeue(s)
    BY <1>0, <2>4 DEF Dequeue, serverVars, TypeOK
  <2> QED BY <2>1, <2>2, <2>3, <2>4
<1> QED BY <1>1 DEF FailureIsHandled

\* A status patch: only a call that fails leaves the scan as it was.
LEMMA PatchHandled ==
  ASSUME MaxFaults <= 1, InductiveInvariant, FailureIsHandled, NEW s \in Scans,
         NEW new \in Objects, new.conditions = ConditionsOf(new.phase),
         new.phase # obj[s].phase, PatchOk(s, new) \/ PatchFails(s, new),
         incarnation' = incarnation
  PROVE  /\ faults' \in {0, 1}
         /\ \A t \in Scans : t # s => scan'[t] = scan[t]
         /\ scan'[s] \in {scan[s], Merged(s, new)}
         /\ PatchOk(s, new) => scan'[s].phase = new.phase
         /\ PatchFails(s, new) => \/ faults' = 1 /\ faults = 0
                                  \/ scan'[s] = NoScan
         /\ scan[s] = NoScan => scan'[s] = NoScan
         /\ scan[s] # NoScan => Merged(s, new).phase = new.phase
<1> USE DEF InductiveInvariant
<1>1. faults \in 0..MaxFaults /\ MaxFaults \in Nat
  BY BoundsAssumption DEF TypeOK
<1>2. faults \in {0, 1}
  BY <1>1
<1>3. ~expired[s]
  BY DEF FailureIsHandled
<1>4. ASSUME NEW kind, Fault(kind)
      PROVE  faults' = 1 /\ faults = 0
  BY <1>1, <1>2, <1>4 DEF Fault
<1>5. scan[s] # NoScan => Merged(s, new).phase = new.phase
  <2> SUFFICES ASSUME scan[s] # NoScan PROVE Merged(s, new).phase = new.phase
    OBVIOUS
  <2>1. Merged(s, new) = [uid |-> scan[s].uid, phase |-> new.phase,
                          conditions |-> ConditionsOf(new.phase)]
    BY MergedValue
  <2> QED BY <2>1
<1>6. CASE PatchOk(s, new)
  <2>1. /\ scan[s] # NoScan /\ scan' = [scan EXCEPT ![s] = Merged(s, new)]
        /\ faults' = faults
    BY <1>6 DEF PatchOk, Store
  <2>2. scan'[s] = Merged(s, new) /\ \A t \in Scans : t # s => scan'[t] = scan[t]
    BY <2>1 DEF TypeOK
  <2>3. ~PatchFails(s, new) \/ (faults' = 1 /\ faults = 0)
    BY <1>3, <1>4, <2>1 DEF PatchFails, CallRejected, CallLost
  <2> QED BY <1>2, <1>5, <2>1, <2>2, <2>3
<1>7. CASE ~PatchOk(s, new)
  <2>1. PatchFails(s, new)
    BY <1>7
  <2>2. CASE scan[s] = NoScan
    <3>1. scan' = scan
      BY <2>1, <2>2, <1>3 DEF PatchFails, CallRejected
    <3>2. faults' = faults \/ (faults' = 1 /\ faults = 0)
      BY <2>1, <2>2, <1>3, <1>4 DEF PatchFails, CallRejected
    <3> QED BY <1>2, <1>7, <2>2, <3>1, <3>2
  <2>3. CASE scan[s] # NoScan
    <3>1. faults' = 1 /\ faults = 0
      BY <1>3, <1>4, <2>1, <2>3 DEF PatchFails, CallRejected, CallLost
    <3>2. scan' = scan \/ scan' = [scan EXCEPT ![s] = Merged(s, new)]
      BY <2>1, <2>3 DEF PatchFails, Store
    <3>3. /\ scan'[s] \in {scan[s], Merged(s, new)}
          /\ \A t \in Scans : t # s => scan'[t] = scan[t]
      BY <3>2 DEF TypeOK
    <3> QED BY <1>5, <1>7, <2>3, <3>1, <3>3
  <2> QED BY <2>2, <2>3
<1> QED BY <1>6, <1>7

LEMMA WorkerHandled ==
  ASSUME MaxFaults <= 1, InductiveInvariant, FailureIsHandled, NEW s \in Scans,
         Worker(s)
  PROVE  FailureIsHandled'
<1>0. TypeOK /\ NoScan.phase # "Running"
  BY DEF InductiveInvariant, NoScan, NewScan
<1>1. faults \in 0..MaxFaults /\ MaxFaults \in Nat
  BY <1>0, BoundsAssumption DEF TypeOK
<1>2. faults \in {0, 1} /\ ~expired[s]
  BY <1>1 DEF FailureIsHandled
<1>3. ASSUME NEW kind, Fault(kind)
      PROVE  faults' = 1 /\ faults = 0
  BY <1>1, <1>2, <1>3 DEF Fault
<1>4. ASSUME faults' = faults \/ faults' = 1,
             ~expired'[s],
             \A t \in Scans : t # s => /\ scan'[t] = scan[t] /\ pc'[t] = pc[t]
                                       /\ expired'[t] = expired[t],
             scan'[s].phase = "Running" =>
               \/ pc'[s] \in {"deploy", "completed"}
               \/ pc'[s] = "failed" /\ faults' = 1
      PROVE  FailureIsHandled'
  BY <1>2, <1>4 DEF FailureIsHandled
<1>5. \A t \in Scans : t # s => pc'[t] = pc[t] /\ expired'[t] = expired[t]
  BY <1>0 DEF Worker, ReconcileGet, PatchRunning, DeployDikiConfigMap,
              PatchCompleted, HandleFailedScan, Return, Goto, TypeOK
<1>6. ~expired'[s]
  BY <1>0, <1>2 DEF Worker, ReconcileGet, PatchRunning, DeployDikiConfigMap,
              PatchCompleted, HandleFailedScan, Return, Goto, TypeOK
<1>7. ASSUME NEW new, NEW p \in {"Running", "Completed", "Failed"},
             pc[s] \in {"running", "completed", "failed"},
             new = [uid |-> obj[s].uid, phase |-> p, conditions |-> ConditionsOf(p)],
             p # obj[s].phase
      PROVE  /\ new \in Objects /\ new.phase = p
             /\ new.conditions = ConditionsOf(new.phase)
             /\ new.phase # obj[s].phase
  <2>1. p \in Phases /\ p # ""
    BY DEF Phases
  <2>2. /\ obj[s] \in Objects /\ incarnation[s] \in Nat
        /\ obj[s].uid \in 1..incarnation[s]
    BY <1>7, WorkerCopy
  <2>3. new = [uid |-> obj[s].uid, phase |-> p, conditions |-> ConditionsOf(p)]
    BY <1>7
  <2>4. /\ new \in Objects /\ new.phase = p
        /\ new.conditions = ConditionsOf(new.phase)
    BY <2>1, <2>2, <2>3, StatusCopy
  <2> QED BY <1>7, <2>4
<1>8. CASE ReconcileGet(s)
  <2>1. scan' = scan /\ pc[s] = "get"
    BY <1>8 DEF ReconcileGet, serverVars
  <2>2. faults' = faults \/ faults' = 1
    BY <1>3, <1>8 DEF ReconcileGet
  <2>3. scan[s].phase # "Running"
    BY <2>1 DEF FailureIsHandled
  <2> QED BY <1>4, <1>5, <1>6, <2>1, <2>2, <2>3
<1>9. CASE PatchRunning(s)
  <2> DEFINE new == RunningStatus(obj[s])
  <2>1. /\ pc[s] = "running" /\ incarnation' = incarnation
        /\ \/ PatchOk(s, new) /\ pc'[s] = "deploy"
           \/ PatchFails(s, new) /\ pc'[s] = "failed"
    BY <1>0, <1>9 DEF PatchRunning, Goto, TypeOK
  <2>2. /\ obj[s] \in Objects /\ obj[s].phase = ""
        /\ obj[s].conditions = ConditionsOf("")
    BY <2>1, WorkerCopy DEF InductiveInvariant, WorkerOK
  <2>3. new = [uid |-> obj[s].uid, phase |-> "Running",
               conditions |-> ConditionsOf("Running")]
    BY <2>2, RunningStatusValue
  <2> HIDE DEF new, InductiveInvariant
  <2>4. /\ new \in Objects /\ new.phase = "Running"
        /\ new.conditions = ConditionsOf(new.phase)
        /\ new.phase # obj[s].phase
    BY <1>7, <2>1, <2>2, <2>3
  <2>5. /\ faults' \in {0, 1}
        /\ \A t \in Scans : t # s => scan'[t] = scan[t]
        /\ PatchFails(s, new) => \/ faults' = 1 /\ faults = 0
                                 \/ scan'[s] = NoScan
    BY <2>1, <2>4, PatchHandled
  <2>6. faults' = faults \/ faults' = 1
    BY <1>3, <2>1 DEF PatchOk, PatchFails, CallRejected, CallLost
  <2> QED BY <1>0, <1>4, <1>5, <1>6, <2>1, <2>5, <2>6
<1>10. CASE DeployDikiConfigMap(s)
  <2>1. scan' = scan
    BY <1>10 DEF DeployDikiConfigMap, serverVars
  <2>2. \/ pc'[s] = "completed" /\ faults' = faults
        \/ pc'[s] = "failed" /\ faults' = 1
    BY <1>0, <1>2, <1>3, <1>10
       DEF DeployDikiConfigMap, CallRejected, CallLost, Goto, TypeOK
  <2> QED BY <1>4, <1>5, <1>6, <2>1, <2>2
<1>11. CASE PatchCompleted(s)
  <2> DEFINE new == CompletedStatus(obj[s])
  <2>1. /\ pc[s] = "completed" /\ incarnation' = incarnation
        /\ \/ PatchOk(s, new)
           \/ PatchFails(s, new) /\ pc'[s] = "failed"
    BY <1>0, <1>11 DEF PatchCompleted, Goto, TypeOK
  <2>2. /\ obj[s] \in Objects /\ obj[s].phase = "Running"
        /\ obj[s].conditions = ConditionsOf("Running")
    BY <2>1, WorkerCopy DEF InductiveInvariant, WorkerOK
  <2>3. new = [uid |-> obj[s].uid, phase |-> "Completed",
               conditions |-> ConditionsOf("Completed")]
    BY <2>2, CompletedStatusValue
  <2> HIDE DEF new, InductiveInvariant
  <2>4. /\ new \in Objects /\ new.phase = "Completed"
        /\ new.conditions = ConditionsOf(new.phase)
        /\ new.phase # obj[s].phase
    BY <1>7, <2>1, <2>2, <2>3
  <2>5. /\ \A t \in Scans : t # s => scan'[t] = scan[t]
        /\ PatchOk(s, new) => scan'[s].phase = new.phase
        /\ PatchFails(s, new) => \/ faults' = 1 /\ faults = 0
                                 \/ scan'[s] = NoScan
    BY <2>1, <2>4, PatchHandled
  <2>6. faults' = faults \/ faults' = 1
    BY <1>3, <2>1 DEF PatchOk, PatchFails, CallRejected, CallLost
  <2> QED BY <1>0, <1>4, <1>5, <1>6, <2>1, <2>4, <2>5, <2>6
<1>12. CASE HandleFailedScan(s)
  <2> DEFINE new == FailedStatus(obj[s])
  <2>1. /\ pc[s] = "failed" /\ incarnation' = incarnation
        /\ PatchOk(s, new) \/ PatchFails(s, new)
    BY <1>12 DEF HandleFailedScan
  <2>2. /\ obj[s] \in Objects /\ obj[s].phase \in {"Running", "Completed"}
        /\ obj[s].conditions = ConditionsOf(obj[s].phase)
    BY <2>1, WorkerCopy DEF InductiveInvariant, WorkerOK
  <2>3. new = [uid |-> obj[s].uid, phase |-> "Failed",
               conditions |-> ConditionsOf("Failed")]
    BY <2>2, FailedStatusValue
  <2> HIDE DEF new, InductiveInvariant
  <2>4. /\ new \in Objects /\ new.phase = "Failed"
        /\ new.conditions = ConditionsOf(new.phase)
        /\ new.phase # obj[s].phase
    BY <1>7, <2>1, <2>2, <2>3
  <2>5. /\ \A t \in Scans : t # s => scan'[t] = scan[t]
        /\ scan'[s] \in {scan[s], Merged(s, new)}
        /\ PatchOk(s, new) => scan'[s].phase = new.phase
        /\ PatchFails(s, new) => \/ faults' = 1 /\ faults = 0
                                 \/ scan'[s] = NoScan
        /\ scan[s] = NoScan => scan'[s] = NoScan
        /\ scan[s] # NoScan => Merged(s, new).phase = new.phase
    BY <2>1, <2>4, PatchHandled
  <2>6. faults' = faults \/ faults' = 1
    BY <1>3, <2>1 DEF PatchOk, PatchFails, CallRejected, CallLost
  <2>7. scan'[s].phase # "Running"
    <3>1. scan[s].phase = "Running" => faults = 1
      BY <2>1 DEF FailureIsHandled
    <3> QED BY <1>0, <2>1, <2>4, <2>5, <3>1
  <2> QED BY <1>4, <1>5, <1>6, <2>5, <2>6, <2>7
<1> QED BY <1>8, <1>9, <1>10, <1>11, <1>12 DEF Worker

(***************************************************************************)
(* While the operator lives, one failing call, whichever it is, applied or  *)
(* not, does not leave a scan Running that nobody works on: handleFailedScan *)
(* follows in the same reconciliation. A second failure there, a dying      *)
(* operator and an expired context do leave one.                            *)
(***************************************************************************)
THEOREM RunningIsRunningHolds ==
  ASSUME OneFailure
  PROVE  Spec => []RunningIsRunning
<1> DEFINE Inv == InductiveInvariant /\ FailureIsHandled
<1>1. Init => FailureIsHandled
  <2> SUFFICES ASSUME Init PROVE FailureIsHandled
    OBVIOUS
  <2>1. NoScan.phase # "Running"
    BY DEF NoScan, NewScan
  <2> QED BY <2>1 DEF Init, FailureIsHandled
<1>2. InductiveInvariant /\ FailureIsHandled /\ [Next]_vars => FailureIsHandled'
  <2> SUFFICES ASSUME InductiveInvariant, FailureIsHandled, [Next]_vars
               PROVE  FailureIsHandled'
    OBVIOUS
  <2>1. CASE \E s \in Scans : CreateScan(s) \/ DeleteScan(s) \/ Deliver(s) \/ Dequeue(s)
    BY <2>1, OthersHandled
  <2>2. CASE \E s \in Scans : Worker(s)
    BY <2>2, WorkerHandled DEF OneFailure
  <2>3. ~ \E s \in Scans : ContextExpires(s)
    BY DEF OneFailure, ContextExpires, Fault
  <2>4. CASE Relist
    <3>1. /\ scan' = scan /\ pc' = pc /\ expired' = expired
          /\ faults < MaxFaults /\ faults' = faults + 1
      BY <2>4 DEF Relist, Fault, workerVars
    <3>2. faults \in Nat /\ MaxFaults \in Nat
      BY BoundsAssumption DEF InductiveInvariant, TypeOK
    <3>3. faults # 1
      BY <3>1, <3>2 DEF OneFailure
    <3> QED BY <3>1, <3>3 DEF FailureIsHandled
  <2>5. ~Restart
    <3>1. restarts \in Nat
      BY BoundsAssumption DEF InductiveInvariant, TypeOK
    <3> QED BY <3>1 DEF OneFailure, Restart
  <2>6. CASE UNCHANGED vars
    BY <2>6 DEF vars, FailureIsHandled
  <2> QED BY <2>1, <2>2, <2>3, <2>4, <2>5, <2>6 DEF Next
<1>3. FailureIsHandled => RunningIsRunning
  BY DEF FailureIsHandled, RunningIsRunning
<1> QED BY <1>1, <1>2, <1>3, InvariantHolds, PTL DEF Spec
=============================================================================
