--------------------------- MODULE OperatorReplicas --------------------------
(***************************************************************************)
(* The processes of diki-operator (cmd/diki-operator) next to one another:  *)
(* a rolling update, a crash or an eviction starts a new one while an old   *)
(* one still runs. Each has its configuration, its informer cache and, once *)
(* it leads, the workers of the compliancescan controller; they share the   *)
(* API server and the lease of the leader election.                         *)
(*                                                                          *)
(* A process starts once; a restarted container is another process. The     *)
(* informers and the webhook run in every process, the controllers only in  *)
(* one that leads. What the workers do takes any time, also more than a     *)
(* lease lives.                                                             *)
(***************************************************************************)
EXTENDS OperatorConfig, Sequences, FiniteSets

CONSTANTS
  Processes,          \* diki-operator processes
  Former,             \* the one before an upgrade: it has stopped
  Files,              \* contents of the configuration file; Nil: not decodable
  Scans,              \* names of ComplianceScans
  MaxIncarnations,    \* bound: how often a name is given to a new scan
  MaxFaults,          \* bound: failed calls in one behaviour
  FaultKinds,         \* the calls that may fail, as in ComplianceScanController
  MaxExits            \* bound: processes that stop or are killed

ASSUME NoProcessIsNil == Nil \notin Processes

ASSUME FormerAssumption == Former \in Processes

ASSUME FinitenessAssumption == IsFiniteSet(Processes) /\ IsFiniteSet(Scans)

ASSUME FilesAssumption == Files \subseteq {Nil} \cup Configurations

ASSUME ReplicaBoundsAssumption == /\ MaxIncarnations \in Nat
                                  /\ MaxFaults \in Nat
                                  /\ MaxExits \in Nat

ASSUME ReplicaFaultsAssumption == FaultKinds \subseteq {"rejected", "lost"}

(***************************************************************************)
(* The leader stops at the latest renewDeadline and retryPeriod after its   *)
(* last renewal. The validation lets a file through whose lease does not    *)
(* live that long; with such a file two processes may lead.                 *)
(***************************************************************************)
GivesUpAfter(config) ==
  config.leaderElection.renewDeadline + config.leaderElection.retryPeriod

ASSUME LeaseAssumption ==
  \A f \in Files \ {Nil} :
    LET config == SetObjectDefaults(f)
    IN  config.leaderElection.leaderElect = TRUE =>
          GivesUpAfter(config) < config.leaderElection.leaseDuration

VARIABLES
  stage,        \* stage[p]: how far the process p is
  config,       \* config[p]: opt.config of p, Nil before it is accepted
  holder,       \* the process the lease names, or Nil
  age,          \* seconds since the lease was renewed
  scan,         \* scan[s]: the ComplianceScan s in the API server, or NoScan
  incarnation,  \* incarnation[s]: how many scans had the name s so far
  configMaps,   \* configMaps[s][u]: diki config ConfigMaps of the UID u of s
  watch,        \* watch[p][s]: the changes of s that p has not seen
  cache,        \* cache[p][s]: s as the informer cache of p has it
  queue,        \* queue[p]: keys in the workqueue of p
  pc,           \* pc[p][s]: where the worker of p on s is
  obj,          \* obj[p][s]: that worker's local variable complianceScan
  acting,       \* the process that led last (history)
  handovers,    \* how often a process started to lead (history)
  faults,       \* failed calls so far
  exits         \* processes that stopped so far

serverVars  == <<scan, incarnation, configMaps>>
leaseVars   == <<holder, age>>
processVars == <<stage, config>>
workerVars  == <<queue, pc, obj>>
historyVars == <<acting, handovers>>
vars == <<processVars, leaseVars, serverVars, watch, cache, workerVars,
          historyVars, faults, exits>>

(***************************************************************************)
(* The controller of a single process, as which the processes appear: its   *)
(* cache and its workers are those of the process that leads or led last,   *)
(* and it restarts when another one starts to lead.                         *)
(***************************************************************************)
Controller == INSTANCE ComplianceScanController WITH
  MaxRestarts             <- Cardinality(Processes),
  MaxConcurrentReconciles <- Cardinality(Scans) + 1,
  watch    <- watch[acting],
  cache    <- cache[acting],
  queue    <- queue[acting],
  pc       <- pc[acting],
  obj      <- obj[acting],
  expired  <- [s \in Scans |-> FALSE],
  restarts <- handovers

NoScan == Controller!NoScan

Stages == {"off", "starting", "standby", "leading", "stopping", "exited"}

Elects(p) == config[p].leaderElection.leaderElect

Alive(p) == stage[p] \in {"starting", "standby", "leading", "stopping"}

-----------------------------------------------------------------------------
\* Former has led and is gone; no scan exists yet.
Init == /\ acting = Former
        /\ stage = [p \in Processes |-> IF p = Former THEN "exited" ELSE "off"]
        /\ config = [p \in Processes |-> Nil]
        /\ holder = Nil
        /\ age = 0
        /\ scan = [s \in Scans |-> NoScan]
        /\ incarnation = [s \in Scans |-> 0]
        /\ configMaps = [s \in Scans |-> [u \in 0..MaxIncarnations |-> 0]]
        /\ watch = [p \in Processes |-> [s \in Scans |-> << >>]]
        /\ cache = [p \in Processes |-> [s \in Scans |-> NoScan]]
        /\ queue = [p \in Processes |-> {}]
        /\ pc = [p \in Processes |-> [s \in Scans |-> "idle"]]
        /\ obj = [p \in Processes |-> [s \in Scans |-> NoScan]]
        /\ handovers = 0
        /\ faults = 0
        /\ exits = 0

Exit(p) == /\ exits < MaxExits
           /\ exits' = exits + 1
           /\ stage' = [stage EXCEPT ![p] = "exited"]

-----------------------------------------------------------------------------
(* The command of a process. *)

(***************************************************************************)
(* client-go makes an elector only if renewDeadline is more than 1.2 times  *)
(* retryPeriod.                                                             *)
(***************************************************************************)
ElectorAccepts(e) ==
  e.leaderElect = TRUE => 5 * e.renewDeadline > 6 * e.retryPeriod

\* opt.Complete, opt.Validate and ctrl.NewManager let the decoded file f pass.
Accepted(f) ==
  /\ f # Nil
  /\ ValidateDikiOperatorConfiguration(SetObjectDefaults(f))
  /\ ElectorAccepts(SetObjectDefaults(f).leaderElection)

(***************************************************************************)
(* Without leader election nothing keeps two processes apart: whoever turns *)
(* it off has to stop one before the next is started.                       *)
(***************************************************************************)
RunsAlone(p, c) ==
  \A q \in Processes \ {p} :
    Alive(q) => c.leaderElection.leaderElect /\ Elects(q)

Launch(p) ==
  /\ stage[p] = "off"
  /\ \E f \in Files :
       \/ /\ Accepted(f)
          /\ RunsAlone(p, SetObjectDefaults(f))
          /\ config' = [config EXCEPT ![p] = SetObjectDefaults(f)]
          /\ stage' = [stage EXCEPT ![p] = "starting"]
          /\ UNCHANGED exits
       \/ /\ ~Accepted(f)
          /\ Exit(p)
          /\ UNCHANGED config
  /\ UNCHANGED <<leaseVars, serverVars, watch, cache, workerVars, historyVars,
                 faults>>

\* mgr.Start: the informers have listed the scans, the webhook is served.
Sync(p) ==
  /\ stage[p] = "starting"
  /\ stage' = [stage EXCEPT ![p] = "standby"]
  /\ cache' = [cache EXCEPT ![p] = scan]
  /\ watch' = [watch EXCEPT ![p] = [s \in Scans |-> << >>]]
  /\ UNCHANGED <<config, leaseVars, serverVars, workerVars, historyVars, faults,
                 exits>>

LeaseIsFree(p) ==
  holder # Nil => age >= config[holder].leaderElection.leaseDuration

(***************************************************************************)
(* Without leader election the process leads as soon as it is set up; with  *)
(* it, when it can take the lease.                                          *)
(***************************************************************************)
BecomesLeaderUnasked(p) ==      \* mutant: LeaderElection missing in ctrl.Options
  UNCHANGED leaseVars

BecomesLeader(p) ==
  IF Elects(p) THEN LeaseIsFree(p) /\ holder' = p /\ age' = 0
               ELSE UNCHANGED leaseVars

\* mutant: CreateFunc skips the initial list
HandlersSeeNothing(p) == {}

\* The handlers of a controller that starts get a Create event for every scan.
HandlersSee(p) == {s \in Scans : Controller!Predicate(NoScan, cache[p][s])}

(***************************************************************************)
(* The controllers start. The cache has caught up by then: a change takes  *)
(* less time to reach an informer than the lease to change hands.           *)
(***************************************************************************)
Lead(p) ==
  /\ stage[p] = "standby"
  /\ BecomesLeader(p)
  /\ \A s \in Scans : watch[p][s] = << >>
  /\ stage' = [stage EXCEPT ![p] = "leading"]
  /\ queue' = [queue EXCEPT ![p] = HandlersSee(p)]
  /\ acting' = p
  /\ handovers' = handovers + 1
  /\ UNCHANGED <<config, serverVars, watch, cache, pc, obj, faults, exits>>

Renew(p) ==
  /\ stage[p] \in {"leading", "stopping"}
  /\ Elects(p)
  /\ holder = p
  /\ age > 0
  /\ age' = 0
  /\ UNCHANGED <<processVars, holder, serverVars, watch, cache, workerVars,
                 historyVars, faults, exits>>

(***************************************************************************)
(* The leader could not renew the lease in time, the process dies or is     *)
(* killed: it exits at once, and the lease stays behind.                    *)
(***************************************************************************)
Die(p) ==
  /\ stage[p] \in {"starting", "standby", "leading"}
  /\ Exit(p)
  /\ UNCHANGED <<config, leaseVars, serverVars, watch, cache, workerVars,
                 historyVars, faults>>

(***************************************************************************)
(* SIGTERM at the leader: the contexts of the workers are cancelled, which  *)
(* stops every further call. Another process just exits, as in Die.         *)
(***************************************************************************)
TerminateReleasing(p) ==      \* mutant: the lease given back before the workers stop
  /\ stage[p] = "leading"
  /\ Elects(p)
  /\ holder = p
  /\ holder' = Nil
  /\ UNCHANGED <<processVars, age, serverVars, watch, cache, workerVars,
                 historyVars, faults, exits>>

Terminate(p) ==
  /\ stage[p] = "leading"
  /\ exits < MaxExits
  /\ exits' = exits + 1
  /\ stage' = [stage EXCEPT ![p] = "stopping"]
  /\ UNCHANGED <<config, leaseVars, serverVars, watch, cache, workerVars,
                 historyVars, faults>>

(***************************************************************************)
(* The workers have ended, or GracefulShutdownTimeout has: the process      *)
(* releases the lease, if it can, and exits.                                *)
(***************************************************************************)
Release(p) ==
  /\ stage[p] = "stopping"
  /\ stage' = [stage EXCEPT ![p] = "exited"]
  /\ \/ holder' = IF holder = p THEN Nil ELSE holder
     \/ UNCHANGED holder
  /\ UNCHANGED <<config, age, serverVars, watch, cache, workerVars, historyVars,
                 faults, exits>>

(***************************************************************************)
(* Time passes up to the next moment that matters: when the holder of the   *)
(* lease has to have given up, when the lease is over. The assumption on    *)
(* time: a leader that could not renew its lease is gone by the former.     *)
(***************************************************************************)
Deadlines(c) == {GivesUpAfter(c), c.leaderElection.leaseDuration}

OutlivesLease(p, time) == /\ stage[p] = "leading"
                       /\ Elects(p)
                       /\ time > GivesUpAfter(config[p])

Tick ==
  /\ holder # Nil
  /\ age' \in Deadlines(config[holder])
  /\ age' > age
  /\ \A p \in Processes : ~OutlivesLease(p, age')
  /\ UNCHANGED <<processVars, holder, serverVars, watch, cache, workerVars,
                 historyVars, faults, exits>>

-----------------------------------------------------------------------------
(* Users, the API server and the informers. *)

\* The informer of p gets what changes; a stopped one keeps what it missed.
Receives(p) == stage[p] \in {"standby", "leading"} \/ p = acting

Store(s, o) ==
  /\ scan' = [scan EXCEPT ![s] = o]
  /\ watch' = [p \in Processes |->
                 IF Receives(p) THEN [watch[p] EXCEPT ![s] = Append(@, o)]
                                ELSE watch[p]]

(***************************************************************************)
(* failurePolicy Fail: no scan is created unless some process serves the    *)
(* webhook, whether it leads or not.                                        *)
(***************************************************************************)
CreateScan(s) ==
  /\ \E p \in Processes : stage[p] \in {"standby", "leading"}
  /\ scan[s] = NoScan
  /\ incarnation[s] < MaxIncarnations
  /\ incarnation' = [incarnation EXCEPT ![s] = @ + 1]
  /\ Store(s, Controller!NewScan(incarnation[s] + 1))
  /\ UNCHANGED <<processVars, leaseVars, configMaps, cache, workerVars,
                 historyVars, faults, exits>>

DeleteScan(s) ==
  /\ scan[s] # NoScan
  /\ Store(s, NoScan)
  /\ UNCHANGED <<processVars, leaseVars, incarnation, configMaps, cache,
                 workerVars, historyVars, faults, exits>>

\* Only the controllers of a leader have handlers.
Deliver(p, s) ==
  /\ stage[p] \in {"standby", "leading"}
  /\ watch[p][s] # << >>
  /\ cache' = [cache EXCEPT ![p][s] = Head(watch[p][s])]
  /\ watch' = [watch EXCEPT ![p][s] = Tail(@)]
  /\ queue' = IF /\ stage[p] = "leading"
                 /\ Controller!Predicate(cache[p][s], Head(watch[p][s]))
               THEN [queue EXCEPT ![p] = @ \cup {s}] ELSE queue
  /\ UNCHANGED <<processVars, leaseVars, serverVars, pc, obj, historyVars,
                 faults, exits>>

-----------------------------------------------------------------------------
(* The workers of a leader: Reconcile of the compliancescan controller.     *)

Dequeue(p, s) ==
  /\ s \in queue[p]
  /\ pc[p][s] = "idle"
  /\ queue' = [queue EXCEPT ![p] = @ \ {s}]
  /\ pc' = [pc EXCEPT ![p][s] = "get"]
  /\ UNCHANGED <<serverVars, watch, obj, faults>>

Goto(p, s, label) == /\ pc' = [pc EXCEPT ![p][s] = label]
                     /\ UNCHANGED queue

Return(p, s, err) ==
  /\ pc' = [pc EXCEPT ![p][s] = "idle"]
  /\ obj' = [obj EXCEPT ![p][s] = NoScan]
  /\ queue' = IF err THEN [queue EXCEPT ![p] = @ \cup {s}] ELSE queue

Fault(kind) == /\ kind \in FaultKinds
               /\ faults < MaxFaults
               /\ faults' = faults + 1

ReconcileGet(p, s) ==
  /\ pc[p][s] = "get"
  /\ \/ /\ cache[p][s] = NoScan \/ Controller!AlreadyProcessed(cache[p][s])
        /\ Return(p, s, FALSE)
        /\ UNCHANGED faults
     \/ /\ Fault("rejected")
        /\ Return(p, s, TRUE)
     \/ /\ cache[p][s] # NoScan
        /\ ~Controller!AlreadyProcessed(cache[p][s])
        /\ obj' = [obj EXCEPT ![p][s] = cache[p][s]]
        /\ Goto(p, s, "running")
        /\ UNCHANGED faults
  /\ UNCHANGED <<serverVars, watch>>

Merged(p, s, new) == Controller!MergePatch(scan[s], obj[p][s], new)

PatchOk(p, s, new) == /\ scan[s] # NoScan
                      /\ Store(s, Merged(p, s, new))
                      /\ UNCHANGED faults

PatchFails(p, s, new) ==
  \/ /\ scan[s] = NoScan
     /\ UNCHANGED <<scan, watch, faults>>
  \/ /\ Fault("rejected")
     /\ UNCHANGED <<scan, watch>>
  \/ /\ scan[s] # NoScan
     /\ Fault("lost")
     /\ Store(s, Merged(p, s, new))

PatchRunning(p, s) ==
  LET new == Controller!RunningStatus(obj[p][s])
  IN  /\ pc[p][s] = "running"
      /\ \/ /\ PatchOk(p, s, new)
            /\ obj' = [obj EXCEPT ![p][s] = Merged(p, s, new)]
            /\ Goto(p, s, "deploy")
         \/ /\ PatchFails(p, s, new)
            /\ obj' = [obj EXCEPT ![p][s] = new]
            /\ Goto(p, s, "failed")
      /\ UNCHANGED <<incarnation, configMaps>>

DeployDikiConfigMap(p, s) ==
  LET created == [configMaps EXCEPT ![s][obj[p][s].uid] = @ + 1]
  IN  /\ pc[p][s] = "deploy"
      /\ \/ configMaps' = created /\ Goto(p, s, "completed") /\ UNCHANGED faults
         \/ Fault("rejected") /\ Goto(p, s, "failed") /\ UNCHANGED configMaps
         \/ Fault("lost") /\ configMaps' = created /\ Goto(p, s, "failed")
      /\ UNCHANGED <<scan, incarnation, watch, obj>>

PatchCompleted(p, s) ==
  LET new == Controller!CompletedStatus(obj[p][s])
  IN  /\ pc[p][s] = "completed"
      /\ \/ PatchOk(p, s, new) /\ Return(p, s, FALSE)
         \/ /\ PatchFails(p, s, new)
            /\ obj' = [obj EXCEPT ![p][s] = new]
            /\ Goto(p, s, "failed")
      /\ UNCHANGED <<incarnation, configMaps>>

HandleFailedScan(p, s) ==
  LET new == Controller!FailedStatus(obj[p][s])
  IN  /\ pc[p][s] = "failed"
      /\ \/ PatchOk(p, s, new) /\ Return(p, s, FALSE)
         \/ PatchFails(p, s, new) /\ Return(p, s, TRUE)
      /\ UNCHANGED <<incarnation, configMaps>>

Worker(p, s) ==
  /\ stage[p] = "leading"
  /\ \/ Dequeue(p, s)
     \/ ReconcileGet(p, s)
     \/ PatchRunning(p, s)
     \/ DeployDikiConfigMap(p, s)
     \/ PatchCompleted(p, s)
     \/ HandleFailedScan(p, s)
  /\ UNCHANGED <<processVars, leaseVars, cache, historyVars, exits>>

-----------------------------------------------------------------------------
Process(p) == \/ Launch(p)
              \/ Sync(p)
              \/ Lead(p)
              \/ Renew(p)
              \/ Die(p)
              \/ Terminate(p)
              \/ Release(p)

Next == \/ \E p \in Processes : Process(p)
        \/ \E s \in Scans : CreateScan(s) \/ DeleteScan(s)
        \/ \E p \in Processes, s \in Scans : Deliver(p, s) \/ Worker(p, s)
        \/ Tick

Spec == Init /\ [][Next]_vars

(***************************************************************************)
(* The Deployment starts processes, client-go asks for the lease every      *)
(* retryPeriod, so that a free one is taken, and time passes; the watch     *)
(* delivers and the workers run. A process that stops to exit does exit.    *)
(***************************************************************************)
Fairness == /\ \A p \in Processes : /\ WF_vars(Launch(p))
                                    /\ WF_vars(Sync(p))
                                    /\ SF_vars(Lead(p))
                                    /\ WF_vars(Release(p))
                                    /\ \A s \in Scans : /\ WF_vars(Deliver(p, s))
                                                        /\ WF_vars(Worker(p, s))
            /\ WF_vars(Tick)

FairSpec == Spec /\ Fairness

-----------------------------------------------------------------------------
(* Properties. *)

\* Every variable has its type; the controller's part is that of its module.
ReplicasTypeOK ==
  /\ stage \in [Processes -> Stages]
  /\ config \in [Processes -> {Nil} \cup Configurations]
  /\ holder \in {Nil} \cup Processes
  /\ age \in Nat
  /\ acting \in Processes
  /\ handovers \in Nat
  /\ exits \in 0..MaxExits
  /\ Controller!TypeOK

(***************************************************************************)
(* Two processes never reconcile at the same time: with leader election the *)
(* lease keeps them apart, through crashes, missed renewals and the release *)
(* on SIGTERM, which comes after the workers were stopped (app.go, the      *)
(* LeaderElection fields of ctrl.Options).                                  *)
(***************************************************************************)
OneLeader == \A p, q \in Processes :
               stage[p] = "leading" /\ stage[q] = "leading" => p = q

(***************************************************************************)
(* What run reads through a pointer is there in every process that starts,  *)
(* whatever its file leaves out (app.go dereferences leaderElect, metrics   *)
(* and healthProbes unchecked), and what it passes on is legal.             *)
(***************************************************************************)
ConfigIsComplete ==
  \A p \in Processes : Alive(p) =>
    LET c == config[p]
        e == c.leaderElection
    IN  /\ e.leaderElect \in BOOLEAN
        /\ e.leaderElect => e.leaseDuration > e.renewDeadline
        /\ c.server.metrics # Nil /\ c.server.metrics.port > 0
        /\ c.server.healthProbes # Nil /\ c.server.healthProbes.port > 0
        /\ c.log.level \in LogLevels /\ c.log.format \in LogFormats
        /\ c.complianceScan.dikiRunner.namespace # ""

(***************************************************************************)
(* The processes together are one compliancescan controller that restarts   *)
(* when another process takes over: all that is shown of                    *)
(* ComplianceScanController holds of the replicated operator (app.go, the   *)
(* controllers need leader election; Predicate, the Create events of a      *)
(* controller that starts).                                                 *)
(***************************************************************************)
ControllerSpec == Controller!Spec

(***************************************************************************)
(* No scan is forgotten when processes come and go: a scan admitted by a    *)
(* process that never leads, or by one that dies, is started by the next    *)
(* leader (the list a new leader works off).                                *)
(***************************************************************************)
EventuallyStarted ==
  \A s \in Scans : scan[s] # NoScan ~> scan[s] = NoScan \/ scan[s].phase # ""
=============================================================================
