------------------------ MODULE OperatorReplicasProofs -----------------------
(***************************************************************************)
(* What holds of the configuration and of the leader election for every     *)
(* file, every set of processes and every length of a lease that satisfies  *)
(* LeaseAssumption.                                                         *)
(***************************************************************************)
EXTENDS OperatorReplicas, FiniteSetTheorems, TLAPS

-----------------------------------------------------------------------------
(* The configuration. *)

\* Default stays in the set of values.
LEMMA DefaultInSet ==
  ASSUME NEW S, NEW default \in S, NEW zero, NEW value \in {zero} \cup S
  PROVE  Default(value, zero, default) \in S
BY DEF Default

\* Nothing is left unset.
LEMMA DefaultIsSet ==
  ASSUME NEW zero, NEW default, default # zero, NEW value
  PROVE  Default(value, zero, default) # zero
BY DEF Default

\* A default is not replaced by itself.
LEMMA DefaultTwice ==
  ASSUME NEW zero, NEW default, default # zero, NEW value
  PROVE  Default(Default(value, zero, default), zero, default) = Default(value, zero, default)
BY DEF Default

(***************************************************************************)
(* Defaults fill gaps and nothing else: what the file sets stays, and       *)
(* filling in twice is filling in once (SetObjectDefaults and the functions *)
(* of defaults.go). Stated for the leader election, where every field       *)
(* counts.                                                                  *)
(***************************************************************************)
THEOREM DefaultsKeepValues ==
  ASSUME NEW e \in LeaderElections
  PROVE  LET d == SetDefaults_LeaderElectionConfiguration(e)
         IN  /\ e.leaderElect # Nil => d.leaderElect = e.leaderElect
             /\ e.leaseDuration # 0 => d.leaseDuration = e.leaseDuration
             /\ e.renewDeadline # 0 => d.renewDeadline = e.renewDeadline
             /\ e.retryPeriod # 0 => d.retryPeriod = e.retryPeriod
             /\ SetDefaults_LeaderElectionConfiguration(d) = d
<1> DEFINE d == SetDefaults_LeaderElectionConfiguration(e)
<1>1. /\ e.leaderElect # Nil => d.leaderElect = e.leaderElect
      /\ e.leaseDuration # 0 => d.leaseDuration = e.leaseDuration
      /\ e.renewDeadline # 0 => d.renewDeadline = e.renewDeadline
      /\ e.retryPeriod # 0 => d.retryPeriod = e.retryPeriod
  BY DEF SetDefaults_LeaderElectionConfiguration, Default
<1>2. SetDefaults_LeaderElectionConfiguration(d) = d
  <2>1. TRUE # Nil
    BY NilAssumption
  <2>2. Default(d.leaderElect, Nil, TRUE) = d.leaderElect
    BY <2>1, DefaultTwice, Zenon DEF SetDefaults_LeaderElectionConfiguration
  <2>3. /\ Default(d.leaseDuration, 0, 15) = d.leaseDuration
        /\ Default(d.renewDeadline, 0, 10) = d.renewDeadline
        /\ Default(d.retryPeriod, 0, 2) = d.retryPeriod
    BY DefaultTwice DEF SetDefaults_LeaderElectionConfiguration
  <2>4. /\ Default(d.resourceLock, "", "leases") = d.resourceLock
        /\ Default(d.resourceNamespace, "", "kube-system") = d.resourceNamespace
        /\ Default(d.resourceName, "", "diki-operator-leader-election") = d.resourceName
    BY DefaultTwice DEF SetDefaults_LeaderElectionConfiguration
  <2> QED BY <2>2, <2>3, <2>4, Zenon DEF SetDefaults_LeaderElectionConfiguration
<1> QED BY <1>1, <1>2

(***************************************************************************)
(* A lease that the file leaves to the defaults outlives its holder, as     *)
(* LeaseAssumption asks (RecommendedDefaultLeaderElectionConfiguration).    *)
(***************************************************************************)
THEOREM DefaultLeaseIsSafe ==
  ASSUME NEW f \in Configurations, f.leaderElection = Nil
  PROVE  LET c == SetObjectDefaults(f)
         IN  GivesUpAfter(c) < c.leaderElection.leaseDuration
<1>1. SetDefaults_DikiOperatorConfiguration(f).leaderElection = ZeroLeaderElection
  BY DEF SetDefaults_DikiOperatorConfiguration, Default, Configurations
<1>2. SetObjectDefaults(f).leaderElection = SetDefaults_LeaderElectionConfiguration(ZeroLeaderElection)
  BY <1>1 DEF SetObjectDefaults
<1> QED BY <1>2 DEF GivesUpAfter, SetDefaults_LeaderElectionConfiguration, ZeroLeaderElection, Default

(***************************************************************************)
(* The leader election of a defaulted file.                                 *)
(***************************************************************************)
LEMMA DefaultsTyped ==
  ASSUME NEW f \in Configurations
  PROVE  LET e == SetObjectDefaults(f).leaderElection
         IN  /\ e.leaderElect \in BOOLEAN
             /\ e.leaseDuration \in Nat
             /\ e.renewDeadline \in Nat
             /\ e.retryPeriod \in Nat
<1> DEFINE z == SetDefaults_DikiOperatorConfiguration(f).leaderElection
           e == SetObjectDefaults(f).leaderElection
<1>1. z = Default(f.leaderElection, Nil, ZeroLeaderElection)
  BY DEF SetDefaults_DikiOperatorConfiguration, Configurations
<1>2. z = ZeroLeaderElection \/ z \in LeaderElections
  BY <1>1 DEF Default, Configurations
<1>3. e = SetDefaults_LeaderElectionConfiguration(z)
  BY DEF SetObjectDefaults
<1> HIDE DEF z, e
<1>4. /\ z.leaderElect = Nil \/ z.leaderElect \in BOOLEAN
      /\ z.leaseDuration \in Nat
      /\ z.renewDeadline \in Nat
      /\ z.retryPeriod \in Nat
  <2>1. CASE z = ZeroLeaderElection
    BY <2>1 DEF ZeroLeaderElection
  <2>2. CASE z \in LeaderElections
    BY <2>2 DEF LeaderElections, Durations
  <2> QED BY <1>2, <2>1, <2>2
<1>5. /\ e.leaseDuration = Default(z.leaseDuration, 0, 15)
      /\ e.renewDeadline = Default(z.renewDeadline, 0, 10)
      /\ e.retryPeriod = Default(z.retryPeriod, 0, 2)
  BY <1>3 DEF SetDefaults_LeaderElectionConfiguration
<1>6. e.leaderElect = Default(z.leaderElect, Nil, TRUE)
  BY <1>3, Zenon DEF SetDefaults_LeaderElectionConfiguration
<1>7. e.leaderElect \in BOOLEAN
  BY <1>4, <1>6, Zenon DEF Default
<1>8. e.leaseDuration \in Nat /\ e.renewDeadline \in Nat /\ e.retryPeriod \in Nat
  BY <1>4, <1>5 DEF Default
<1> QED BY <1>7, <1>8 DEF e

-----------------------------------------------------------------------------
\* What a process that starts has as its configuration.
Runnable(c) == \E f \in Files : Accepted(f) /\ c = SetObjectDefaults(f)

LEMMA RunnableTyped ==
  ASSUME NEW c, Runnable(c)
  PROVE  /\ c.leaderElection.leaderElect \in BOOLEAN
         /\ c.leaderElection.leaseDuration \in Nat
         /\ GivesUpAfter(c) \in Nat
         /\ c.leaderElection.leaderElect = TRUE =>
              /\ GivesUpAfter(c) < c.leaderElection.leaseDuration
              /\ c.leaderElection.renewDeadline < c.leaderElection.leaseDuration
<1>1. PICK f \in Files : Accepted(f) /\ c = SetObjectDefaults(f)
  BY DEF Runnable
<1>2. f \in Configurations /\ f \in Files \ {Nil}
  BY <1>1, FilesAssumption DEF Accepted
<1>3. /\ c.leaderElection.leaderElect \in BOOLEAN
      /\ c.leaderElection.leaseDuration \in Nat
      /\ c.leaderElection.renewDeadline \in Nat
      /\ c.leaderElection.retryPeriod \in Nat
  BY <1>1, <1>2, DefaultsTyped
<1>4. GivesUpAfter(c) \in Nat
  BY <1>3 DEF GivesUpAfter
<1>5. c.leaderElection.leaderElect = TRUE =>
        GivesUpAfter(c) < c.leaderElection.leaseDuration
  BY <1>1, <1>2, LeaseAssumption
<1>6. c.leaderElection.leaderElect = TRUE =>
        c.leaderElection.renewDeadline < c.leaderElection.leaseDuration
  BY <1>3, <1>5 DEF GivesUpAfter
<1> QED BY <1>3, <1>4, <1>5, <1>6

\* The parts of ConfigIsComplete, for one configuration.
LEMMA RunnableComplete ==
  ASSUME NEW c, Runnable(c)
  PROVE  /\ c.server.metrics # Nil /\ c.server.metrics.port > 0
         /\ c.server.healthProbes # Nil /\ c.server.healthProbes.port > 0
         /\ c.log.level \in LogLevels /\ c.log.format \in LogFormats
         /\ c.complianceScan.dikiRunner.namespace # ""
<1>1. PICK f \in Files : Accepted(f) /\ c = SetObjectDefaults(f)
  BY DEF Runnable
<1>2. f \in Configurations
  BY <1>1, FilesAssumption DEF Accepted
<1>3. ValidateDikiOperatorConfiguration(c)
  BY <1>1 DEF Accepted
<1>4. c.log = SetDefaults_Log(f.log) /\ ValidLog(c.log)
  BY <1>1, <1>3 DEF SetObjectDefaults, ValidateDikiOperatorConfiguration
<1>5. c.log.level \in LogLevels /\ c.log.format \in LogFormats
  <2>1. c.log.level # "" /\ c.log.format # ""
    <3> DEFINE level == Default(f.log.level, "", "info")
               format == Default(f.log.format, "", "json")
    <3>1. level # "" /\ format # ""
      BY DefaultIsSet
    <3>2. c.log = [level |-> level, format |-> format]
      BY <1>4, Zenon DEF SetDefaults_Log
    <3> HIDE DEF level, format
    <3>3. c.log.level = level /\ c.log.format = format
      BY <3>2
    <3> QED BY <3>1, <3>3
  <2> QED BY <1>4, <2>1 DEF ValidLog
<1>6. c.complianceScan.dikiRunner.namespace # ""
  BY <1>1 DEF SetObjectDefaults, SetDefaults_ComplianceScanConfig,
     SetDefaults_DikiRunnerConfig, Default
<1>7. ASSUME NEW s \in {Nil} \cup Servers, NEW port \in Nat \ {0},
             ValidServer(ServerWithPort(s, port))
      PROVE  ServerWithPort(s, port) # Nil /\ ServerWithPort(s, port).port > 0
  <2>1. ServerWithPort(s, port) \in Servers
    BY DEF ServerWithPort, Servers, Default
  <2>2. ServerWithPort(s, port) # Nil
    BY <2>1, NilAssumption
  <2>3. ServerWithPort(s, port).port \in Int /\ ServerWithPort(s, port).port # 0
    BY DEF ServerWithPort, Servers, Default
  <2> QED BY <1>7, <2>2, <2>3 DEF ValidServer
<1>8. /\ c.server.metrics = ServerWithPort(f.server.metrics, 8080)
      /\ c.server.healthProbes = ServerWithPort(f.server.healthProbes, 8081)
  <2>1. c.server = SetDefaults_ServerConfiguration(f.server)
    BY <1>1 DEF SetObjectDefaults
  <2> QED BY <2>1 DEF SetDefaults_ServerConfiguration
<1>9. ValidServer(c.server.metrics) /\ ValidServer(c.server.healthProbes)
  BY <1>3 DEF ValidateDikiOperatorConfiguration, ValidServerConfiguration
<1>10. /\ f.server.metrics \in {Nil} \cup Servers
       /\ f.server.healthProbes \in {Nil} \cup Servers
  BY <1>2 DEF Configurations
<1>11. c.server.metrics # Nil /\ c.server.metrics.port > 0
  BY <1>7, <1>8, <1>9, <1>10
<1>12. c.server.healthProbes # Nil /\ c.server.healthProbes.port > 0
  BY <1>7, <1>8, <1>9, <1>10
<1> QED BY <1>5, <1>6, <1>11, <1>12

-----------------------------------------------------------------------------
(* The leader election. *)

(***************************************************************************)
(* The inductive invariant: every live process has a configuration the      *)
(* validation let pass; a leader holds a lease that its own deadline        *)
(* outruns; two live processes both elect. Without the second part a lease  *)
(* might run out under its holder, without the third a process without      *)
(* leader election could start next to a leader.                            *)
(***************************************************************************)
LivesRunnable == \A p \in Processes : Alive(p) => Runnable(config[p])

LeaderHoldsLease == \A p \in Processes :
  stage[p] = "leading" /\ Elects(p) = TRUE =>
    holder = p /\ age <= GivesUpAfter(config[p])

NeighboursElect == \A p, q \in Processes :
  Alive(p) /\ Alive(q) /\ p # q => Elects(p) = TRUE /\ Elects(q) = TRUE

HolderTyped == holder # Nil => holder \in Processes /\ Runnable(config[holder])

ElectionInvariant == /\ stage \in [Processes -> Stages]
                     /\ DOMAIN config = Processes
                     /\ age \in Nat
                     /\ HolderTyped
                     /\ LivesRunnable
                     /\ LeaderHoldsLease
                     /\ NeighboursElect

LEMMA ElectionInvariantImpliesOneLeader ==
  ElectionInvariant => OneLeader
<1> SUFFICES ASSUME ElectionInvariant, NEW p \in Processes, NEW q \in Processes,
                    stage[p] = "leading", stage[q] = "leading", p # q
             PROVE  FALSE
  BY DEF OneLeader
<1>1. Elects(p) = TRUE /\ Elects(q) = TRUE
  BY DEF ElectionInvariant, NeighboursElect, Alive
<1>2. holder = p /\ holder = q
  BY <1>1 DEF ElectionInvariant, LeaderHoldsLease
<1> QED BY <1>2

LEMMA InitEstablishesElection == Init => ElectionInvariant
<1> SUFFICES ASSUME Init PROVE ElectionInvariant
  OBVIOUS
<1>1. \A p \in Processes : stage[p] \in {"exited", "off"}
  BY DEF Init
<1>2. /\ stage \in [Processes -> Stages]
      /\ DOMAIN config = Processes
      /\ age \in Nat
      /\ holder = Nil
  BY DEF Init, Stages
<1> QED BY <1>1, <1>2 DEF ElectionInvariant, HolderTyped, LivesRunnable,
                          LeaderHoldsLease, NeighboursElect, Alive

\* A step that leaves stages, configurations and the lease alone.
LEMMA ElsewhereKeepsElection ==
  ASSUME ElectionInvariant, UNCHANGED <<processVars, leaseVars>>
  PROVE  ElectionInvariant'
BY DEF ElectionInvariant, HolderTyped, LivesRunnable, LeaderHoldsLease, Elects,
       NeighboursElect, Alive, processVars, leaseVars

LEMMA LaunchKeepsElection ==
  ASSUME ElectionInvariant, NEW p \in Processes, Launch(p)
  PROVE  ElectionInvariant'
<1> USE DEF ElectionInvariant
<1>1. stage[p] = "off" /\ UNCHANGED leaseVars
  BY DEF Launch
<1>2. ASSUME NEW f \in Files, Accepted(f), RunsAlone(p, SetObjectDefaults(f)),
             config' = [config EXCEPT ![p] = SetObjectDefaults(f)],
             stage' = [stage EXCEPT ![p] = "starting"]
      PROVE  ElectionInvariant'
  <2>1. Runnable(SetObjectDefaults(f))
    BY <1>2 DEF Runnable
  <2>2. \A q \in Processes \ {p} : config'[q] = config[q] /\ stage'[q] = stage[q]
    BY <1>2
  <2>3. config'[p] = SetObjectDefaults(f) /\ stage'[p] = "starting"
    BY <1>2
  <2>4. stage' \in [Processes -> Stages] /\ DOMAIN config' = Processes /\ age' \in Nat
    BY <1>1, <1>2 DEF Stages, leaseVars
  <2>5. HolderTyped'
    <3> SUFFICES ASSUME holder # Nil
                 PROVE  holder \in Processes /\ Runnable(config'[holder])
      BY <1>1 DEF HolderTyped, leaseVars
    <3> QED BY <2>1, <2>2, <2>3 DEF HolderTyped
  <2>6. LivesRunnable'
    BY <2>1, <2>2, <2>3 DEF LivesRunnable, Alive
  <2>7. LeaderHoldsLease'
    BY <1>1, <2>2, <2>3 DEF LeaderHoldsLease, Elects, leaseVars
  <2>8. NeighboursElect'
    BY <1>2, <2>2, <2>3 DEF NeighboursElect, Elects, Alive, RunsAlone
  <2> QED BY <2>4, <2>5, <2>6, <2>7, <2>8
<1>3. ASSUME Exit(p), UNCHANGED config
      PROVE  ElectionInvariant'
  BY <1>1, <1>3 DEF Exit, Stages, HolderTyped, LivesRunnable, LeaderHoldsLease,
                    Elects, NeighboursElect, Alive, leaseVars
<1> QED BY <1>2, <1>3 DEF Launch

LEMMA LeadKeepsElection ==
  ASSUME ElectionInvariant, NEW p \in Processes, Lead(p)
  PROVE  ElectionInvariant'
<1> USE DEF ElectionInvariant
<1>1. /\ stage[p] = "standby"
      /\ stage' = [stage EXCEPT ![p] = "leading"]
      /\ config' = config
      /\ BecomesLeader(p)
  BY DEF Lead
<1>2. Alive(p) /\ Runnable(config[p]) /\ Elects(p) \in BOOLEAN
  BY <1>1, RunnableTyped DEF Alive, LivesRunnable, Elects
<1>3. stage' \in [Processes -> Stages] /\ DOMAIN config' = Processes
  BY <1>1 DEF Stages
<1>4. LivesRunnable' /\ NeighboursElect'
  BY <1>1 DEF LivesRunnable, NeighboursElect, Alive, Elects
<1>5. CASE Elects(p) = TRUE
  <2>1. LeaseIsFree(p) /\ holder' = p /\ age' = 0
    BY <1>1, <1>5 DEF BecomesLeader
  <2>2. ASSUME NEW q \in Processes, q # p, stage[q] = "leading"
        PROVE  FALSE
    <3>1. Alive(q) /\ Elects(q) = TRUE
      BY <1>2, <2>2 DEF Alive, NeighboursElect
    <3>2. holder = q /\ age <= GivesUpAfter(config[q])
      BY <2>2, <3>1 DEF LeaderHoldsLease
    <3>3. age >= config[q].leaderElection.leaseDuration
      BY <2>1, <3>2, NoProcessIsNil DEF LeaseIsFree
    <3>4. /\ GivesUpAfter(config[q]) \in Nat
          /\ config[q].leaderElection.leaseDuration \in Nat
          /\ GivesUpAfter(config[q]) < config[q].leaderElection.leaseDuration
      BY <3>1, RunnableTyped DEF LivesRunnable, Elects
    <3> QED BY <3>2, <3>3, <3>4
  <2>3. LeaderHoldsLease'
    <3>1. GivesUpAfter(config[p]) \in Nat
      BY <1>2, RunnableTyped
    <3> QED BY <1>1, <2>1, <2>2, <3>1 DEF LeaderHoldsLease, GivesUpAfter
  <2>4. HolderTyped' /\ age' \in Nat
    BY <1>1, <1>2, <2>1 DEF HolderTyped
  <2> QED BY <1>3, <1>4, <2>3, <2>4
<1>6. CASE Elects(p) # TRUE
  <2>1. UNCHANGED leaseVars
    BY <1>1, <1>2, <1>6 DEF BecomesLeader
  <2>2. LeaderHoldsLease'
    BY <1>1, <1>6, <2>1 DEF LeaderHoldsLease, leaseVars, Elects
  <2> QED BY <1>1, <1>3, <1>4, <2>1, <2>2 DEF HolderTyped, leaseVars
<1> QED BY <1>5, <1>6

LEMMA TickKeepsElection ==
  ASSUME ElectionInvariant, Tick
  PROVE  ElectionInvariant'
<1> USE DEF ElectionInvariant
<1>1. UNCHANGED <<processVars, holder>> /\ holder \in Processes
  BY DEF Tick, HolderTyped
<1>2. age' \in Nat
  <2>1. Runnable(config[holder])
    BY DEF Tick, HolderTyped
  <2> QED BY <2>1, RunnableTyped DEF Tick, Deadlines
<1>3. ASSUME NEW p \in Processes, stage[p] = "leading", Elects(p) = TRUE
      PROVE  holder = p /\ age' <= GivesUpAfter(config[p])
  <2>1. ~(age' > GivesUpAfter(config[p]))
    BY <1>3 DEF Tick, OutlivesLease
  <2>2. GivesUpAfter(config[p]) \in Nat
    BY <1>3, RunnableTyped DEF LivesRunnable, Alive
  <2> QED BY <1>2, <1>3, <2>1, <2>2 DEF LeaderHoldsLease
<1> QED BY <1>1, <1>2, <1>3
        DEF processVars, HolderTyped, LivesRunnable, LeaderHoldsLease,
            NeighboursElect, Alive, Elects, GivesUpAfter

\* The other steps of a process.
LEMMA ProcessKeepsElection ==
  ASSUME ElectionInvariant, NEW p \in Processes, Process(p)
  PROVE  ElectionInvariant'
<1> USE DEF ElectionInvariant
<1>1. CASE Launch(p)
  BY <1>1, LaunchKeepsElection
<1>2. CASE Sync(p)
  BY <1>2 DEF Sync, Stages, HolderTyped, LivesRunnable, LeaderHoldsLease,
              NeighboursElect, Alive, Elects, leaseVars, GivesUpAfter
<1>3. CASE Lead(p)
  BY <1>3, LeadKeepsElection
<1>4. CASE Renew(p)
  <2>1. UNCHANGED <<processVars, holder>> /\ age' = 0
    BY <1>4 DEF Renew
  <2>2. GivesUpAfter(config[p]) \in Nat
    <3>1. Runnable(config[p])
      BY <1>4 DEF Renew, LivesRunnable, Alive
    <3> QED BY <3>1, RunnableTyped
  <2>3. \A q \in Processes : stage[q] = "leading" /\ Elects(q) = TRUE => q = p
    BY <1>4 DEF Renew, LeaderHoldsLease
  <2> QED BY <2>1, <2>2, <2>3 DEF processVars, HolderTyped, LivesRunnable,
             LeaderHoldsLease, NeighboursElect, Alive, Elects, GivesUpAfter
<1>5. CASE Die(p)
  BY <1>5 DEF Die, Exit, Stages, HolderTyped, LivesRunnable, LeaderHoldsLease,
              NeighboursElect, Alive, Elects, leaseVars, GivesUpAfter
<1>6. CASE Terminate(p)
  BY <1>6 DEF Terminate, Stages, HolderTyped, LivesRunnable, LeaderHoldsLease,
              NeighboursElect, Alive, Elects, leaseVars, GivesUpAfter
<1>7. CASE Release(p)
  <2>1. /\ stage[p] = "stopping"
        /\ stage' = [stage EXCEPT ![p] = "exited"]
        /\ config' = config /\ age' = age
        /\ holder' = holder \/ (holder = p /\ holder' = Nil)
    BY <1>7 DEF Release
  <2> QED BY <2>1 DEF Stages, HolderTyped, LivesRunnable, LeaderHoldsLease,
             NeighboursElect, Alive, Elects, GivesUpAfter
<1> QED BY <1>1, <1>2, <1>3, <1>4, <1>5, <1>6, <1>7 DEF Process

LEMMA NextKeepsElection == ElectionInvariant /\ [Next]_vars => ElectionInvariant'
<1> SUFFICES ASSUME ElectionInvariant, [Next]_vars
             PROVE  ElectionInvariant'
  OBVIOUS
<1>1. CASE \E p \in Processes : Process(p)
  BY <1>1, ProcessKeepsElection
<1>2. CASE \E s \in Scans : CreateScan(s) \/ DeleteScan(s)
  BY <1>2, ElsewhereKeepsElection DEF CreateScan, DeleteScan
<1>3. CASE \E p \in Processes, s \in Scans : Deliver(p, s) \/ Worker(p, s)
  BY <1>3, ElsewhereKeepsElection DEF Deliver, Worker
<1>4. CASE Tick
  BY <1>4, TickKeepsElection
<1>5. CASE UNCHANGED vars
  BY <1>5, ElsewhereKeepsElection DEF vars
<1> QED BY <1>1, <1>2, <1>3, <1>4, <1>5 DEF Next

LEMMA ElectionInvariantHolds == Spec => []ElectionInvariant
BY InitEstablishesElection, NextKeepsElection, PTL DEF Spec

(***************************************************************************)
(* For every set of processes and every file whose lease outlasts a leader  *)
(* that cannot renew it (LeaseAssumption): at most one process leads (the   *)
(* LeaderElection fields of ctrl.Options in app.go).                        *)
(***************************************************************************)
THEOREM OneLeaderHolds == Spec => []OneLeader
BY ElectionInvariantHolds, ElectionInvariantImpliesOneLeader, PTL

(***************************************************************************)
(* Whatever a file leaves out, a process that starts has what run           *)
(* dereferences and passes on (SetObjectDefaults, then the validation).     *)
(***************************************************************************)
THEOREM ConfigIsCompleteHolds == Spec => []ConfigIsComplete
<1>1. ElectionInvariant => ConfigIsComplete
  <2> SUFFICES ASSUME ElectionInvariant
               PROVE  \A p \in Processes : Alive(p) => Runnable(config[p])
    BY RunnableTyped, RunnableComplete DEF ConfigIsComplete
  <2> QED BY DEF ElectionInvariant, LivesRunnable
<1> QED BY <1>1, ElectionInvariantHolds, PTL

-----------------------------------------------------------------------------
(***************************************************************************)
(* The processes implement ComplianceScanController. What a step of the     *)
(* controller needs, besides one leader at a time: only the process that    *)
(* led last has workers that did something (Untouched); the cache of every  *)
(* process that may lead or leads gets to what the API server has           *)
(* (CachesFollow), so that a new leader begins where Restart begins; and a  *)
(* process leads once (HandoversCounted), which bounds the restarts.        *)
(***************************************************************************)
Copies == Controller!Objects

Labels == {"idle", "get", "running", "deploy", "completed", "failed"}

ReplicasTyped ==
  /\ stage \in [Processes -> Stages]
  /\ scan \in [Scans -> Copies]
  /\ incarnation \in [Scans -> 0..MaxIncarnations]
  /\ configMaps \in [Scans -> [0..MaxIncarnations -> Nat]]
  /\ watch \in [Processes -> [Scans -> Seq(Copies)]]
  /\ cache \in [Processes -> [Scans -> Copies]]
  /\ queue \in [Processes -> SUBSET Scans]
  /\ pc \in [Processes -> [Scans -> Labels]]
  /\ obj \in [Processes -> [Scans -> Copies]]
  /\ acting \in Processes
  /\ handovers \in Nat
  /\ faults \in 0..MaxFaults
  /\ exits \in 0..MaxExits

\* Processes that have led.
Over == {p \in Processes : stage[p] \in {"leading", "stopping", "exited"}}

LastLeads == /\ acting \in Over
             /\ \A p \in Processes : stage[p] = "leading" => p = acting

Untouched ==
  \A p \in Processes \ Over : /\ pc[p] = [s \in Scans |-> "idle"]
                              /\ obj[p] = [s \in Scans |-> NoScan]

Latest(p, s) == IF watch[p][s] = << >> THEN cache[p][s]
                                       ELSE watch[p][s][Len(watch[p][s])]

CachesFollow ==
  \A p \in Processes : stage[p] \in {"standby", "leading"} =>
    \A s \in Scans : Latest(p, s) = scan[s]

HandoversCounted == handovers <= Cardinality(Over)

HandoverInvariant == /\ ReplicasTyped
                     /\ LastLeads
                     /\ Untouched
                     /\ CachesFollow
                     /\ HandoversCounted

-----------------------------------------------------------------------------
(* The objects of the controller. *)

LEMMA StatusInCopies ==
  ASSUME NEW o \in Copies
  PROVE  /\ Controller!RunningStatus(o) \in Copies
         /\ Controller!CompletedStatus(o) \in Copies
         /\ Controller!FailedStatus(o) \in Copies
<1>1. o.uid \in 0..MaxIncarnations /\ o.conditions \in SUBSET Controller!Conditions
  BY DEF Copies, Controller!Objects
<1>2. \A type \in {"Completed", "Failed"}, status \in {"True", "False"} :
        Controller!UpdateConditions(o.conditions, type, status)
          \in SUBSET Controller!Conditions
  BY <1>1 DEF Controller!UpdateConditions, Controller!Build, Controller!Conditions
<1>3. {"Running", "Completed", "Failed"} \subseteq Controller!Phases
  BY DEF Controller!Phases
<1>4. \A cs \in SUBSET Controller!Conditions, ph \in Controller!Phases :
        [uid |-> o.uid, phase |-> ph, conditions |-> cs] \in Copies
  BY <1>1 DEF Copies, Controller!Objects
<1>5. Controller!RunningStatus(o) \in Copies /\ Controller!CompletedStatus(o) \in Copies
  BY <1>2, <1>3, <1>4 DEF Controller!RunningStatus, Controller!CompletedStatus
<1>6. {c \in Controller!UpdateConditions(o.conditions, "Failed", "True") :
         c.type # "Completed"} \in SUBSET Controller!Conditions
  BY <1>2
<1>7. Controller!FailedStatus(o) \in Copies
  BY <1>3, <1>4, <1>6 DEF Controller!FailedStatus
<1> QED BY <1>5, <1>7

LEMMA MergeInCopies ==
  ASSUME NEW server \in Copies, NEW base \in Copies, NEW new \in Copies
  PROVE  Controller!MergePatch(server, base, new) \in Copies
BY DEF Copies, Controller!Objects, Controller!MergePatch

LEMMA NewInCopies ==
  ASSUME NEW u \in 0..MaxIncarnations
  PROVE  Controller!NewScan(u) \in Copies
BY DEF Copies, Controller!Objects, Controller!NewScan, Controller!Phases

LEMMA NoScanInCopies == NoScan \in Copies
<1>1. 0 \in 0..MaxIncarnations
  BY ReplicaBoundsAssumption
<1> QED BY <1>1, NewInCopies DEF NoScan, Controller!NoScan

LEMMA OverIsFinite ==
  /\ IsFiniteSet(Over)
  /\ Cardinality(Over) \in Nat
  /\ \A p \in Processes \ Over : Cardinality(Over) < Cardinality(Processes)
<1>1. Over \subseteq Processes
  BY DEF Over
<1>2. IsFiniteSet(Over)
  BY <1>1, FinitenessAssumption, FS_Subset
<1>3. \A p \in Processes \ Over : Over # Processes
  OBVIOUS
<1>4. Cardinality(Over) <= Cardinality(Processes)
      /\ (Cardinality(Over) = Cardinality(Processes) => Over = Processes)
  BY <1>1, FinitenessAssumption, FS_Subset
<1>5. Cardinality(Over) \in Nat /\ Cardinality(Processes) \in Nat
  BY <1>2, FinitenessAssumption, FS_CardinalityType
<1> QED BY <1>2, <1>3, <1>4, <1>5

-----------------------------------------------------------------------------
(* Steps of the command and of time. *)

LEMMA CountsStay ==
  ASSUME HandoversCounted, handovers \in Nat, handovers' = handovers, Over \subseteq Over'
  PROVE  HandoversCounted'
<1>1. Over' \subseteq Processes
  BY DEF Over
<1>2. IsFiniteSet(Over')
  BY <1>1, FinitenessAssumption, FS_Subset
<1>3. Cardinality(Over) <= Cardinality(Over')
  BY <1>2, FS_Subset
<1>4. Cardinality(Over) \in Nat /\ Cardinality(Over') \in Nat
  BY <1>2, OverIsFinite, FS_CardinalityType
<1> QED BY <1>3, <1>4 DEF HandoversCounted

Untouching == UNCHANGED <<serverVars, watch, cache, workerVars, historyVars, faults>>

\* A process starts, or stops and exits.
LEMMA MovesKeepHandover ==
  ASSUME HandoverInvariant, NEW p \in Processes, NEW next \in Stages,
         stage' = [stage EXCEPT ![p] = next],
         \/ next \in {"stopping", "exited"}
         \/ stage[p] = "off" /\ next = "starting",
         Untouching, exits' \in 0..MaxExits
  PROVE  HandoverInvariant'
<1> USE DEF HandoverInvariant
<1>1. UNCHANGED <<scan, incarnation, configMaps, watch, cache, queue, pc, obj,
                  acting, handovers, faults>>
  BY DEF Untouching, serverVars, workerVars, historyVars
<1>2. stage'[p] = next /\ \A q \in Processes \ {p} : stage'[q] = stage[q]
  BY DEF ReplicasTyped
<1>3. stage' \in [Processes -> Stages]
  BY DEF ReplicasTyped
<1>4. Over \subseteq Over'
  BY <1>2 DEF Over
<1>5. ReplicasTyped'
  BY <1>1, <1>3 DEF ReplicasTyped
<1>6. LastLeads'
  <2>1. acting \in Over' /\ acting' = acting
    BY <1>1, <1>4 DEF LastLeads
  <2>2. \A q \in Processes : stage'[q] = "leading" => stage[q] = "leading"
    BY <1>2
  <2> QED BY <2>1, <2>2 DEF LastLeads
<1>7. Untouched'
  BY <1>1, <1>4 DEF Untouched
<1>8. CachesFollow'
  <2>1. \A q \in Processes : stage'[q] \in {"standby", "leading"} =>
                               stage[q] \in {"standby", "leading"}
    BY <1>2
  <2> QED BY <1>1, <2>1 DEF CachesFollow, Latest
<1>9. HandoversCounted'
  BY <1>1, <1>4, CountsStay DEF ReplicasTyped
<1> QED BY <1>5, <1>6, <1>7, <1>8, <1>9

\* The lease is renewed, or time passes.
LEMMA LeaseKeepsHandover ==
  ASSUME HandoverInvariant, UNCHANGED processVars, Untouching, UNCHANGED exits
  PROVE  HandoverInvariant'
BY DEF HandoverInvariant, ReplicasTyped, LastLeads, Untouched, CachesFollow,
       HandoversCounted, Over, Latest, processVars, Untouching, serverVars,
       workerVars, historyVars

LEMMA SyncKeepsHandover ==
  ASSUME HandoverInvariant, NEW p \in Processes, Sync(p)
  PROVE  HandoverInvariant'
<1> USE DEF HandoverInvariant
<1>1. /\ stage[p] = "starting"
      /\ stage' = [stage EXCEPT ![p] = "standby"]
      /\ cache' = [cache EXCEPT ![p] = scan]
      /\ watch' = [watch EXCEPT ![p] = [s \in Scans |-> << >>]]
      /\ UNCHANGED <<scan, incarnation, configMaps, queue, pc, obj, acting,
                     handovers, faults, exits>>
  BY DEF Sync, serverVars, workerVars, historyVars
<1>2. stage'[p] = "standby" /\ \A q \in Processes \ {p} : stage'[q] = stage[q]
  BY <1>1 DEF ReplicasTyped
<1>3. ReplicasTyped'
  <2>1. [s \in Scans |-> << >>] \in [Scans -> Seq(Copies)]
    OBVIOUS
  <2> QED BY <1>1, <2>1 DEF ReplicasTyped, Stages
<1>4. Over' = Over
  BY <1>1, <1>2 DEF Over
<1>5. LastLeads'
  BY <1>1, <1>2, <1>4 DEF LastLeads
<1>6. Untouched'
  BY <1>1, <1>4 DEF Untouched
<1>7. CachesFollow'
  <2>1. \A s \in Scans : watch'[p][s] = << >> /\ cache'[p][s] = scan[s]
    BY <1>1 DEF ReplicasTyped
  <2>2. \A q \in Processes \ {p} : watch'[q] = watch[q] /\ cache'[q] = cache[q]
    BY <1>1 DEF ReplicasTyped
  <2> QED BY <1>1, <1>2, <2>1, <2>2 DEF CachesFollow, Latest
<1>8. HandoversCounted'
  BY <1>1, <1>4, CountsStay DEF ReplicasTyped
<1> QED BY <1>3, <1>5, <1>6, <1>7, <1>8

LEMMA LeadKeepsHandover ==
  ASSUME HandoverInvariant, OneLeader', NEW p \in Processes, Lead(p)
  PROVE  HandoverInvariant'
<1> USE DEF HandoverInvariant
<1>1. /\ stage[p] = "standby"
      /\ stage' = [stage EXCEPT ![p] = "leading"]
      /\ queue' = [queue EXCEPT ![p] = HandlersSee(p)]
      /\ acting' = p
      /\ handovers' = handovers + 1
      /\ UNCHANGED <<scan, incarnation, configMaps, watch, cache, pc, obj, faults, exits>>
  BY DEF Lead, serverVars
<1>2. stage'[p] = "leading" /\ \A q \in Processes \ {p} : stage'[q] = stage[q]
  BY <1>1 DEF ReplicasTyped
<1>3. ReplicasTyped'
  <2>1. HandlersSee(p) \in SUBSET Scans
    BY DEF HandlersSee
  <2> QED BY <1>1, <2>1 DEF ReplicasTyped, Stages
<1>4. Over' = Over \cup {p} /\ p \notin Over
  BY <1>1, <1>2 DEF Over
<1>5. LastLeads'
  <2>1. \A q \in Processes : stage'[q] = "leading" => q = p
    BY <1>2 DEF OneLeader
  <2> QED BY <1>1, <1>4, <2>1 DEF LastLeads
<1>6. Untouched'
  BY <1>1, <1>4 DEF Untouched
<1>7. CachesFollow'
  BY <1>1, <1>2 DEF CachesFollow, Latest
<1>8. HandoversCounted'
  <2>1. Cardinality(Over') = Cardinality(Over) + 1
    BY <1>4, OverIsFinite, FS_AddElement
  <2> QED BY <1>1, <2>1, OverIsFinite DEF HandoversCounted, ReplicasTyped
<1> QED BY <1>3, <1>5, <1>6, <1>7, <1>8

-----------------------------------------------------------------------------
(* Entries of functions, and the last event on the way. *)

LEMMA EntryTyped ==
  ASSUME NEW A, NEW B, NEW T, NEW f \in [A -> [B -> T]],
         NEW a \in A, NEW b \in B, NEW v \in T
  PROVE  [f EXCEPT ![a][b] = v] \in [A -> [B -> T]]
OBVIOUS

LEMMA SetTyped ==
  ASSUME NEW A, NEW T, NEW f \in [A -> SUBSET T], NEW a \in A, NEW v \in SUBSET T
  PROVE  [f EXCEPT ![a] = v] \in [A -> SUBSET T]
OBVIOUS

LEMMA LastOfAppend ==
  ASSUME NEW S, NEW q \in Seq(S), NEW o \in S
  PROVE  Append(q, o) # << >> /\ Append(q, o)[Len(Append(q, o))] = o
<1>1. PICK k \in Nat : k = Len(q)
  OBVIOUS
<1>2. Len(Append(q, o)) = k + 1 /\ Append(q, o)[k + 1] = o
  BY <1>1
<1>3. Append(q, o) # << >>
  BY <1>1, <1>2
<1> QED BY <1>2, <1>3

LEMMA LastOfTail ==
  ASSUME NEW S, NEW q \in Seq(S), q # << >>
  PROVE  /\ Tail(q) = << >> => q[Len(q)] = Head(q)
         /\ Tail(q) # << >> => Tail(q)[Len(Tail(q))] = q[Len(q)]
<1>1. PICK k \in Nat \ {0} : k = Len(q)
  OBVIOUS
<1>2. Tail(q) \in Seq(S) /\ Len(Tail(q)) = k - 1 /\ Head(q) = q[1]
  BY <1>1
<1>3. \A i \in 1..k - 1 : Tail(q)[i] = q[i + 1]
  BY <1>1
<1>4. k - 1 = 0 <=> Tail(q) = << >>
  <2>1. \A t \in Seq(S) : Len(t) = 0 <=> t = << >>
    OBVIOUS
  <2> QED BY <1>2, <2>1
<1>5. Tail(q) = << >> => q[Len(q)] = Head(q)
  <2>1. k - 1 = 0 => k = 1
    OBVIOUS
  <2> QED BY <1>1, <1>2, <1>4, <2>1
<1>6. Tail(q) # << >> => Tail(q)[Len(Tail(q))] = q[Len(q)]
  <2>1. k - 1 # 0 => k - 1 \in 1..k - 1 /\ (k - 1) + 1 = k
    OBVIOUS
  <2>2. k - 1 # 0 => Tail(q)[k - 1] = q[k]
    BY <1>3, <2>1
  <2> QED BY <1>1, <1>2, <1>4, <2>2
<1> QED BY <1>5, <1>6

-----------------------------------------------------------------------------
(* Steps of users, the API server and the informers. *)

\* What the API server stores is the last event of everyone who listens.
LEMMA StoreReaches ==
  ASSUME HandoverInvariant, NEW s \in Scans, NEW o \in Copies, Store(s, o),
         UNCHANGED <<processVars, cache, acting>>
  PROVE  /\ scan' \in [Scans -> Copies]
         /\ watch' \in [Processes -> [Scans -> Seq(Copies)]]
         /\ CachesFollow'
<1> USE DEF HandoverInvariant, ReplicasTyped
<1>1. /\ scan' = [scan EXCEPT ![s] = o]
      /\ watch' = [p \in Processes |->
                     IF Receives(p) THEN [watch[p] EXCEPT ![s] = Append(@, o)]
                                    ELSE watch[p]]
      /\ UNCHANGED <<stage, cache>>
  BY DEF Store, processVars
<1>2. \A p \in Processes : [watch[p] EXCEPT ![s] = Append(@, o)] \in [Scans -> Seq(Copies)]
  OBVIOUS
<1>3. scan' \in [Scans -> Copies] /\ watch' \in [Processes -> [Scans -> Seq(Copies)]]
  BY <1>1, <1>2
<1>4. ASSUME NEW p \in Processes, stage[p] \in {"standby", "leading"}, NEW t \in Scans
      PROVE  Latest(p, t)' = scan'[t]
  <2>1. watch'[p] = [watch[p] EXCEPT ![s] = Append(@, o)]
    BY <1>1, <1>4 DEF Receives
  <2>2. CASE t = s
    <3>1. watch[p][s] \in Seq(Copies)
      OBVIOUS
    <3> DEFINE q == watch[p][s]
    <3> HIDE DEF q
    <3>2. /\ Append(q, o) # << >>
          /\ Append(q, o)[Len(Append(q, o))] = o
      BY <3>1, LastOfAppend DEF q
    <3>3. watch'[p][s] = Append(q, o)
      BY <2>1 DEF q
    <3> QED BY <1>1, <2>2, <3>2, <3>3 DEF Latest
  <2>3. CASE t # s
    <3>1. watch'[p][t] = watch[p][t] /\ cache'[p][t] = cache[p][t] /\ scan'[t] = scan[t]
      BY <1>1, <2>1, <2>3
    <3> QED BY <1>4, <3>1 DEF CachesFollow, Latest
  <2> QED BY <2>2, <2>3
<1> QED BY <1>1, <1>3, <1>4 DEF CachesFollow

LEMMA StoreKeepsHandover ==
  ASSUME HandoverInvariant, NEW s \in Scans, CreateScan(s) \/ DeleteScan(s)
  PROVE  HandoverInvariant'
<1> USE DEF HandoverInvariant
<1>1. /\ UNCHANGED <<processVars, cache, acting>>
      /\ UNCHANGED <<stage, configMaps, queue, pc, obj, handovers, faults, exits>>
  BY DEF CreateScan, DeleteScan, processVars, workerVars, historyVars
<1>2. PICK o \in Copies : Store(s, o)
  <2>1. CASE CreateScan(s)
    <3>1. incarnation[s] + 1 \in 0..MaxIncarnations
      BY <2>1, ReplicaBoundsAssumption DEF CreateScan, ReplicasTyped
    <3> QED BY <2>1, <3>1, NewInCopies DEF CreateScan
  <2>2. CASE DeleteScan(s)
    BY <2>2, NoScanInCopies DEF DeleteScan
  <2> QED BY <2>1, <2>2
<1>3. incarnation' \in [Scans -> 0..MaxIncarnations]
  <2>1. CASE CreateScan(s)
    BY <2>1, ReplicaBoundsAssumption DEF CreateScan, ReplicasTyped
  <2>2. CASE DeleteScan(s)
    BY <2>2 DEF DeleteScan, ReplicasTyped
  <2> QED BY <2>1, <2>2
<1>4. /\ scan' \in [Scans -> Copies]
      /\ watch' \in [Processes -> [Scans -> Seq(Copies)]]
      /\ CachesFollow'
  BY <1>1, <1>2, StoreReaches
<1>5. ReplicasTyped'
  BY <1>1, <1>3, <1>4 DEF ReplicasTyped
<1>6. LastLeads' /\ Untouched' /\ HandoversCounted'
  BY <1>1 DEF LastLeads, Untouched, HandoversCounted, Over
<1> QED BY <1>4, <1>5, <1>6

LEMMA DeliverKeepsHandover ==
  ASSUME HandoverInvariant, NEW p \in Processes, NEW s \in Scans, Deliver(p, s)
  PROVE  HandoverInvariant'
<1> USE DEF HandoverInvariant
<1>1. /\ watch[p][s] # << >>
      /\ cache' = [cache EXCEPT ![p][s] = Head(watch[p][s])]
      /\ watch' = [watch EXCEPT ![p][s] = Tail(@)]
      /\ \/ queue' = queue
         \/ queue' = [queue EXCEPT ![p] = @ \cup {s}]
      /\ UNCHANGED <<stage, scan, incarnation, configMaps, pc, obj, acting,
                     handovers, faults, exits>>
  BY DEF Deliver, processVars, serverVars, historyVars
<1>2. watch[p][s] \in Seq(Copies)
  BY DEF ReplicasTyped
<1>3. Head(watch[p][s]) \in Copies /\ Tail(watch[p][s]) \in Seq(Copies)
  BY <1>1, <1>2
<1>4. cache' \in [Processes -> [Scans -> Copies]]
  BY <1>1, <1>3 DEF ReplicasTyped
<1>5. watch' \in [Processes -> [Scans -> Seq(Copies)]]
  BY <1>1, <1>3 DEF ReplicasTyped
<1>6. queue' \in [Processes -> SUBSET Scans]
  <2>1. queue \in [Processes -> SUBSET Scans]
    BY DEF ReplicasTyped
  <2>2. queue[p] \cup {s} \in SUBSET Scans
    BY <2>1
  <2>3. [queue EXCEPT ![p] = queue[p] \cup {s}] \in [Processes -> SUBSET Scans]
    BY <2>1, <2>2, SetTyped
  <2> QED BY <1>1, <2>1, <2>3
<1>7. ReplicasTyped'
  BY <1>1, <1>4, <1>5, <1>6 DEF ReplicasTyped
<1>8. LastLeads' /\ Untouched' /\ HandoversCounted'
  BY <1>1 DEF LastLeads, Untouched, HandoversCounted, Over
<1>9. ASSUME NEW q \in Processes, NEW t \in Scans
      PROVE  Latest(q, t)' = Latest(q, t)
  <2>1. CASE q = p /\ t = s
    <3>1. cache'[p][s] = Head(watch[p][s]) /\ watch'[p][s] = Tail(watch[p][s])
      BY <1>1 DEF ReplicasTyped
    <3> DEFINE w == watch[p][s]
    <3> HIDE DEF w
    <3>2. w \in Seq(Copies) /\ w # << >>
      BY <1>1, <1>2 DEF w
    <3>3. /\ Tail(w) = << >> => w[Len(w)] = Head(w)
          /\ Tail(w) # << >> => Tail(w)[Len(Tail(w))] = w[Len(w)]
      BY <3>2, LastOfTail
    <3> QED BY <2>1, <3>1, <3>2, <3>3 DEF Latest, w
  <2>2. CASE ~(q = p /\ t = s)
    <3>1. cache'[q][t] = cache[q][t] /\ watch'[q][t] = watch[q][t]
      BY <1>1, <2>2 DEF ReplicasTyped
    <3> QED BY <3>1 DEF Latest
  <2> QED BY <2>1, <2>2
<1>10. CachesFollow'
  BY <1>1, <1>9 DEF CachesFollow
<1> QED BY <1>7, <1>8, <1>10

-----------------------------------------------------------------------------
(* Steps of the workers. *)

LEMMA WorkerTyped ==
  ASSUME HandoverInvariant, NEW p \in Processes, NEW s \in Scans, Worker(p, s)
  PROVE  /\ configMaps' \in [Scans -> [0..MaxIncarnations -> Nat]]
         /\ queue' \in [Processes -> SUBSET Scans]
         /\ pc' \in [Processes -> [Scans -> Labels]]
         /\ obj' \in [Processes -> [Scans -> Copies]]
         /\ faults' \in 0..MaxFaults
         /\ incarnation' = incarnation
<1> USE DEF HandoverInvariant, ReplicasTyped
<1>1. obj[p][s] \in Copies /\ scan[s] \in Copies /\ cache[p][s] \in Copies
  OBVIOUS
<1>2. faults' = faults \/ \E kind : Fault(kind)
  BY DEF Worker, Dequeue, ReconcileGet, PatchRunning, DeployDikiConfigMap,
         PatchCompleted, HandleFailedScan, PatchOk, PatchFails
<1>3. faults' \in 0..MaxFaults
  BY <1>2, ReplicaBoundsAssumption DEF Fault
<1>4. \E label \in Labels : pc' = [pc EXCEPT ![p][s] = label]
  BY DEF Worker, Dequeue, ReconcileGet, PatchRunning, DeployDikiConfigMap,
         PatchCompleted, HandleFailedScan, Goto, Return, Labels
<1>5. \/ queue' = queue
      \/ queue' = [queue EXCEPT ![p] = @ \ {s}]
      \/ queue' = [queue EXCEPT ![p] = @ \cup {s}]
  BY DEF Worker, Dequeue, ReconcileGet, PatchRunning, DeployDikiConfigMap,
         PatchCompleted, HandleFailedScan, Goto, Return
<1>6. \/ obj' = obj
      \/ \E o \in Copies : obj' = [obj EXCEPT ![p][s] = o]
  <2>1. \A new \in Copies : Merged(p, s, new) \in Copies
    BY <1>1, MergeInCopies DEF Merged
  <2> QED BY <1>1, <2>1, StatusInCopies, NoScanInCopies
          DEF Worker, Dequeue, ReconcileGet, PatchRunning, DeployDikiConfigMap,
              PatchCompleted, HandleFailedScan, Return
<1>7. \/ configMaps' = configMaps
      \/ configMaps' = [configMaps EXCEPT ![s][obj[p][s].uid] = @ + 1]
  BY DEF Worker, Dequeue, ReconcileGet, PatchRunning, DeployDikiConfigMap,
         PatchCompleted, HandleFailedScan, serverVars
<1>8. incarnation' = incarnation
  BY DEF Worker, Dequeue, ReconcileGet, PatchRunning, DeployDikiConfigMap,
         PatchCompleted, HandleFailedScan, serverVars
<1>9. pc' \in [Processes -> [Scans -> Labels]]
  BY <1>4
<1>10. queue' \in [Processes -> SUBSET Scans]
  <2>1. queue[p] \cup {s} \in SUBSET Scans /\ queue[p] \ {s} \in SUBSET Scans
    OBVIOUS
  <2>2. /\ [queue EXCEPT ![p] = queue[p] \cup {s}] \in [Processes -> SUBSET Scans]
        /\ [queue EXCEPT ![p] = queue[p] \ {s}] \in [Processes -> SUBSET Scans]
    BY <2>1, SetTyped
  <2> QED BY <1>5, <2>2
<1>11. obj' \in [Processes -> [Scans -> Copies]]
  <2>1. \A o \in Copies : [obj EXCEPT ![p][s] = o] \in [Processes -> [Scans -> Copies]]
    BY EntryTyped
  <2>2. obj' = obj \/ \E o \in Copies : obj' = [obj EXCEPT ![p][s] = o]
    BY <1>6
  <2>3. obj \in [Processes -> [Scans -> Copies]]
    OBVIOUS
  <2> HIDE DEF HandoverInvariant, ReplicasTyped
  <2> QED BY <2>1, <2>2, <2>3
<1>12. configMaps' \in [Scans -> [0..MaxIncarnations -> Nat]]
  <2>1. PICK u : u = obj[p][s].uid
    OBVIOUS
  <2>2. u \in 0..MaxIncarnations
    BY <1>1, <2>1 DEF Copies, Controller!Objects
  <2>3. configMaps[s][u] + 1 \in Nat
    <3>1. configMaps[s] \in [0..MaxIncarnations -> Nat]
      OBVIOUS
    <3>2. configMaps[s][u] \in Nat
      BY <2>2, <3>1
    <3> QED BY <3>2
  <2>4. [configMaps EXCEPT ![s][u] = configMaps[s][u] + 1]
          \in [Scans -> [0..MaxIncarnations -> Nat]]
    BY <2>2, <2>3, EntryTyped
  <2> QED BY <1>7, <2>1, <2>4
<1> QED BY <1>3, <1>8, <1>9, <1>10, <1>11, <1>12

\* A worker writes to the API server only what Store writes.
LEMMA WorkerStores ==
  ASSUME HandoverInvariant, NEW p \in Processes, NEW s \in Scans, Worker(p, s)
  PROVE  UNCHANGED <<scan, watch>> \/ \E o \in Copies : Store(s, o)
<1> USE DEF HandoverInvariant, ReplicasTyped
<1>1. \A new \in Copies : Merged(p, s, new) \in Copies
  BY MergeInCopies DEF Merged
<1>2. /\ Controller!RunningStatus(obj[p][s]) \in Copies
      /\ Controller!CompletedStatus(obj[p][s]) \in Copies
      /\ Controller!FailedStatus(obj[p][s]) \in Copies
  BY StatusInCopies
<1> QED BY <1>1, <1>2
        DEF Worker, Dequeue, ReconcileGet, PatchRunning, DeployDikiConfigMap,
            PatchCompleted, HandleFailedScan, PatchOk, PatchFails, serverVars

LEMMA WorkerKeepsHandover ==
  ASSUME HandoverInvariant, NEW p \in Processes, NEW s \in Scans, Worker(p, s)
  PROVE  HandoverInvariant'
<1> USE DEF HandoverInvariant
<1>1. /\ stage[p] = "leading"
      /\ UNCHANGED <<processVars, cache, acting>>
      /\ UNCHANGED <<stage, handovers, exits>>
  BY DEF Worker, processVars, historyVars
<1>2. /\ scan' \in [Scans -> Copies]
      /\ watch' \in [Processes -> [Scans -> Seq(Copies)]]
      /\ CachesFollow'
  <2>1. CASE UNCHANGED <<scan, watch>>
    BY <1>1, <2>1 DEF ReplicasTyped, CachesFollow, Latest
  <2>2. CASE \E o \in Copies : Store(s, o)
    BY <1>1, <2>2, StoreReaches
  <2> QED BY <2>1, <2>2, WorkerStores
<1>3. ReplicasTyped'
  BY <1>1, <1>2, WorkerTyped DEF ReplicasTyped
<1>4. LastLeads' /\ HandoversCounted'
  BY <1>1 DEF LastLeads, HandoversCounted, Over
<1>5. Untouched'
  <2>1. \A q \in Processes \ {p} : pc'[q] = pc[q] /\ obj'[q] = obj[q]
    BY DEF ReplicasTyped, Worker, Dequeue, ReconcileGet, PatchRunning,
           DeployDikiConfigMap, PatchCompleted, HandleFailedScan, Goto, Return
  <2> QED BY <1>1, <2>1 DEF Untouched, Over
<1> QED BY <1>2, <1>3, <1>4, <1>5

-----------------------------------------------------------------------------
(* The invariant. *)

LEMMA ProcessKeepsHandover ==
  ASSUME ElectionInvariant, ElectionInvariant', HandoverInvariant,
         NEW p \in Processes, Process(p)
  PROVE  HandoverInvariant'
<1>0. exits \in 0..MaxExits
  BY DEF HandoverInvariant, ReplicasTyped
<1>1. CASE Launch(p)
  <2>1. Untouching
    BY <1>1 DEF Launch, Untouching
  <2>2. \/ stage' = [stage EXCEPT ![p] = "starting"] /\ stage[p] = "off" /\ exits' = exits
        \/ Exit(p)
    BY <1>1 DEF Launch
  <2>3. CASE stage' = [stage EXCEPT ![p] = "starting"] /\ stage[p] = "off" /\ exits' = exits
    BY <1>0, <2>1, <2>3, MovesKeepHandover DEF Stages
  <2>4. CASE Exit(p)
    <3>1. stage' = [stage EXCEPT ![p] = "exited"] /\ exits' \in 0..MaxExits
      BY <1>0, <2>4, ReplicaBoundsAssumption DEF Exit
    <3> QED BY <2>1, <3>1, MovesKeepHandover DEF Stages
  <2> QED BY <2>2, <2>3, <2>4
<1>2. CASE Sync(p)
  BY <1>2, SyncKeepsHandover
<1>3. CASE Lead(p)
  <2>1. OneLeader'
    BY DEF OneLeader, ElectionInvariant, NeighboursElect, LeaderHoldsLease, Alive
  <2> QED BY <1>3, <2>1, LeadKeepsHandover
<1>4. CASE Renew(p)
  BY <1>4, LeaseKeepsHandover DEF Renew, Untouching
<1>5. CASE Die(p) \/ Terminate(p)
  <2>1. PICK next \in {"exited", "stopping"} : stage' = [stage EXCEPT ![p] = next]
    BY <1>5 DEF Die, Exit, Terminate
  <2>2. exits' \in 0..MaxExits /\ Untouching
    BY <1>0, <1>5, ReplicaBoundsAssumption DEF Die, Exit, Terminate, Untouching
  <2> QED BY <2>1, <2>2, MovesKeepHandover DEF Stages
<1>6. CASE Release(p)
  <2>1. stage' = [stage EXCEPT ![p] = "exited"] /\ exits' \in 0..MaxExits /\ Untouching
    BY <1>0, <1>6 DEF Release, Untouching
  <2> QED BY <2>1, MovesKeepHandover DEF Stages
<1> QED BY <1>1, <1>2, <1>3, <1>4, <1>5, <1>6 DEF Process

LEMMA NextKeepsHandover ==
  ElectionInvariant /\ ElectionInvariant' /\ HandoverInvariant /\ [Next]_vars
    => HandoverInvariant'
<1> SUFFICES ASSUME ElectionInvariant, ElectionInvariant', HandoverInvariant, [Next]_vars
             PROVE  HandoverInvariant'
  OBVIOUS
<1>1. CASE \E p \in Processes : Process(p)
  BY <1>1, ProcessKeepsHandover
<1>2. CASE \E s \in Scans : CreateScan(s) \/ DeleteScan(s)
  BY <1>2, StoreKeepsHandover
<1>3. CASE \E p \in Processes, s \in Scans : Deliver(p, s) \/ Worker(p, s)
  BY <1>3, DeliverKeepsHandover, WorkerKeepsHandover
<1>4. CASE Tick
  BY <1>4, LeaseKeepsHandover DEF Tick, Untouching
<1>5. CASE UNCHANGED vars
  BY <1>5, LeaseKeepsHandover DEF vars, Untouching
<1> QED BY <1>1, <1>2, <1>3, <1>4, <1>5 DEF Next

LEMMA InitHandsOver == Init => HandoverInvariant
<1> SUFFICES ASSUME Init PROVE HandoverInvariant
  OBVIOUS
<1>1. ReplicasTyped
  <2>1. /\ [s \in Scans |-> << >>] \in [Scans -> Seq(Copies)]
        /\ [s \in Scans |-> NoScan] \in [Scans -> Copies]
        /\ [s \in Scans |-> "idle"] \in [Scans -> Labels]
    BY NoScanInCopies DEF Labels
  <2>2. /\ 0 \in 0..MaxIncarnations /\ 0 \in 0..MaxFaults /\ 0 \in 0..MaxExits
    BY ReplicaBoundsAssumption
  <2>3. [s \in Scans |-> [u \in 0..MaxIncarnations |-> 0]]
          \in [Scans -> [0..MaxIncarnations -> Nat]]
    OBVIOUS
  <2>4. [p \in Processes |-> {}] \in [Processes -> SUBSET Scans]
    OBVIOUS
  <2> QED BY <2>1, <2>2, <2>3, <2>4, FormerAssumption DEF Init, ReplicasTyped, Stages
<1>2. LastLeads /\ acting = Former
  BY FormerAssumption DEF Init, LastLeads, Over
<1>3. Untouched
  BY DEF Init, Untouched
<1>4. CachesFollow
  BY DEF Init, CachesFollow
<1>5. HandoversCounted
  BY OverIsFinite DEF Init, HandoversCounted
<1> QED BY <1>1, <1>2, <1>3, <1>4, <1>5 DEF HandoverInvariant

LEMMA HandoverInvariantHolds == Spec => []HandoverInvariant
BY InitHandsOver, NextKeepsHandover, ElectionInvariantHolds, PTL DEF Spec

-----------------------------------------------------------------------------
(* Every step is a step of the controller. *)

\* A step that leaves alone what the controller consists of.
LEMMA ElsewhereStutters ==
  ASSUME UNCHANGED <<scan, incarnation, configMaps, acting, handovers, faults>>,
         watch'[acting] = watch[acting], cache'[acting] = cache[acting],
         queue'[acting] = queue[acting], pc'[acting] = pc[acting],
         obj'[acting] = obj[acting]
  PROVE  UNCHANGED Controller!vars
BY DEF Controller!vars

LEMMA LeadIsRestart ==
  ASSUME HandoverInvariant, NEW p \in Processes, Lead(p)
  PROVE  Controller!Restart
<1> USE DEF HandoverInvariant
<1>1. /\ stage[p] = "standby"
      /\ \A s \in Scans : watch[p][s] = << >>
      /\ queue' = [queue EXCEPT ![p] = HandlersSee(p)]
      /\ acting' = p
      /\ handovers' = handovers + 1
      /\ UNCHANGED <<scan, incarnation, configMaps, watch, cache, pc, obj, faults>>
  BY DEF Lead, serverVars
<1>2. p \notin Over
  BY <1>1 DEF Over
<1>3. handovers < Cardinality(Processes)
  <2>1. handovers \in Nat /\ handovers <= Cardinality(Over)
    BY DEF ReplicasTyped, HandoversCounted
  <2>2. Cardinality(Processes) \in Nat
    BY FinitenessAssumption, FS_CardinalityType
  <2> QED BY <1>2, <2>1, <2>2, OverIsFinite
<1>4. cache[p] = scan
  <2>1. \A s \in Scans : cache[p][s] = scan[s]
    BY <1>1 DEF CachesFollow, Latest
  <2>2. cache[p] \in [Scans -> Copies] /\ scan \in [Scans -> Copies]
    BY DEF ReplicasTyped
  <2> QED BY <2>1, <2>2
<1>5. watch[p] = [s \in Scans |-> << >>]
  <2>1. watch[p] \in [Scans -> Seq(Copies)]
    BY DEF ReplicasTyped
  <2> QED BY <1>1, <2>1
<1>6. queue'[p] = {s \in Scans : Controller!Predicate(Controller!NoScan, scan[s])}
  BY <1>1, <1>4 DEF HandlersSee, ReplicasTyped, NoScan
<1>7. pc[p] = [s \in Scans |-> "idle"] /\ obj[p] = [s \in Scans |-> Controller!NoScan]
  BY <1>2 DEF Untouched, NoScan
<1> QED BY <1>1, <1>3, <1>4, <1>5, <1>6, <1>7 DEF Controller!Restart

LEMMA StoreIsStore ==
  ASSUME HandoverInvariant, NEW s \in Scans, NEW o, Store(s, o), acting' = acting
  PROVE  Controller!Store(s, o)
<1>1. acting \in Processes
  BY DEF HandoverInvariant, ReplicasTyped
<1>2. watch'[acting] = [watch[acting] EXCEPT ![s] = Append(@, o)]
  BY <1>1 DEF Store, Receives
<1> QED BY <1>2 DEF Store, Controller!Store

LEMMA UserStepsMapped ==
  ASSUME HandoverInvariant, NEW s \in Scans
  PROVE  /\ CreateScan(s) => Controller!CreateScan(s)
         /\ DeleteScan(s) => Controller!DeleteScan(s)
<1>1. ASSUME CreateScan(s) PROVE Controller!CreateScan(s)
  <2>1. Controller!Store(s, Controller!NewScan(incarnation[s] + 1))
    BY <1>1, StoreIsStore DEF CreateScan, historyVars
  <2> QED BY <1>1, <2>1 DEF CreateScan, Controller!CreateScan, Controller!workerVars,
            NoScan, workerVars, historyVars
<1>2. ASSUME DeleteScan(s) PROVE Controller!DeleteScan(s)
  <2>1. Controller!Store(s, Controller!NoScan)
    BY <1>2, StoreIsStore DEF DeleteScan, historyVars, NoScan
  <2> QED BY <1>2, <2>1 DEF DeleteScan, Controller!DeleteScan, Controller!workerVars,
            NoScan, workerVars, historyVars
<1> QED BY <1>1, <1>2

LEMMA DeliverMapped ==
  ASSUME HandoverInvariant, NEW p \in Processes, NEW s \in Scans, Deliver(p, s)
  PROVE  Controller!Deliver(s) \/ UNCHANGED Controller!vars
<1> USE DEF HandoverInvariant
<1>1. acting \in Processes /\ acting' = acting /\ acting \in Over
  BY DEF ReplicasTyped, LastLeads, Deliver, historyVars
<1>2. CASE p = acting
  <2>1. stage[p] = "leading"
    BY <1>1, <1>2 DEF Deliver, Over
  <2>2. /\ watch[p][s] # << >>
        /\ cache'[p] = [cache[p] EXCEPT ![s] = Head(watch[p][s])]
        /\ watch'[p] = [watch[p] EXCEPT ![s] = Tail(@)]
    BY DEF Deliver, ReplicasTyped
  <2>3. queue'[p] = IF Controller!Predicate(cache[p][s], Head(watch[p][s]))
                      THEN queue[p] \cup {s} ELSE queue[p]
    BY <2>1 DEF Deliver, ReplicasTyped
  <2> QED BY <1>1, <1>2, <2>2, <2>3
          DEF Deliver, Controller!Deliver, Controller!workerVars, serverVars, historyVars
<1>3. CASE p # acting
  <2>1. stage[p] # "leading"
    BY <1>3 DEF LastLeads
  <2> QED BY <1>1, <1>3, <2>1, ElsewhereStutters
          DEF Deliver, ReplicasTyped, serverVars, historyVars
<1> QED BY <1>2, <1>3

-----------------------------------------------------------------------------
(* The workers of the process that leads. *)

Expired == [s \in Scans |-> FALSE]

\* What a step of the worker on s of the acting process leaves alone.
Works(p, s) == /\ HandoverInvariant
               /\ p = acting
               /\ s \in Scans
               /\ UNCHANGED <<cache, historyVars>>

LEMMA ReturnMapped ==
  ASSUME NEW p, NEW s, Works(p, s), NEW err \in BOOLEAN, Return(p, s, err)
  PROVE  Controller!Return(s, err)
<1>1. acting \in Processes /\ acting' = acting /\ s \in Scans /\ p = acting
  BY DEF Works, HandoverInvariant, ReplicasTyped, historyVars
<1>2. /\ pc'[p] = [pc[p] EXCEPT ![s] = "idle"]
      /\ obj'[p] = [obj[p] EXCEPT ![s] = NoScan]
      /\ queue'[p] = IF err THEN queue[p] \cup {s} ELSE queue[p]
  BY <1>1 DEF Return, Works, HandoverInvariant, ReplicasTyped
<1>3. Expired = [Expired EXCEPT ![s] = FALSE]
  BY <1>1 DEF Expired
<1> QED BY <1>1, <1>2, <1>3 DEF Controller!Return, NoScan, Expired

LEMMA GotoMapped ==
  ASSUME NEW p, NEW s, Works(p, s), NEW label, Goto(p, s, label)
  PROVE  Controller!Goto(s, label)
<1>1. acting \in Processes /\ acting' = acting /\ p = acting
  BY DEF Works, HandoverInvariant, ReplicasTyped, historyVars
<1>2. pc'[p] = [pc[p] EXCEPT ![s] = label] /\ queue'[p] = queue[p]
  BY <1>1 DEF Goto, Works, HandoverInvariant, ReplicasTyped
<1> QED BY <1>1, <1>2 DEF Controller!Goto

LEMMA FaultMapped ==
  ASSUME NEW kind, Fault(kind)
  PROVE  Controller!Fault(kind)
BY DEF Fault, Controller!Fault

LEMMA RejectedMapped ==
  ASSUME NEW s \in Scans, Fault("rejected")
  PROVE  Controller!CallRejected(s)
BY FaultMapped DEF Controller!CallRejected

LEMMA LostMapped ==
  ASSUME NEW s \in Scans, Fault("lost")
  PROVE  Controller!CallLost(s)
BY FaultMapped DEF Controller!CallLost

LEMMA MergedMapped ==
  ASSUME NEW p, NEW s, NEW new, p = acting
  PROVE  Merged(p, s, new) = Controller!Merged(s, new)
BY DEF Merged, Controller!Merged

LEMMA PatchOkMapped ==
  ASSUME NEW p, NEW s, NEW new, Works(p, s), PatchOk(p, s, new)
  PROVE  Controller!PatchOk(s, new)
<1>1. acting' = acting /\ s \in Scans /\ HandoverInvariant /\ p = acting
  BY DEF Works, historyVars
<1>2. Controller!Store(s, Controller!Merged(s, new))
  BY <1>1, StoreIsStore, MergedMapped DEF PatchOk
<1> QED BY <1>1, <1>2 DEF PatchOk, Controller!PatchOk, NoScan

LEMMA PatchFailsMapped ==
  ASSUME NEW p, NEW s, NEW new, Works(p, s), PatchFails(p, s, new)
  PROVE  Controller!PatchFails(s, new)
<1>1. acting' = acting /\ s \in Scans /\ HandoverInvariant /\ p = acting
  BY DEF Works, historyVars
<1>2. CASE scan[s] = NoScan /\ UNCHANGED <<scan, watch, faults>>
  BY <1>1, <1>2 DEF Controller!PatchFails, NoScan
<1>3. CASE Fault("rejected") /\ UNCHANGED <<scan, watch>>
  BY <1>1, <1>3, RejectedMapped DEF Controller!PatchFails
<1>4. CASE scan[s] # NoScan /\ Fault("lost") /\ Store(s, Merged(p, s, new))
  <2>1. Controller!Store(s, Controller!Merged(s, new))
    BY <1>1, <1>4, StoreIsStore, MergedMapped
  <2> QED BY <1>1, <1>4, <2>1, LostMapped DEF Controller!PatchFails, NoScan
<1> QED BY <1>2, <1>3, <1>4 DEF PatchFails

\* What the worker of the acting process works on.
LEMMA WorksTyped ==
  ASSUME NEW p, NEW s, Works(p, s)
  PROVE  /\ obj \in [Processes -> [Scans -> Copies]]
         /\ p = acting /\ acting' = acting /\ acting \in Processes
BY DEF Works, HandoverInvariant, ReplicasTyped, historyVars

LEMMA QuietMapped ==
  ASSUME NEW p, NEW s, Works(p, s)
  PROVE  /\ (cache[acting])' = cache[acting]
         /\ handovers' = handovers
         /\ watch' = watch => (watch[acting])' = watch[acting]
         /\ obj' = obj => (obj[acting])' = obj[acting]
BY DEF Works, historyVars

LEMMA CardinalityMapped ==
  ASSUME NEW S
  PROVE  Controller!Cardinality(S) = Cardinality(S)
BY DEF Cardinality, Controller!Cardinality, IsFiniteSet, Controller!IsFiniteSet

LEMMA DequeueMapped ==
  ASSUME NEW p, NEW s, Works(p, s), Dequeue(p, s)
  PROVE  Controller!Dequeue(s)
<1>1. acting \in Processes /\ acting' = acting /\ s \in Scans /\ p = acting
  BY DEF Works, HandoverInvariant, ReplicasTyped, historyVars
<1>2. /\ queue'[p] = queue[p] \ {s}
      /\ pc'[p] = [pc[p] EXCEPT ![s] = "get"]
  BY <1>1 DEF Dequeue, Works, HandoverInvariant, ReplicasTyped
<1>3. Cardinality({t \in Scans : pc[acting][t] # "idle"}) < Cardinality(Scans) + 1
  <2> DEFINE busy == {t \in Scans : pc[acting][t] # "idle"}
  <2>1. busy \subseteq Scans
    OBVIOUS
  <2> HIDE DEF busy
  <2>2. Cardinality(busy) <= Cardinality(Scans) /\ IsFiniteSet(busy)
    BY <2>1, FinitenessAssumption, FS_Subset
  <2>3. Cardinality(busy) \in Nat /\ Cardinality(Scans) \in Nat
    BY <2>2, FinitenessAssumption, FS_CardinalityType
  <2> QED BY <2>2, <2>3 DEF busy
<1> QED BY <1>1, <1>2, <1>3, QuietMapped,
        CardinalityMapped DEF Dequeue, Controller!Dequeue, Controller!serverVars, serverVars

LEMMA GetMapped ==
  ASSUME NEW p, NEW s, Works(p, s), ReconcileGet(p, s)
  PROVE  Controller!ReconcileGet(s)
<1>1. p = acting
  BY DEF Works
<1>2. /\ pc[acting][s] = "get"
      /\ UNCHANGED <<scan, incarnation, configMaps, watch>>
  BY <1>1 DEF ReconcileGet, serverVars
<1>3. CASE /\ cache[p][s] = NoScan \/ Controller!AlreadyProcessed(cache[p][s])
           /\ Return(p, s, FALSE)
           /\ UNCHANGED faults
  BY <1>1, <1>2, <1>3, ReturnMapped, QuietMapped
     DEF Controller!ReconcileGet, Controller!serverVars, NoScan
<1>4. CASE Fault("rejected") /\ Return(p, s, TRUE)
  BY <1>1, <1>2, <1>4, ReturnMapped, QuietMapped, FaultMapped
     DEF Controller!ReconcileGet, Controller!serverVars
<1>5. CASE /\ cache[p][s] # NoScan
           /\ ~Controller!AlreadyProcessed(cache[p][s])
           /\ obj' = [obj EXCEPT ![p][s] = cache[p][s]]
           /\ Goto(p, s, "running")
           /\ UNCHANGED faults
  <2>1. Controller!Goto(s, "running")
    BY <1>5, GotoMapped
  <2>2. (obj[acting])' = [obj[acting] EXCEPT ![s] = cache[acting][s]]
    BY <1>5, WorksTyped
  <2> QED BY <1>1, <1>2, <1>5, <2>1, <2>2, QuietMapped
          DEF Controller!ReconcileGet, Controller!serverVars, NoScan
<1> QED BY <1>3, <1>4, <1>5 DEF ReconcileGet

LEMMA RunningMapped ==
  ASSUME NEW p, NEW s, Works(p, s), PatchRunning(p, s)
  PROVE  Controller!PatchRunning(s)
<1> DEFINE new == Controller!RunningStatus(obj[p][s])
<1>1. p = acting
  BY DEF Works
<1>2. pc[acting][s] = "running" /\ UNCHANGED <<incarnation, configMaps>>
  BY <1>1 DEF PatchRunning
<1>3. new = Controller!RunningStatus(obj[acting][s])
  BY <1>1
<1>4. \/ /\ PatchOk(p, s, new)
         /\ obj' = [obj EXCEPT ![p][s] = Merged(p, s, new)]
         /\ Goto(p, s, "deploy")
      \/ /\ PatchFails(p, s, new)
         /\ obj' = [obj EXCEPT ![p][s] = new]
         /\ Goto(p, s, "failed")
  BY DEF PatchRunning
<1> HIDE DEF new
<1>5. CASE /\ PatchOk(p, s, new)
           /\ obj' = [obj EXCEPT ![p][s] = Merged(p, s, new)]
           /\ Goto(p, s, "deploy")
  <2>1. Controller!PatchOk(s, new) /\ Controller!Goto(s, "deploy")
    BY <1>5, PatchOkMapped, GotoMapped
  <2>2. (obj[acting])' = [obj[acting] EXCEPT ![s] = Controller!Merged(s, new)]
    BY <1>5, WorksTyped, MergedMapped
  <2> QED BY <1>2, <1>3, <2>1, <2>2, QuietMapped DEF Controller!PatchRunning
<1>6. CASE /\ PatchFails(p, s, new)
           /\ obj' = [obj EXCEPT ![p][s] = new]
           /\ Goto(p, s, "failed")
  <2>1. Controller!PatchFails(s, new) /\ Controller!Goto(s, "failed")
    BY <1>6, PatchFailsMapped, GotoMapped
  <2>2. (obj[acting])' = [obj[acting] EXCEPT ![s] = new]
    BY <1>6, WorksTyped
  <2> QED BY <1>2, <1>3, <2>1, <2>2, QuietMapped DEF Controller!PatchRunning
<1> QED BY <1>4, <1>5, <1>6

LEMMA DeployMapped ==
  ASSUME NEW p, NEW s, Works(p, s), DeployDikiConfigMap(p, s)
  PROVE  Controller!DeployDikiConfigMap(s)
<1> DEFINE created == configMaps' = [configMaps EXCEPT ![s][obj[p][s].uid] = @ + 1]
<1>1. p = acting /\ s \in Scans
  BY DEF Works
<1>2. pc[acting][s] = "deploy" /\ UNCHANGED <<scan, incarnation, watch, obj>>
  BY <1>1 DEF DeployDikiConfigMap
<1>3. created => Controller!CreateConfigMap(s)
  BY <1>1 DEF Controller!CreateConfigMap
<1>4. \/ created /\ Goto(p, s, "completed") /\ UNCHANGED faults
      \/ Fault("rejected") /\ Goto(p, s, "failed") /\ UNCHANGED configMaps
      \/ Fault("lost") /\ created /\ Goto(p, s, "failed")
  BY DEF DeployDikiConfigMap
<1> HIDE DEF created
<1>5. CASE created /\ Goto(p, s, "completed") /\ UNCHANGED faults
  BY <1>1, <1>2, <1>3, <1>5, GotoMapped, QuietMapped
     DEF Controller!DeployDikiConfigMap, Controller!serverVars
<1>6. CASE Fault("rejected") /\ Goto(p, s, "failed") /\ UNCHANGED configMaps
  BY <1>1, <1>2, <1>6, GotoMapped, QuietMapped, RejectedMapped
     DEF Controller!DeployDikiConfigMap, Controller!serverVars
<1>7. CASE Fault("lost") /\ created /\ Goto(p, s, "failed")
  BY <1>1, <1>2, <1>3, <1>7, GotoMapped, QuietMapped, LostMapped
     DEF Controller!DeployDikiConfigMap, Controller!serverVars
<1> QED BY <1>4, <1>5, <1>6, <1>7

LEMMA CompletedMapped ==
  ASSUME NEW p, NEW s, Works(p, s), PatchCompleted(p, s)
  PROVE  Controller!PatchCompleted(s)
<1> DEFINE new == Controller!CompletedStatus(obj[p][s])
<1>1. p = acting
  BY DEF Works
<1>2. pc[acting][s] = "completed" /\ UNCHANGED <<incarnation, configMaps>>
  BY <1>1 DEF PatchCompleted
<1>3. new = Controller!CompletedStatus(obj[acting][s])
  BY <1>1
<1>4. \/ PatchOk(p, s, new) /\ Return(p, s, FALSE)
      \/ /\ PatchFails(p, s, new)
         /\ obj' = [obj EXCEPT ![p][s] = new]
         /\ Goto(p, s, "failed")
  BY DEF PatchCompleted
<1> HIDE DEF new
<1>5. CASE PatchOk(p, s, new) /\ Return(p, s, FALSE)
  BY <1>2, <1>3, <1>5, PatchOkMapped, ReturnMapped, QuietMapped
     DEF Controller!PatchCompleted
<1>6. CASE /\ PatchFails(p, s, new)
           /\ obj' = [obj EXCEPT ![p][s] = new]
           /\ Goto(p, s, "failed")
  <2>1. Controller!PatchFails(s, new) /\ Controller!Goto(s, "failed")
    BY <1>6, PatchFailsMapped, GotoMapped
  <2>2. (obj[acting])' = [obj[acting] EXCEPT ![s] = new]
    BY <1>6, WorksTyped
  <2> QED BY <1>2, <1>3, <2>1, <2>2, QuietMapped DEF Controller!PatchCompleted
<1> QED BY <1>4, <1>5, <1>6

LEMMA HandleFailedMapped ==
  ASSUME NEW p, NEW s, Works(p, s), HandleFailedScan(p, s)
  PROVE  Controller!HandleFailedScan(s)
<1> DEFINE new == Controller!FailedStatus(obj[p][s])
<1>1. p = acting
  BY DEF Works
<1>2. pc[acting][s] = "failed" /\ UNCHANGED <<incarnation, configMaps>>
  BY <1>1 DEF HandleFailedScan
<1>3. new = Controller!FailedStatus(obj[acting][s])
  BY <1>1
<1>4. \/ PatchOk(p, s, new) /\ Return(p, s, FALSE)
      \/ PatchFails(p, s, new) /\ Return(p, s, TRUE)
  BY DEF HandleFailedScan
<1> HIDE DEF new
<1>5. CASE PatchOk(p, s, new) /\ Return(p, s, FALSE)
  BY <1>2, <1>3, <1>5, PatchOkMapped, ReturnMapped, QuietMapped
     DEF Controller!HandleFailedScan
<1>6. CASE PatchFails(p, s, new) /\ Return(p, s, TRUE)
  BY <1>2, <1>3, <1>6, PatchFailsMapped, ReturnMapped, QuietMapped
     DEF Controller!HandleFailedScan
<1> QED BY <1>4, <1>5, <1>6

LEMMA WorkerMapped ==
  ASSUME HandoverInvariant, NEW p \in Processes, NEW s \in Scans, Worker(p, s)
  PROVE  Controller!Next
<1>1. Works(p, s)
  BY DEF Worker, Works, HandoverInvariant, LastLeads
<1>2. Controller!Dequeue(s) \/ Controller!Worker(s)
  BY <1>1, DequeueMapped, GetMapped, RunningMapped, DeployMapped, CompletedMapped,
     HandleFailedMapped DEF Worker, Controller!Worker
<1> QED BY <1>2 DEF Controller!Next

\* What a process does besides leading and reconciling does not concern the controller.
LEMMA ProcessMapped ==
  ASSUME HandoverInvariant, NEW p \in Processes, Process(p)
  PROVE  Controller!Next \/ UNCHANGED Controller!vars
<1>1. CASE Lead(p)
  BY <1>1, LeadIsRestart DEF Controller!Next
<1>2. CASE Sync(p)
  <2>1. p # acting /\ acting \in Processes
    BY <1>2 DEF Sync, HandoverInvariant, LastLeads, Over
  <2>2. watch'[acting] = watch[acting] /\ cache'[acting] = cache[acting]
    BY <1>2, <2>1 DEF Sync, HandoverInvariant, ReplicasTyped
  <2> QED BY <1>2, <2>2, ElsewhereStutters DEF Sync, serverVars, workerVars, historyVars
<1>3. CASE Launch(p) \/ Renew(p) \/ Die(p) \/ Terminate(p) \/ Release(p)
  BY <1>3, ElsewhereStutters
     DEF Launch, Renew, Die, Terminate, Release, serverVars, workerVars, historyVars
<1> QED BY <1>1, <1>2, <1>3 DEF Process

LEMMA StepsMapped ==
  HandoverInvariant /\ [Next]_vars => [Controller!Next]_(Controller!vars)
<1> SUFFICES ASSUME HandoverInvariant, [Next]_vars
             PROVE  Controller!Next \/ UNCHANGED Controller!vars
  OBVIOUS
<1>1. CASE \E p \in Processes : Process(p)
  BY <1>1, ProcessMapped
<1>2. CASE \E s \in Scans : CreateScan(s) \/ DeleteScan(s)
  BY <1>2, UserStepsMapped DEF Controller!Next
<1>3. CASE \E p \in Processes, s \in Scans : Deliver(p, s) \/ Worker(p, s)
  BY <1>3, DeliverMapped, WorkerMapped DEF Controller!Next
<1>4. CASE Tick
  BY <1>4, ElsewhereStutters DEF Tick, serverVars, workerVars, historyVars
<1>5. CASE UNCHANGED vars
  BY <1>5, ElsewhereStutters DEF vars, serverVars, workerVars, historyVars
<1> QED BY <1>1, <1>2, <1>3, <1>4, <1>5 DEF Next

LEMMA InitMapped == Init => Controller!Init
BY FormerAssumption DEF Init, Controller!Init, NoScan

(***************************************************************************)
(* Whatever processes start, stop, crash and take over, together they are   *)
(* one compliancescan controller that restarts at each hand-over: whatever  *)
(* is shown of ComplianceScanController holds of the replicated operator    *)
(* (app.go, NeedLeaderElection; the Create events of a controller that      *)
(* starts).                                                                 *)
(***************************************************************************)
THEOREM ProcessesAreOneController == Spec => ControllerSpec
<1>1. Init => Controller!Init
  BY InitMapped
<1>2. HandoverInvariant /\ [Next]_vars => [Controller!Next]_(Controller!vars)
  BY StepsMapped
<1> QED BY <1>1, <1>2, HandoverInvariantHolds, PTL DEF Spec, ControllerSpec, Controller!Spec

-----------------------------------------------------------------------------
(* Types. *)

LEMMA ServerTyped ==
  ASSUME NEW v \in {Nil} \cup Servers, NEW port \in Nat
  PROVE  ServerWithPort(v, port) \in Servers
BY DEF ServerWithPort, Servers, Default

LEMMA LeaderElectionTyped ==
  ASSUME NEW e, e = ZeroLeaderElection \/ e \in LeaderElections
  PROVE  SetDefaults_LeaderElectionConfiguration(e) \in LeaderElections
<1> DEFINE elects == Default(e.leaderElect, Nil, TRUE)
           lease == Default(e.leaseDuration, 0, 15)
           renew == Default(e.renewDeadline, 0, 10)
           retry == Default(e.retryPeriod, 0, 2)
           lock == Default(e.resourceLock, "", "leases")
           namespace == Default(e.resourceNamespace, "", "kube-system")
           name == Default(e.resourceName, "", "diki-operator-leader-election")
<1>1. /\ e.leaderElect = Nil \/ e.leaderElect \in BOOLEAN
      /\ e.leaseDuration \in Nat
      /\ e.renewDeadline \in Nat
      /\ e.retryPeriod \in Nat
      /\ e.resourceLock \in Texts
      /\ e.resourceNamespace \in Texts
      /\ e.resourceName \in Texts
  <2>1. CASE e = ZeroLeaderElection
    BY <2>1, TextsAssumption DEF ZeroLeaderElection
  <2>2. CASE e \in LeaderElections
    BY <2>2 DEF LeaderElections, Durations
  <2> QED BY <2>1, <2>2
<1>2. elects \in BOOLEAN
  BY <1>1, Zenon DEF Default
<1>3. lease \in Durations /\ renew \in Durations /\ retry \in Durations
  BY <1>1 DEF Default, Durations
<1>4. lock \in Texts /\ namespace \in Texts /\ name \in Texts
  BY <1>1, TextsAssumption DEF Default
<1>5. SetDefaults_LeaderElectionConfiguration(e) =
        [leaderElect |-> elects, leaseDuration |-> lease, renewDeadline |-> renew,
         retryPeriod |-> retry, resourceLock |-> lock,
         resourceNamespace |-> namespace, resourceName |-> name]
  BY Zenon DEF SetDefaults_LeaderElectionConfiguration
<1> HIDE DEF elects, lease, renew, retry, lock, namespace, name
<1> QED BY <1>2, <1>3, <1>4, <1>5 DEF LeaderElections

LEMMA DefaultedTyped ==
  ASSUME NEW f \in Configurations
  PROVE  SetObjectDefaults(f) \in Configurations
<1> DEFINE log == SetDefaults_Log(f.log)
           election == SetDefaults_LeaderElectionConfiguration(
                         SetDefaults_DikiOperatorConfiguration(f).leaderElection)
           scans == SetDefaults_ComplianceScanConfig(f.complianceScan)
           server == SetDefaults_ServerConfiguration(f.server)
<1>1. log \in [level : Texts, format : Texts]
  BY TextsAssumption DEF SetDefaults_Log, Default, Configurations
<1>2. election \in LeaderElections
  <2>1. \/ SetDefaults_DikiOperatorConfiguration(f).leaderElection = ZeroLeaderElection
        \/ SetDefaults_DikiOperatorConfiguration(f).leaderElection \in LeaderElections
    BY DEF SetDefaults_DikiOperatorConfiguration, Configurations, Default
  <2> QED BY <2>1, LeaderElectionTyped
<1>3. scans \in [syncPeriod : {Nil} \cup Int, dikiRunner : DikiRunners]
  <2> DEFINE r == f.complianceScan.dikiRunner
             sync == Default(f.complianceScan.syncPeriod, Nil, 3600)
             namespace == Default(r.namespace, "", "kube-system")
             timeout == Default(r.podCompletionTimeout, Nil, 600)
  <2>1. f.complianceScan \in [syncPeriod : {Nil} \cup Int, dikiRunner : DikiRunners]
    BY DEF Configurations
  <2>2. f.complianceScan.syncPeriod \in {Nil} \cup Int /\ r \in DikiRunners
    BY <2>1
  <2>3. r.namespace \in Texts /\ r.labelsLegal \in BOOLEAN
        /\ r.podCompletionTimeout \in {Nil} \cup Int
    BY <2>2 DEF DikiRunners
  <2>4. sync \in {Nil} \cup Int /\ timeout \in {Nil} \cup Int
    BY <2>2, <2>3 DEF Default
  <2>5. namespace \in Texts
    BY <2>3, TextsAssumption DEF Default
  <2>6. scans = [syncPeriod |-> sync,
                 dikiRunner |-> [namespace |-> namespace, labelsLegal |-> r.labelsLegal,
                                 podCompletionTimeout |-> timeout]]
    BY Zenon DEF SetDefaults_ComplianceScanConfig, SetDefaults_DikiRunnerConfig
  <2> HIDE DEF r, sync, namespace, timeout, scans
  <2>7. [namespace |-> namespace, labelsLegal |-> r.labelsLegal,
         podCompletionTimeout |-> timeout] \in DikiRunners
    BY <2>3, <2>4, <2>5 DEF DikiRunners
  <2> QED BY <2>4, <2>6, <2>7
<1>4. server \in [webhooks : [port : Int, serverCertDir : Texts],
                  healthProbes : {Nil} \cup Servers,
                  metrics : {Nil} \cup Servers]
  <2>1. f.server \in [webhooks : [port : Int, serverCertDir : Texts],
                      healthProbes : {Nil} \cup Servers,
                      metrics : {Nil} \cup Servers]
    BY DEF Configurations
  <2>2. SetDefaults_HTTPSServer(f.server.webhooks) \in [port : Int, serverCertDir : Texts]
    BY <2>1 DEF SetDefaults_HTTPSServer, Default
  <2>3. f.server.healthProbes \in {Nil} \cup Servers /\ f.server.metrics \in {Nil} \cup Servers
    BY <2>1
  <2>4. /\ ServerWithPort(f.server.healthProbes, 8081) \in Servers
        /\ ServerWithPort(f.server.metrics, 8080) \in Servers
    BY <2>3, ServerTyped
  <2>5. server = [webhooks     |-> SetDefaults_HTTPSServer(f.server.webhooks),
                  healthProbes |-> ServerWithPort(f.server.healthProbes, 8081),
                  metrics      |-> ServerWithPort(f.server.metrics, 8080)]
    BY DEF SetDefaults_ServerConfiguration
  <2> HIDE DEF server
  <2> QED BY <2>2, <2>4, <2>5
<1>5. SetObjectDefaults(f) = [log |-> log, leaderElection |-> election,
                              complianceScan |-> scans, server |-> server]
  BY Zenon DEF SetObjectDefaults
<1> HIDE DEF log, election, scans, server
<1> QED BY <1>1, <1>2, <1>3, <1>4, <1>5 DEF Configurations

ConfigTyped == config \in [Processes -> {Nil} \cup Configurations]

LEMMA ConfigTypedHolds == Spec => []ConfigTyped
<1>1. Init => ConfigTyped
  BY DEF Init, ConfigTyped
<1>2. ConfigTyped /\ [Next]_vars => ConfigTyped'
  <2> SUFFICES ASSUME ConfigTyped, [Next]_vars
               PROVE  ConfigTyped'
    OBVIOUS
  <2>1. ASSUME NEW p \in Processes, Launch(p)
        PROVE  ConfigTyped'
    <3>1. CASE UNCHANGED config
      BY <3>1 DEF ConfigTyped
    <3>2. CASE \E f \in Files : /\ Accepted(f)
                                /\ config' = [config EXCEPT ![p] = SetObjectDefaults(f)]
      <4>1. PICK f \in Files : /\ Accepted(f)
                               /\ config' = [config EXCEPT ![p] = SetObjectDefaults(f)]
        BY <3>2
      <4>2. f \in Configurations
        BY <4>1, FilesAssumption DEF Accepted
      <4>3. PICK c \in Configurations : c = SetObjectDefaults(f)
        BY <4>2, DefaultedTyped
      <4> QED BY <4>1, <4>3 DEF ConfigTyped
    <3> QED BY <2>1, <3>1, <3>2 DEF Launch
  <2>2. CASE UNCHANGED config
    BY <2>2 DEF ConfigTyped
  <2> QED BY <2>1, <2>2 DEF Next, Process, Sync, Lead, Renew, Die, Terminate, Release,
            CreateScan, DeleteScan, Deliver, Worker, Tick, vars, processVars
<1> QED BY <1>1, <1>2, PTL DEF Spec

-----------------------------------------------------------------------------
(* What is proved of the controller, for the processes together. *)

Proved == INSTANCE ReconciliationProofs WITH
  MaxRestarts             <- Cardinality(Processes),
  MaxConcurrentReconciles <- Cardinality(Scans) + 1,
  watch    <- watch[acting],
  cache    <- cache[acting],
  queue    <- queue[acting],
  pc       <- pc[acting],
  obj      <- obj[acting],
  expired  <- [s \in Scans |-> FALSE],
  restarts <- handovers

LEMMA BoundsMapped ==
  /\ Proved!BoundsAssumption
  /\ Proved!FaultKindsAssumption
  /\ Proved!WorkersAssumption
BY FinitenessAssumption, FS_CardinalityType, ReplicaBoundsAssumption,
   ReplicaFaultsAssumption
   DEF Proved!BoundsAssumption, Proved!FaultKindsAssumption, Proved!WorkersAssumption

\* Proved speaks of the same controller.
LEMMA SameController == /\ Proved!Init <=> Controller!Init
                        /\ Proved!Next <=> Controller!Next
                        /\ Proved!vars = Controller!vars
<1>1. Proved!Init <=> Controller!Init
  BY DEF Proved!Init, Controller!Init, Proved!NoScan, Controller!NoScan, Proved!NewScan,
         Controller!NewScan
<1>2. Proved!vars = Controller!vars
  BY DEF Proved!vars, Controller!vars
<1>3. Proved!Next <=> Controller!Next
  BY DEF Proved!serverVars, Controller!serverVars, Proved!workerVars,
       Controller!workerVars, Proved!NewScan, Controller!NewScan, Proved!NoScan,
       Controller!NoScan, Proved!Build, Controller!Build, Proved!UpdateConditions,
       Controller!UpdateConditions, Proved!RunningStatus, Controller!RunningStatus,
       Proved!CompletedStatus, Controller!CompletedStatus, Proved!FailedStatus,
       Controller!FailedStatus, Proved!MergePatch, Controller!MergePatch,
       Proved!Store, Controller!Store, Proved!Fault, Controller!Fault,
       Proved!CallRejected, Controller!CallRejected, Proved!CallLost,
       Controller!CallLost, Proved!CreateScan, Controller!CreateScan,
       Proved!DeleteScan, Controller!DeleteScan, Proved!Predicate,
       Controller!Predicate, Proved!Deliver, Controller!Deliver, Proved!Relist,
       Controller!Relist, Proved!Dequeue, Controller!Dequeue, Proved!Goto,
       Controller!Goto, Proved!Return, Controller!Return, Proved!AlreadyProcessed,
       Controller!AlreadyProcessed, Proved!ReconcileGet, Controller!ReconcileGet,
       Proved!Merged, Controller!Merged, Proved!PatchOk, Controller!PatchOk,
       Proved!PatchFails, Controller!PatchFails, Proved!PatchRunning,
       Controller!PatchRunning, Proved!CreateConfigMap, Controller!CreateConfigMap,
       Proved!DeployDikiConfigMap, Controller!DeployDikiConfigMap,
       Proved!PatchCompleted, Controller!PatchCompleted, Proved!HandleFailedScan,
       Controller!HandleFailedScan, Proved!ContextExpires, Controller!ContextExpires,
       Proved!Restart, Controller!Restart, Proved!Worker, Controller!Worker,
       Proved!Next, Controller!Next, Proved!Cardinality, Controller!Cardinality,
       Proved!IsFiniteSet, Controller!IsFiniteSet
<1> QED BY <1>1, <1>2, <1>3

LEMMA ControllerSpecProved == Spec => Proved!Spec
<1>1. Init => Proved!Init
  BY InitMapped, SameController
<1>2. HandoverInvariant /\ [Next]_vars => [Proved!Next]_(Proved!vars)
  <2> SUFFICES ASSUME HandoverInvariant, [Next]_vars
               PROVE  Proved!Next \/ UNCHANGED Proved!vars
    OBVIOUS
  <2>1. Controller!Next \/ UNCHANGED Controller!vars
    BY StepsMapped
  <2> QED BY <2>1, SameController DEF Proved!vars, Controller!vars
<1> QED BY <1>1, <1>2, HandoverInvariantHolds, PTL DEF Spec, Proved!Spec

(***************************************************************************)
(* Every variable of the processes, of their configuration, the lease and   *)
(* the controllers keeps its type.                                          *)
(***************************************************************************)
THEOREM ReplicasTypeOKHolds == Spec => []ReplicasTypeOK
<1>1. Spec => []Proved!TypeOK
  BY BoundsMapped, ControllerSpecProved, Proved!TypeCorrect, PTL
<1>2. ElectionInvariant /\ HandoverInvariant /\ ConfigTyped /\ Proved!TypeOK
        => ReplicasTypeOK
  <2> SUFFICES ASSUME ElectionInvariant, HandoverInvariant, ConfigTyped, Proved!TypeOK
               PROVE  ReplicasTypeOK
    OBVIOUS
  <2>1. Controller!TypeOK
    BY DEF Proved!TypeOK, Controller!TypeOK, Proved!Objects, Controller!Objects,
           Proved!Phases, Controller!Phases, Proved!Conditions, Controller!Conditions
  <2>2. holder \in {Nil} \cup Processes /\ age \in Nat
    BY DEF ElectionInvariant, HolderTyped
  <2> QED BY <2>1, <2>2 DEF ReplicasTypeOK, HandoverInvariant, ReplicasTyped, ConfigTyped
<1> QED BY <1>1, <1>2, ElectionInvariantHolds, HandoverInvariantHolds, ConfigTypedHolds, PTL

(***************************************************************************)
(* What holds of one controller holds of the processes, however leaders     *)
(* take over from one another: phase and conditions tell the same story, a  *)
(* completed scan was configured, and ConfigMaps do not pile up with every  *)
(* hand-over (Reconcile, deployDikiConfigMap).                              *)
(***************************************************************************)
THEOREM ReplicasKeepPromises ==
  Spec => []/\ Controller!ConditionsMatchPhase
            /\ Controller!CompletedWasConfigured
            /\ Controller!ConfigMapsBounded
<1> DEFINE Promises == /\ Controller!ConditionsMatchPhase
                       /\ Controller!CompletedWasConfigured
                       /\ Controller!ConfigMapsBounded
<1>1. /\ Spec => []Proved!ConditionsMatchPhase
      /\ Spec => []Proved!CompletedWasConfigured
      /\ Spec => []Proved!ConfigMapsBounded
  BY BoundsMapped, ControllerSpecProved, Proved!ConditionsAgree,
     Proved!CompletionIsConfigured, Proved!ConfigMapsBoundedHolds, PTL
<1>2. Proved!ConditionsMatchPhase /\ Proved!CompletedWasConfigured
        /\ Proved!ConfigMapsBounded => Promises
  BY DEF Proved!ConditionsMatchPhase, Controller!ConditionsMatchPhase,
         Proved!CompletedWasConfigured, Controller!CompletedWasConfigured,
         Proved!ConfigMapsBounded, Controller!ConfigMapsBounded,
         Proved!ConditionsOf, Controller!ConditionsOf
<1> HIDE DEF Promises
<1>3. Spec => []Promises
  BY <1>1, <1>2, PTL
<1> QED BY <1>3 DEF Promises
=============================================================================
