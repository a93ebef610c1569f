--------------------------- MODULE OperatorConfig ---------------------------
(***************************************************************************)
(* The configuration of diki-operator (pkg/apis/config/v1alpha1): what a    *)
(* file may say, the defaults its decoding fills in and the validation that *)
(* follows (cmd/diki-operator/app/options.go).                              *)
(*                                                                          *)
(* Go's zero values are kept: "" and 0 are a value that was left out, Nil   *)
(* is a nil pointer. Durations are in seconds. Bind addresses and the       *)
(* labels themselves are left out: of the labels it matters only whether    *)
(* they are legal. SyncPeriod and PodCompletionTimeout are validated and    *)
(* defaulted, but no other code reads them.                                 *)
(***************************************************************************)
EXTENDS Integers

CONSTANTS
  Nil,                  \* the nil pointer
  Texts                 \* what a text of the file may be; "" is unset

LogLevels  == {"info", "debug", "error"}
LogFormats == {"json", "text"}

Durations == Nat        \* a duration of the leader election; 0 is unset

LeaderElections ==
  [leaderElect : {Nil} \cup BOOLEAN,
   leaseDuration : Durations, renewDeadline : Durations,
   retryPeriod : Durations,
   resourceLock : Texts, resourceNamespace : Texts, resourceName : Texts]

Servers == [port : Int]

DikiRunners == [namespace : Texts, labelsLegal : BOOLEAN,
                podCompletionTimeout : {Nil} \cup Int]

\* DikiOperatorConfiguration
Configurations ==
  [log : [level : Texts, format : Texts],
   leaderElection : {Nil} \cup LeaderElections,
   complianceScan : [syncPeriod : {Nil} \cup Int, dikiRunner : DikiRunners],
   server : [webhooks : [port : Int, serverCertDir : Texts],
             healthProbes : {Nil} \cup Servers,
             metrics : {Nil} \cup Servers]]

ASSUME NilAssumption ==
  Nil \notin Configurations \cup LeaderElections \cup Servers \cup BOOLEAN

ASSUME TextsAssumption ==
  {"", "info", "json", "kube-system", "leases", "diki-operator-leader-election"}
    \subseteq Texts

-----------------------------------------------------------------------------
(* Defaults, one operator per function of defaults.go. *)

\* A value, or the default where it is the zero value.
Default(value, zero, default) == IF value = zero THEN default ELSE value

\* &LeaderElectionConfiguration{}
ZeroLeaderElection ==
  [leaderElect |-> Nil, leaseDuration |-> 0, renewDeadline |-> 0,
   retryPeriod |-> 0, resourceLock |-> "", resourceNamespace |-> "",
   resourceName |-> ""]

SetDefaults_DikiOperatorConfiguration(c) ==
  [c EXCEPT !.leaderElection = Default(@, Nil, ZeroLeaderElection)]

SetDefaults_Log(log) == [level  |-> Default(log.level, "", "info"),
                         format |-> Default(log.format, "", "json")]

SetDefaults_DikiRunnerConfig(r) ==
  [namespace |-> Default(r.namespace, "", "kube-system"),
   labelsLegal |-> r.labelsLegal,
   podCompletionTimeout |-> Default(r.podCompletionTimeout, Nil, 600)]

SetDefaults_ComplianceScanConfig(c) ==
  [syncPeriod |-> Default(c.syncPeriod, Nil, 3600),
   dikiRunner |-> SetDefaults_DikiRunnerConfig(c.dikiRunner)]

ServerWithPort(s, port) ==
  [port |-> IF s = Nil THEN port ELSE Default(s.port, 0, port)]

SetDefaults_HTTPSServer(s) == [s EXCEPT !.port = Default(@, 0, 10443)]

SetDefaults_ServerConfiguration(s) ==
  [webhooks     |-> SetDefaults_HTTPSServer(s.webhooks),
   healthProbes |-> ServerWithPort(s.healthProbes, 8081),
   metrics      |-> ServerWithPort(s.metrics, 8080)]

(***************************************************************************)
(* Of these, the first five are filled in by k8s.io/component-base,         *)
(* RecommendedDefaultLeaderElectionConfiguration.                           *)
(***************************************************************************)
SetDefaults_LeaderElectionConfiguration(e) ==
  [leaderElect   |-> Default(e.leaderElect, Nil, TRUE),
   leaseDuration |-> Default(e.leaseDuration, 0, 15),
   renewDeadline |-> Default(e.renewDeadline, 0, 10),
   retryPeriod   |-> Default(e.retryPeriod, 0, 2),
   resourceLock  |-> Default(e.resourceLock, "", "leases"),
   resourceNamespace |-> Default(e.resourceNamespace, "", "kube-system"),
   resourceName  |-> Default(e.resourceName, "", "diki-operator-leader-election")]

DefaultsWithoutLeaderElection(c) ==      \* mutant: the nested defaulter not called
  [log            |-> SetDefaults_Log(c.log),
   leaderElection |-> SetDefaults_DikiOperatorConfiguration(c).leaderElection,
   complianceScan |-> SetDefaults_ComplianceScanConfig(c.complianceScan),
   server         |-> SetDefaults_ServerConfiguration(c.server)]

SetObjectDefaults(c) ==
  [log            |-> SetDefaults_Log(c.log),
   leaderElection |-> SetDefaults_LeaderElectionConfiguration(
                        SetDefaults_DikiOperatorConfiguration(c).leaderElection),
   complianceScan |-> SetDefaults_ComplianceScanConfig(c.complianceScan),
   server         |-> SetDefaults_ServerConfiguration(c.server)]

-----------------------------------------------------------------------------
(* Validation: what ValidateDikiOperatorConfiguration accepts. *)

ValidLog(log) == /\ log.level = "" \/ log.level \in LogLevels
                 /\ log.format = "" \/ log.format \in LogFormats

ValidDikiRunner(r) ==
  /\ r.labelsLegal
  /\ r.podCompletionTimeout = Nil \/ r.podCompletionTimeout \in 1..3600

ValidServer(s) == s = Nil \/ s.port >= 0

ValidServerConfiguration(s) == /\ s.webhooks.port >= 0
                               /\ ValidServer(s.healthProbes)
                               /\ ValidServer(s.metrics)
                               /\ s.webhooks.serverCertDir # ""

(***************************************************************************)
(* ValidateLeaderElectionConfiguration of Gardener: without leader election *)
(* nothing is checked. The lease must outlast renewDeadline, but not, as it *)
(* would have to, renewDeadline and retryPeriod together.                   *)
(***************************************************************************)
ValidLeaderElection(e) ==
  e = Nil \/ (e.leaderElect = TRUE =>
                /\ e.retryPeriod > 0
                /\ e.renewDeadline > 0
                /\ e.leaseDuration > e.renewDeadline
                /\ "" \notin {e.resourceLock, e.resourceNamespace,
                              e.resourceName})

ValidateDikiOperatorConfiguration(c) ==
  /\ ValidLog(c.log)
  /\ ValidDikiRunner(c.complianceScan.dikiRunner)
  /\ ValidLeaderElection(c.leaderElection)
  /\ ValidServerConfiguration(c.server)
=============================================================================
