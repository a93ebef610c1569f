---------------------------- MODULE ReportExporter ----------------------------
(***************************************************************************)
(* The report-exporter (internal/component/reportexporter): a process that  *)
(* sends a diki report to every configured output, one goroutine each, and  *)
(* records the results in the status of the ComplianceScan.                 *)
(*                                                                          *)
(* A run is one execution of that process. Runs for the same scan may       *)
(* overlap, fail at any call, or die at any point and be followed by the    *)
(* next. Meanwhile the scan changes its phase, is deleted or created again. *)
(***************************************************************************)
EXTENDS Naturals, Sequences, FiniteSets, Filter

CONSTANTS
  Runs,             \* executions of the exporter
  Configs,          \* possible lists of outputs in the configuration
  Reports,          \* possible contents of the report file
  MaxFaults,        \* bound: failures
  MaxIncarnations   \* bound: how often the scan is created

ASSUME BoundsAssumption == /\ MaxFaults \in Nat
                           /\ MaxIncarnations \in Nat \ {0}

VARIABLES
  config,       \* the outputs of the configuration, the same in every run
  scan,         \* the ComplianceScan in the API server
  incarnation,  \* how often the scan was created
  exported,     \* <<r, n>>: run r created the ConfigMap of output n
  report,       \* report[r]: the report file of run r
  pc,           \* pc[r]: where the main goroutine is
  obj,          \* obj[r]: local complianceScan
  exporter,     \* exporter[r][n]: the goroutine of output n
  channel,      \* channel[r]: the contents of outputStatusChan
  faults

localVars == <<report, pc, obj, exporter, channel>>
vars == <<config, scan, incarnation, exported, localVars, faults>>

-----------------------------------------------------------------------------
(* The configuration, the report and its summary. *)

Names == {config[i].name : i \in 1..Len(config)}

\* createOutputs: every output has the supported type and a readable config.
Supported == \A i \in 1..Len(config) : config[i].supported

\* make(chan OutputStatus, len(outputs)); outputs is a map, by name.
CapacityOne == 1                                                  \* mutant
Capacity == Cardinality(Names)

Statuses == {"Passed", "Skipped", "Accepted", "Warning", "Failed", "Errored"}

\* A ruleset is a sequence of rules, a rule the sequence of its checks' statuses.
ASSUME InputsAssumption == /\ \A outputs \in Configs : Len(outputs) \in Nat
                           /\ Reports \subseteq Seq(Seq(Seq(Statuses)))

HasStatus(rule, status) == \E i \in 1..Len(rule) : rule[i] = status

NumOfChecksWithStatus(ruleset, status) ==      \* mutant: no break
  Cardinality({check \in (1..Len(ruleset)) \X (1..10) :
                 /\ check[2] <= Len(ruleset[check[1]])
                 /\ ruleset[check[1]][check[2]] = status})

NumOfRulesWithStatus(ruleset, status) ==
  Cardinality({i \in 1..Len(ruleset) : HasStatus(ruleset[i], status)})

\* getRulesetFindingsByStatus, a rule by its position.
Findings(ruleset, status) ==
  Filtered([i \in 1..Len(ruleset) |-> i],
           {i \in 1..Len(ruleset) : HasStatus(ruleset[i], status)})

RulesetSummary(ruleset) ==
  [summary |-> [status \in Statuses |-> NumOfRulesWithStatus(ruleset, status)],
   rules |-> [status \in {"Failed", "Errored", "Warning"} |->
                Findings(ruleset, status)]]

CreateRulesetSummaries(rep) == [i \in 1..Len(rep) |-> RulesetSummary(rep[i])]

-----------------------------------------------------------------------------
NoScan == [phase |-> "Absent", rulesets |-> << >>, outputs |-> << >>]
NewScan == [NoScan EXCEPT !.phase = ""]

Lifecycle == INSTANCE ScanLifecycle WITH Scans <- {"scan"},
                                         phase <- [s \in {"scan"} |-> scan.phase]

Init == /\ config \in Configs
        /\ scan = NewScan
        /\ incarnation = 1
        /\ exported = {}
        /\ report \in [Runs -> Reports]
        /\ pc = [r \in Runs |-> "command"]
        /\ obj = [r \in Runs |-> NoScan]
        /\ exporter = [r \in Runs |-> [n \in Names |-> "none"]]
        /\ channel = [r \in Runs |-> << >>]
        /\ faults = 0

Fault == /\ faults < MaxFaults
         /\ faults' = faults + 1

\* The compliancescan controller and users change the scan.
ScanChanges ==
  /\ \/ \E to \in Lifecycle!Phases :
          /\ <<scan.phase, to>> \in Lifecycle!Moves
          /\ scan' = [scan EXCEPT !.phase = to]
          /\ UNCHANGED incarnation
     \/ /\ scan # NoScan
        /\ scan' = NoScan
        /\ UNCHANGED incarnation
     \/ /\ scan = NoScan
        /\ incarnation < MaxIncarnations
        /\ incarnation' = incarnation + 1
        /\ scan' = NewScan
  /\ UNCHANGED <<config, exported, localVars, faults>>

-----------------------------------------------------------------------------
(* The process starts. *)

Goto(r, label) == pc' = [pc EXCEPT ![r] = label]

\* opt.Complete: the configuration is decoded from the file the command names.
Complete(r) ==
  /\ pc[r] = "command"
  /\ \/ Goto(r, "run") /\ UNCHANGED faults
     \/ Goto(r, "error") /\ Fault
  /\ UNCHANGED <<config, scan, incarnation, exported, report, obj, exporter, channel>>

\* run makes the client.
Run(r) ==
  /\ pc[r] = "run"
  /\ \/ Goto(r, "start") /\ UNCHANGED faults
     \/ Goto(r, "error") /\ Fault
  /\ UNCHANGED <<config, scan, incarnation, exported, report, obj, exporter, channel>>

-----------------------------------------------------------------------------
(* Export. *)

\* The exporter's client reads the API server, not a cache.
Get(r) ==
  /\ pc[r] = "start"
  /\ \/ /\ \/ Fault
           \/ scan.phase \in {"Absent", "Completed"} /\ UNCHANGED faults
        /\ Goto(r, "error")
        /\ UNCHANGED obj
     \/ /\ scan.phase \notin {"Absent", "Completed"}
        /\ obj' = [obj EXCEPT ![r] = scan]
        /\ Goto(r, "prepare")
        /\ UNCHANGED faults
  /\ UNCHANGED <<config, scan, incarnation, exported, report, exporter, channel>>

\* readDikiReport, createOutputs, and a goroutine for every output.
StartExports(r) ==
  /\ pc[r] = "prepare"
  /\ \/ /\ \/ Fault
           \/ ~Supported /\ UNCHANGED faults
        /\ Goto(r, "error")
        /\ UNCHANGED exporter
     \/ /\ Supported
        /\ exporter' = [exporter EXCEPT ![r] = [n \in Names |-> "exporting"]]
        /\ Goto(r, "wait")
        /\ UNCHANGED faults
  /\ UNCHANGED <<config, scan, incarnation, exported, report, obj, channel>>

\* ConfigMapExporter.Export: a ConfigMap with a generated name.
ExportOutput(r, n) ==
  /\ pc[r] = "wait"
  /\ exporter[r][n] = "exporting"
  /\ \/ /\ exported' = exported \cup {<<r, n>>}
        /\ exporter' = [exporter EXCEPT ![r][n] = "Completed"]
        /\ UNCHANGED faults
     \/ /\ Fault
        /\ exported' = exported \/ exported' = exported \cup {<<r, n>>}
        /\ exporter' = [exporter EXCEPT ![r][n] = "Failed"]
  /\ UNCHANGED <<config, scan, incarnation, report, pc, obj, channel>>

(***************************************************************************)
(* The ConfigMap's reference, by the run that created it, or the text of an *)
(* error, which two runs may share.                                         *)
(***************************************************************************)
Details(r, phase) == IF phase = "Completed" THEN {r} ELSE {}

OutputStatus(r, n, phase) ==
  [name |-> n, phase |-> phase, details |-> Details(r, phase)]

SendPhase(r, n, phase) ==
  /\ pc[r] = "wait"
  /\ exporter[r][n] \in {"Completed", "Failed"}
  /\ Len(channel[r]) < Capacity
  /\ channel' = [channel EXCEPT ![r] = Append(@, OutputStatus(r, n, phase))]
  /\ exporter' = [exporter EXCEPT ![r][n] = "done"]
  /\ UNCHANGED <<config, scan, incarnation, exported, report, pc, obj, faults>>

SendCompleted(r, n) == SendPhase(r, n, "Completed")      \* mutant: err is shadowed

SendNoPhase(r, n) == SendPhase(r, n, "")          \* mutant: phase is not assigned

\* outputStatusChan <- OutputStatus{...}, then the deferred wg.Done().
SendStatus(r, n) == SendPhase(r, n, exporter[r][n])

WaitForFirst(r) ==      \* mutant: wg.Add counts one goroutine
  /\ pc[r] = "wait"
  /\ \E n \in Names : exporter[r][n] = "done"
  /\ Goto(r, "patch")
  /\ UNCHANGED <<config, scan, incarnation, exported, report, obj, exporter,
                 channel, faults>>

\* wg.Wait(), close(outputStatusChan), and the loop that drains it.
Wait(r) ==
  /\ pc[r] = "wait"
  /\ \A n \in Names : exporter[r][n] = "done"
  /\ Goto(r, "patch")
  /\ UNCHANGED <<config, scan, incarnation, exported, report, obj, exporter,
                 channel, faults>>

\* The server's status after the merge patch from base.
MergePatch(base, rulesets, outputs) ==
  [scan EXCEPT
     !.rulesets = IF rulesets = base.rulesets THEN @ ELSE rulesets,
     !.outputs = IF outputs = base.outputs THEN @ ELSE outputs]

PatchStatus(r) ==
  LET patched == MergePatch(obj[r], CreateRulesetSummaries(report[r]), channel[r])
  IN  /\ pc[r] = "patch"
      /\ \/ /\ scan # NoScan
            /\ scan' = patched
            /\ Goto(r, "done")
            /\ UNCHANGED faults
         \/ /\ \/ scan = NoScan /\ UNCHANGED <<scan, faults>>
               \/ Fault /\ UNCHANGED scan
               \/ Fault /\ scan # NoScan /\ scan' = patched
            /\ Goto(r, "error")
      /\ UNCHANGED <<config, incarnation, exported, report, obj, exporter, channel>>

Ended == {"done", "error", "dead"}

\* The process is killed.
Die(r) ==
  /\ pc[r] \notin Ended
  /\ Fault
  /\ Goto(r, "dead")
  /\ UNCHANGED <<config, scan, incarnation, exported, report, obj, exporter, channel>>

-----------------------------------------------------------------------------
MainGoroutine(r) == \/ Complete(r)
                    \/ Run(r)
                    \/ Get(r)
                    \/ StartExports(r)
                    \/ Wait(r)
                    \/ PatchStatus(r)

Goroutine(r, n) == ExportOutput(r, n) \/ SendStatus(r, n)

Next == \/ ScanChanges
        \/ \E r \in Runs : \/ MainGoroutine(r)
                           \/ \E n \in Names : Goroutine(r, n)
                           \/ Die(r)

Spec == Init /\ [][Next]_vars

\* The Go scheduler runs every goroutine that can run; Create calls return.
Fairness == \A r \in Runs :
  /\ WF_vars(MainGoroutine(r))
  /\ WF_vars(\E n \in Names : Goroutine(r, n))

FairSpec == Spec /\ Fairness

-----------------------------------------------------------------------------
(* Properties. *)

OutputStatuses == [name : Names, phase : {"Completed", "Failed"},
                   details : SUBSET Runs]

Summaries == [summary : [Statuses -> Nat],
              rules : [{"Failed", "Errored", "Warning"} -> Seq(Nat)]]

Scans == [phase : {"Absent", "", "Running", "Completed", "Failed"},
          rulesets : Seq(Summaries), outputs : Seq(OutputStatuses)]

\* Every variable has its type; a channel never holds more than its capacity.
TypeOK ==
  /\ config \in Configs
  /\ scan \in Scans
  /\ incarnation \in 1..MaxIncarnations
  /\ exported \subseteq Runs \X Names
  /\ report \in [Runs -> Reports]
  /\ pc \in [Runs -> {"command", "run", "start", "prepare", "wait", "patch"} \cup Ended]
  /\ obj \in [Runs -> Scans]
  /\ exporter \in [Runs -> [Names -> {"none", "exporting", "Completed", "Failed",
                                      "done"}]]
  /\ \A r \in Runs : /\ channel[r] \in Seq(OutputStatuses)
                     /\ Len(channel[r]) <= Capacity
  /\ faults \in 0..MaxFaults

(***************************************************************************)
(* The outputs in a scan's status are none, or exactly one entry for every  *)
(* output of the configuration, all of one run, in whatever order the       *)
(* goroutines end, runs overlap, die and repeat (Export: WaitGroup, channel *)
(* and patch).                                                              *)
(***************************************************************************)
OutputsComplete ==
  LET outputs == scan.outputs
  IN  outputs # << >> =>
        /\ Len(outputs) = Cardinality(Names)
        /\ {outputs[i].name : i \in 1..Len(outputs)} = Names
        /\ \E r \in Runs : \A i \in 1..Len(outputs) : outputs[i].details \subseteq {r}

(***************************************************************************)
(* An output that the status calls Completed was exported by the run that   *)
(* reported it ("OutputStatusCompleted means that the output has been       *)
(* successfully processed by the exporter").                                *)
(***************************************************************************)
CompletedOutputsExist ==
  \A i \in 1..Len(scan.outputs) :
    scan.outputs[i].phase = "Completed" =>
      \E r \in scan.outputs[i].details : <<r, scan.outputs[i].name>> \in exported

(***************************************************************************)
(* The two halves of a ruleset's summary, computed by different loops,      *)
(* agree: as many rules are listed under a status as are counted for it     *)
(* (rulesetSummaryCount, getRulesetFindingsByStatus).                       *)
(***************************************************************************)
SummariesAgree ==
  \A i \in 1..Len(scan.rulesets) :
    \A status \in {"Failed", "Errored", "Warning"} :
      scan.rulesets[i].summary[status] = Len(scan.rulesets[i].rules[status])

(***************************************************************************)
(* The channel has room for every goroutine that has something to send: the *)
(* main goroutine drains it only after all of them have sent (Export).      *)
(***************************************************************************)
SendsNeverBlock ==
  \A r \in Runs : \A n \in Names :
    exporter[r][n] \in {"Completed", "Failed"} => Len(channel[r]) < Capacity

(***************************************************************************)
(* Export returns or its process dies: no goroutine waits on the channel or *)
(* the WaitGroup for ever (Export).                                         *)
(***************************************************************************)
ExportReturns == \A r \in Runs : <>(pc[r] \in Ended)
=============================================================================
