-------------------------- MODULE ReportExporterProofs --------------------------
(***************************************************************************)
(* What a scan's status says of its outputs, for any number of runs that    *)
(* overlap, any configuration, and any failures and deaths.                 *)
(***************************************************************************)
EXTENDS ReportExporter, FilterProofs

-----------------------------------------------------------------------------
(* The inductive invariant. What a run patches it has drained from its      *)
(* channel, so the invariant says what the channel holds before that.       *)

Named(outputs) == {outputs[i].name : i \in 1..Len(outputs)}

\* Every entry is the run's own, and what it calls Completed was exported.
Honest(r, outputs) ==
  \A i \in 1..Len(outputs) :
    /\ outputs[i].details \subseteq {r}
    /\ outputs[i].phase = "Completed" =>
         /\ outputs[i].details = {r}
         /\ <<r, outputs[i].name>> \in exported

Unrepeated(outputs) ==
  \A i, j \in 1..Len(outputs) : outputs[i].name = outputs[j].name => i = j

\* The channel holds one status of every goroutine that is done.
ChannelOK(r) ==
  /\ channel[r] \in Seq(OutputStatuses)
  /\ Unrepeated(channel[r])
  /\ Named(channel[r]) = {n \in Names : exporter[r][n] = "done"}
  /\ Honest(r, channel[r])

GoroutinesOK(r) ==
  /\ \A n \in Names : exporter[r][n] = "Completed" => <<r, n>> \in exported
  /\ pc[r] \in {"command", "run", "start", "prepare"} =>
       \A n \in Names : exporter[r][n] = "none"
  /\ pc[r] = "patch" => \A n \in Names : exporter[r][n] = "done"

\* What was recorded is what some run had drained.
StatusOK ==
  scan.outputs # << >> =>
    /\ Len(scan.outputs) = Cardinality(Names)
    /\ Named(scan.outputs) = Names
    /\ \E r \in Runs : Honest(r, scan.outputs)

Labels == {"command", "run", "start", "prepare", "wait", "patch",
           "done", "error", "dead"}

Stages == {"none", "exporting", "Completed", "Failed", "done"}

Shape ==
  /\ DOMAIN scan = {"phase", "rulesets", "outputs"}
  /\ pc \in [Runs -> Labels]
  /\ exporter \in [Runs -> [Names -> Stages]]
  /\ DOMAIN channel = Runs

ExportInvariant ==
  /\ Shape
  /\ \A r \in Runs : ChannelOK(r) /\ GoroutinesOK(r)
  /\ StatusOK

-----------------------------------------------------------------------------
(* What steps keep. *)

\* A step that exports, at most, keeps what the status says.
LEMMA StatusKept ==
  ASSUME StatusOK, config' = config, scan'.outputs = scan.outputs,
         exported \subseteq exported'
  PROVE  StatusOK'
<1>1. Names' = Names
  BY DEF Names
<1>2. CASE scan.outputs = << >>
  BY <1>2 DEF StatusOK
<1>3. CASE scan.outputs # << >>
  <2>1. PICK r \in Runs : Honest(r, scan.outputs)
    BY <1>3 DEF StatusOK
  <2>2. Honest(r, scan.outputs)'
    BY <2>1 DEF Honest
  <2> QED BY <1>1, <1>3, <2>2 DEF StatusOK, Named
<1> QED BY <1>2, <1>3

\* A step that leaves a run's goroutines and its channel alone.
LEMMA RunKept ==
  ASSUME NEW r, ChannelOK(r), config' = config, exported \subseteq exported',
         channel'[r] = channel[r], exporter'[r] = exporter[r]
  PROVE  ChannelOK(r)'
<1>1. Names' = Names
  BY DEF Names
<1>2. Honest(r, channel[r])'
  BY DEF ChannelOK, Honest
<1> QED BY <1>1, <1>2 DEF ChannelOK, OutputStatuses, Unrepeated, Named

LEMMA GoroutinesKept ==
  ASSUME NEW r, GoroutinesOK(r), config' = config, exported \subseteq exported',
         exporter'[r] = exporter[r], pc'[r] = pc[r]
  PROVE  GoroutinesOK(r)'
BY DEF GoroutinesOK, Names

(***************************************************************************)
(* The main goroutine of r goes on to a label, no goroutine does anything:  *)
(* the commonest step.                                                      *)
(***************************************************************************)
LEMMA MainStep ==
  ASSUME ExportInvariant, NEW r \in Runs, NEW label \in Labels,
         pc' = [pc EXCEPT ![r] = label],
         \/ label \in Ended \cup {"wait"}
         \/ /\ label \in {"run", "start", "prepare"}
            /\ pc[r] \in {"command", "run", "start"}
         \/ label = "patch" /\ \A n \in Names : exporter[r][n] = "done",
         UNCHANGED <<config, exported, exporter, channel>>
  PROVE  /\ pc' \in [Runs -> Labels]
         /\ \A q \in Runs : (ChannelOK(q) /\ GoroutinesOK(q))'
<1> USE DEF ExportInvariant
<1>1. pc' \in [Runs -> Labels]
  BY DEF Shape
<1>2. ASSUME NEW q \in Runs
      PROVE  ChannelOK(q)'
  BY RunKept
<1>3. ASSUME NEW q \in Runs, q # r
      PROVE  GoroutinesOK(q)'
  <2>1. pc'[q] = pc[q]
    BY <1>3 DEF Shape
  <2> QED BY <2>1, GoroutinesKept
<1>4. GoroutinesOK(r)'
  <2>1. pc'[r] = label
    BY DEF Shape
  <2>2. Names' = Names
    BY DEF Names
  <2> QED BY <2>1, <2>2 DEF GoroutinesOK, Ended, Shape
<1> QED BY <1>1, <1>2, <1>3, <1>4

-----------------------------------------------------------------------------
(* The actions. *)

LEMMA AbsentOrNew ==
  \A s \in {NoScan, NewScan} :
    DOMAIN s = {"phase", "rulesets", "outputs"} /\ s.outputs = << >>
<1>1. DOMAIN NoScan = {"phase", "rulesets", "outputs"} /\ NoScan.outputs = << >>
  BY DEF NoScan
<1>2. DOMAIN NewScan = DOMAIN NoScan /\ NewScan.outputs = NoScan.outputs
  BY <1>1 DEF NewScan
<1> QED BY <1>1, <1>2

LEMMA InitInvariant == Init => ExportInvariant
<1> SUFFICES ASSUME Init PROVE ExportInvariant
  OBVIOUS
<1> USE DEF Init
<1>1. Shape
  BY DEF Shape, Labels, Stages, NewScan, NoScan
<1>2. StatusOK
  BY DEF StatusOK, NewScan, NoScan
<1>3. ASSUME NEW r \in Runs
      PROVE  ChannelOK(r) /\ GoroutinesOK(r)
  BY DEF ChannelOK, GoroutinesOK, Unrepeated, Named, Honest
<1> QED BY <1>1, <1>2, <1>3 DEF ExportInvariant

LEMMA ScanChangesInvariant ==
  ASSUME ExportInvariant, ScanChanges
  PROVE  ExportInvariant'
<1> USE DEF ExportInvariant, ScanChanges, localVars
<1>1. \A r \in Runs : (ChannelOK(r) /\ GoroutinesOK(r))'
  BY RunKept, GoroutinesKept
<1>2. Names' = Names
  BY DEF Names
<1>3. CASE \E to \in Lifecycle!Phases : scan' = [scan EXCEPT !.phase = to]
  <2>1. DOMAIN scan' = DOMAIN scan /\ scan'.outputs = scan.outputs
    BY <1>3 DEF Shape
  <2>2. Shape'
    BY <1>2, <2>1 DEF Shape
  <2>3. StatusOK'
    BY <2>1, StatusKept
  <2> QED BY <1>1, <2>2, <2>3
<1>4. CASE scan' \in {NoScan, NewScan}
  <2>1. DOMAIN scan' = {"phase", "rulesets", "outputs"} /\ scan'.outputs = << >>
    BY <1>4, AbsentOrNew
  <2>2. Shape'
    BY <1>2, <2>1 DEF Shape
  <2>3. StatusOK'
    BY <2>1 DEF StatusOK
  <2> QED BY <1>1, <2>2, <2>3
<1> QED BY <1>3, <1>4

\* Steps of the main goroutine that neither start the others nor patch.
LEMMA MainInvariant ==
  ASSUME ExportInvariant, NEW r \in Runs,
         Complete(r) \/ Run(r) \/ Get(r) \/ Wait(r) \/ Die(r)
  PROVE  ExportInvariant'
<1> USE DEF Goto
<1>1. UNCHANGED <<config, scan, exported, exporter, channel>>
  BY DEF Complete, Run, Get, Wait, Die
<1>2. PICK label \in {"run", "start", "prepare", "patch", "error", "dead"} :
        /\ pc' = [pc EXCEPT ![r] = label]
        /\ label \in {"run", "start", "prepare"} =>
             pc[r] \in {"command", "run", "start"}
        /\ label = "patch" => \A n \in Names : exporter[r][n] = "done"
  BY DEF Complete, Run, Get, Wait, Die
<1>3. /\ pc' \in [Runs -> Labels]
      /\ \A q \in Runs : (ChannelOK(q) /\ GoroutinesOK(q))'
  <2>1. label \in Labels
    BY DEF Labels
  <2>2. \/ label \in Ended \cup {"wait"}
        \/ /\ label \in {"run", "start", "prepare"}
           /\ pc[r] \in {"command", "run", "start"}
        \/ label = "patch" /\ \A n \in Names : exporter[r][n] = "done"
    BY <1>2 DEF Ended
  <2> QED BY <1>1, <1>2, <2>1, <2>2, MainStep
<1>4. Shape'
  BY <1>1, <1>3, Names' = Names DEF ExportInvariant, Shape, Names
<1>5. StatusOK'
  BY <1>1, StatusKept DEF ExportInvariant
<1> QED BY <1>3, <1>4, <1>5 DEF ExportInvariant

LEMMA StartInvariant ==
  ASSUME ExportInvariant, NEW r \in Runs, StartExports(r)
  PROVE  ExportInvariant'
<1> USE DEF ExportInvariant, Goto
<1>1. UNCHANGED <<config, scan, exported, channel>> /\ Names' = Names
  BY DEF StartExports, Names
<1>2. StatusOK'
  BY <1>1, StatusKept
<1>3. CASE pc' = [pc EXCEPT ![r] = "error"] /\ exporter' = exporter
  <2>1. /\ pc' \in [Runs -> Labels]
        /\ \A q \in Runs : (ChannelOK(q) /\ GoroutinesOK(q))'
    <3>1. "error" \in Labels /\ "error" \in Ended \cup {"wait"}
      BY DEF Labels, Ended
    <3> QED BY <1>1, <1>3, <3>1, MainStep
  <2> QED BY <1>1, <1>2, <1>3, <2>1 DEF Shape
<1>4. CASE /\ pc' = [pc EXCEPT ![r] = "wait"]
           /\ exporter' = [exporter EXCEPT ![r] = [n \in Names |-> "exporting"]]
  <2>1. Shape'
    BY <1>1, <1>4 DEF Shape, Labels, Stages
  <2>2. ASSUME NEW q \in Runs, q # r
        PROVE  (ChannelOK(q) /\ GoroutinesOK(q))'
    <3>1. exporter'[q] = exporter[q] /\ pc'[q] = pc[q]
      BY <1>4, <2>2 DEF Shape
    <3> QED BY <1>1, <3>1, RunKept, GoroutinesKept
  <2>3. exporter'[r] = [n \in Names |-> "exporting"] /\ pc'[r] = "wait"
    BY <1>4 DEF Shape
  <2>4. \A n \in Names : exporter[r][n] = "none"
    BY DEF GoroutinesOK, StartExports
  <2>5. ChannelOK(r)'
    <3>1. Named(channel[r])' = {n \in Names : exporter'[r][n] = "done"}
      <4>1. {n \in Names : exporter'[r][n] = "done"} = {}
        BY <2>3
      <4>2. Named(channel[r]) = {}
        BY <2>4 DEF ChannelOK
      <4> QED BY <1>1, <4>1, <4>2 DEF Named
    <3>2. Honest(r, channel[r])'
      BY <1>1 DEF ChannelOK, Honest
    <3> QED BY <1>1, <3>1, <3>2 DEF ChannelOK, OutputStatuses, Unrepeated
  <2>6. GoroutinesOK(r)'
    BY <1>1, <2>3 DEF GoroutinesOK
  <2> QED BY <1>2, <2>1, <2>2, <2>5, <2>6
<1> QED BY <1>3, <1>4 DEF StartExports

LEMMA ExportOutputInvariant ==
  ASSUME ExportInvariant, NEW r \in Runs, NEW n \in Names, ExportOutput(r, n)
  PROVE  ExportInvariant'
<1> USE DEF ExportInvariant
<1>1. /\ UNCHANGED <<config, scan, channel, pc>>
      /\ Names' = Names
      /\ exported \subseteq exported'
      /\ pc[r] = "wait" /\ exporter[r][n] = "exporting"
  BY DEF ExportOutput, Names
<1>2. PICK result \in {"Completed", "Failed"} :
        /\ exporter' = [exporter EXCEPT ![r][n] = result]
        /\ result = "Completed" => <<r, n>> \in exported'
  BY DEF ExportOutput
<1>3. StatusOK'
  BY <1>1, StatusKept
<1>4. Shape'
  BY <1>1, <1>2 DEF Shape, Labels, Stages
<1>5. ASSUME NEW q \in Runs, q # r
      PROVE  (ChannelOK(q) /\ GoroutinesOK(q))'
  <2>1. exporter'[q] = exporter[q]
    BY <1>2, <1>5 DEF Shape
  <2> QED BY <1>1, <2>1, RunKept, GoroutinesKept
<1>6. \A m \in Names : exporter'[r][m] = IF m = n THEN result ELSE exporter[r][m]
  BY <1>2 DEF Shape
<1>7. ChannelOK(r)'
  <2>1. Named(channel[r])' = {m \in Names : exporter'[r][m] = "done"}
    BY <1>1, <1>6 DEF ChannelOK, Named
  <2>2. Honest(r, channel[r])'
    BY <1>1 DEF ChannelOK, Honest
  <2> QED BY <1>1, <2>1, <2>2 DEF ChannelOK, OutputStatuses, Unrepeated
<1>8. GoroutinesOK(r)'
  BY <1>1, <1>2, <1>6 DEF GoroutinesOK
<1> QED BY <1>3, <1>4, <1>5, <1>7, <1>8

LEMMA SendStatusInvariant ==
  ASSUME ExportInvariant, NEW r \in Runs, NEW n \in Names, SendStatus(r, n)
  PROVE  ExportInvariant'
<1> USE DEF ExportInvariant
<1> DEFINE phase == exporter[r][n]
           sent == OutputStatus(r, n, phase)
<1>1. /\ UNCHANGED <<config, scan, exported, pc>>
      /\ Names' = Names
      /\ pc[r] = "wait" /\ phase \in {"Completed", "Failed"}
      /\ channel' = [channel EXCEPT ![r] = Append(channel[r], sent)]
      /\ exporter' = [exporter EXCEPT ![r][n] = "done"]
  BY DEF SendStatus, SendPhase, Names
<1>2. StatusOK'
  BY <1>1, StatusKept
<1>3. Shape'
  BY <1>1 DEF Shape, Labels, Stages
<1>4. ASSUME NEW q \in Runs, q # r
      PROVE  (ChannelOK(q) /\ GoroutinesOK(q))'
  <2>1. exporter'[q] = exporter[q] /\ channel'[q] = channel[q]
    BY <1>1, <1>4 DEF Shape
  <2> QED BY <1>1, <2>1, RunKept, GoroutinesKept
<1>5. \A m \in Names : exporter'[r][m] = IF m = n THEN "done" ELSE exporter[r][m]
  BY <1>1 DEF Shape
<1>6. /\ sent \in OutputStatuses /\ sent.name = n
      /\ sent.details \subseteq {r}
      /\ sent.phase = "Completed" => sent.details = {r} /\ <<r, n>> \in exported
  BY <1>1 DEF OutputStatus, OutputStatuses, Details, GoroutinesOK
<1>7. /\ channel'[r] = Append(channel[r], sent)
      /\ channel[r] \in Seq(OutputStatuses)
  BY <1>1 DEF Shape, ChannelOK
<1>8. /\ channel'[r] \in Seq(OutputStatuses)
      /\ Len(channel'[r]) = Len(channel[r]) + 1 /\ Len(channel[r]) \in Nat
      /\ \A i \in 1..Len(channel[r]) : channel'[r][i] = channel[r][i]
      /\ channel'[r][Len(channel[r]) + 1] = sent
  <2> HIDE DEF sent
  <2> QED BY <1>6, <1>7
<1> DEFINE old == channel[r]
           new == channel'[r]
<1> HIDE DEF sent, phase
<1>9. ChannelOK(r)'
  <2>1. \A i \in 1..Len(channel[r]) : channel[r][i].name # n
    BY <1>1 DEF ChannelOK, Named, phase
  <2>2. \A i \in 1..Len(new) : \/ i \in 1..Len(old) /\ new[i] = old[i]
                               \/ i = Len(old) + 1 /\ new[i] = sent
    <3>1. /\ Len(old) \in Nat /\ Len(new) = Len(old) + 1
          /\ \A i \in 1..Len(old) : new[i] = old[i]
          /\ new[Len(old) + 1] = sent
      BY <1>8
    <3> HIDE DEF old, new
    <3> QED BY <3>1
  <2>3. Unrepeated(channel'[r])
    <3>1. Unrepeated(old)
      BY DEF ChannelOK
    <3> HIDE DEF old, new
    <3> SUFFICES Unrepeated(new)
      BY DEF new
    <3>2. \A i \in 1..Len(old) : old[i].name # n
      BY <2>1 DEF old
    <3> QED BY <1>6, <2>2, <3>1, <3>2 DEF Unrepeated
  <2>4. Named(channel'[r]) = Named(channel[r]) \cup {n}
    <3>1. /\ 1..Len(old) \subseteq 1..Len(new)
          /\ Len(old) + 1 \in 1..Len(new)
          /\ \A i \in 1..Len(old) : new[i] = old[i]
          /\ new[Len(old) + 1] = sent
      BY <1>8
    <3> HIDE DEF old, new
    <3>2. Named(new) = Named(old) \cup {n}
      BY <1>6, <2>2, <3>1 DEF Named
    <3> QED BY <3>2 DEF old, new
  <2>5. Named(channel'[r]) = {m \in Names : exporter'[r][m] = "done"}
    BY <1>5, <2>4 DEF ChannelOK
  <2>6. Honest(r, channel'[r])
    <3>1. Honest(r, old)
      BY DEF ChannelOK
    <3> HIDE DEF old, new
    <3>2. Honest(r, new)
      BY <1>6, <2>2, <3>1 DEF Honest
    <3> QED BY <3>2 DEF new
  <2>7. Honest(r, channel[r])'
    BY <1>1, <2>6 DEF Honest
  <2> QED BY <1>1, <1>8, <2>3, <2>5, <2>7 DEF ChannelOK, OutputStatuses, Unrepeated, Named
<1>10. GoroutinesOK(r)'
  BY <1>1, <1>5 DEF GoroutinesOK
<1> QED BY <1>2, <1>3, <1>4, <1>9, <1>10

\* No goroutine sends twice: a channel is as long as there are names in it.
LEMMA ChannelLength ==
  ASSUME NEW r, ChannelOK(r)
  PROVE  /\ IsFiniteSet(Named(channel[r]))
         /\ Cardinality(Named(channel[r])) = Len(channel[r])
<1> DEFINE k == Len(channel[r])
           f == [i \in 1..k |-> channel[r][i].name]
<1>1. k \in Nat /\ IsFiniteSet(1..k) /\ Cardinality(1..k) = k
  <2>1. k \in Nat
    BY DEF ChannelOK
  <2> HIDE DEF k
  <2> QED BY <2>1, FS_Interval
<1>2. f \in Bijection(1..k, Named(channel[r]))
  BY DEF Bijection, Injection, Surjection, IsInjective, ChannelOK, Unrepeated, Named
<1> QED
  <2> HIDE DEF f
  <2> QED BY <1>1, <1>2, FS_Bijection DEF ExistsBijection

\* A drained channel is as long as there are outputs: each has sent once.
LEMMA DrainedIsComplete ==
  ASSUME NEW r, ChannelOK(r), \A n \in Names : exporter[r][n] = "done"
  PROVE  Named(channel[r]) = Names /\ Len(channel[r]) = Cardinality(Names)
<1>1. Named(channel[r]) = Names
  BY DEF ChannelOK
<1> QED BY <1>1, ChannelLength

LEMMA PatchInvariant ==
  ASSUME ExportInvariant, NEW r \in Runs, PatchStatus(r)
  PROVE  ExportInvariant'
<1> USE DEF ExportInvariant
<1> DEFINE patched == MergePatch(obj[r], CreateRulesetSummaries(report[r]), channel[r])
<1>1. UNCHANGED <<config, exported, exporter, channel>> /\ Names' = Names
  BY DEF PatchStatus, Names
<1>2. /\ pc[r] = "patch"
      /\ \E label \in {"done", "error"} : pc' = [pc EXCEPT ![r] = label]
      /\ scan' \in {scan, patched}
  BY DEF PatchStatus, Goto
<1>3. /\ pc' \in [Runs -> Labels]
      /\ \A q \in Runs : (ChannelOK(q) /\ GoroutinesOK(q))'
  <2>1. PICK label \in {"done", "error"} : pc' = [pc EXCEPT ![r] = label]
    BY <1>2
  <2>2. label \in Labels /\ label \in Ended \cup {"wait"}
    BY DEF Labels, Ended
  <2> QED BY <1>1, <2>1, <2>2, MainStep
<1>4. /\ DOMAIN patched = DOMAIN scan
      /\ patched.outputs \in {scan.outputs, channel[r]}
  BY DEF MergePatch, Shape
<1>5. Shape'
  BY <1>1, <1>2, <1>3, <1>4 DEF Shape
<1>6. CASE scan'.outputs = scan.outputs
  BY <1>1, <1>3, <1>5, <1>6, StatusKept
<1>7. CASE scan'.outputs = channel[r]
  <2>1. Named(channel[r]) = Names /\ Len(channel[r]) = Cardinality(Names)
    BY <1>2, DrainedIsComplete DEF GoroutinesOK
  <2>2. Honest(r, scan.outputs)'
    BY <1>1, <1>7 DEF ChannelOK, Honest
  <2>3. StatusOK'
    BY <1>1, <1>7, <2>1, <2>2 DEF StatusOK, Named
  <2> QED BY <1>3, <1>5, <2>3
<1> QED BY <1>2, <1>4, <1>6, <1>7

LEMMA NextInvariant == ExportInvariant /\ [Next]_vars => ExportInvariant'
<1> SUFFICES ASSUME ExportInvariant, [Next]_vars PROVE ExportInvariant'
  OBVIOUS
<1>1. CASE UNCHANGED vars
  <2>1. /\ UNCHANGED <<config, scan, exported, pc, exporter, channel>>
        /\ Names' = Names
    BY <1>1 DEF vars, localVars, Names
  <2>2. Shape'
    BY <2>1 DEF ExportInvariant, Shape
  <2>3. \A r \in Runs : (ChannelOK(r) /\ GoroutinesOK(r))'
    BY <2>1, RunKept, GoroutinesKept DEF ExportInvariant
  <2>4. StatusOK'
    BY <2>1, StatusKept DEF ExportInvariant
  <2> QED BY <2>2, <2>3, <2>4 DEF ExportInvariant
<1>2. CASE ScanChanges
  BY <1>2, ScanChangesInvariant
<1>3. ASSUME NEW r \in Runs, MainGoroutine(r) \/ Die(r)
      PROVE  ExportInvariant'
  BY <1>3, MainInvariant, StartInvariant, PatchInvariant DEF MainGoroutine
<1>4. ASSUME NEW r \in Runs, NEW n \in Names, Goroutine(r, n)
      PROVE  ExportInvariant'
  BY <1>4, ExportOutputInvariant, SendStatusInvariant DEF Goroutine
<1> QED BY <1>1, <1>2, <1>3, <1>4 DEF Next

LEMMA InvariantHolds == Spec => []ExportInvariant
BY InitInvariant, NextInvariant, PTL DEF Spec

-----------------------------------------------------------------------------
(* The theorems. *)

(***************************************************************************)
(* However the runs overlap, fail and die, the outputs of a scan's status   *)
(* are none or one result for each configured output, of one run (Export).  *)
(***************************************************************************)
THEOREM OutputsCompleteHolds == Spec => []OutputsComplete
<1>1. ExportInvariant => OutputsComplete
  BY DEF ExportInvariant, StatusOK, OutputsComplete, Named, Honest
<1> QED BY <1>1, InvariantHolds, PTL

(***************************************************************************)
(* Whatever the status calls Completed, the run that says so has exported.  *)
(***************************************************************************)
THEOREM CompletedOutputsExistHolds == Spec => []CompletedOutputsExist
<1>1. ExportInvariant => CompletedOutputsExist
  <2> SUFFICES ASSUME ExportInvariant,
                      NEW i \in 1..Len(scan.outputs),
                      scan.outputs[i].phase = "Completed"
               PROVE  \E r \in scan.outputs[i].details :
                        <<r, scan.outputs[i].name>> \in exported
    BY DEF CompletedOutputsExist
  <2>1. scan.outputs # << >>
    OBVIOUS
  <2>2. PICK r \in Runs : Honest(r, scan.outputs)
    BY <2>1 DEF ExportInvariant, StatusOK
  <2> QED BY <2>2 DEF Honest
<1> QED BY <1>1, InvariantHolds, PTL

-----------------------------------------------------------------------------
(* The summary of a report, and with it the types of the whole state.       *)

LEMMA RulesetSummaryValue ==
  ASSUME NEW ruleset \in Seq(Seq(Statuses))
  PROVE  /\ RulesetSummary(ruleset) \in Summaries
         /\ \A status \in {"Failed", "Errored", "Warning"} :
              RulesetSummary(ruleset).summary[status] =
                Len(RulesetSummary(ruleset).rules[status])
<1> DEFINE With(status) == {i \in 1..Len(ruleset) : HasStatus(ruleset[i], status)}
           positions == [i \in 1..Len(ruleset) |-> i]
<1>1. PICK n \in Nat : n = Len(ruleset)
  OBVIOUS
<1>2. positions \in Seq(Nat) /\ Len(positions) = n
  <2>1. positions = [i \in 1..n |-> i]
    BY <1>1
  <2> QED BY <1>1, <2>1
<1>3. ASSUME NEW status
      PROVE  /\ NumOfRulesWithStatus(ruleset, status) = Cardinality(With(status))
             /\ Cardinality(With(status)) \in Nat
             /\ Findings(ruleset, status) \in Seq(Nat)
             /\ Len(Findings(ruleset, status)) = Cardinality(With(status))
  <2>1. With(status) \subseteq 1..n /\ IsFiniteSet(1..n)
    BY <1>1, FS_Interval
  <2>2. Cardinality(With(status)) \in Nat
    <3> HIDE DEF With
    <3> QED BY <2>1, FS_Subset, FS_CardinalityType
  <2>3. Findings(ruleset, status) = Filtered(positions, With(status))
    BY DEF Findings
  <2>4. Kept(With(status), n) = With(status)
    <3> HIDE DEF With
    <3> QED BY <2>1 DEF Kept
  <2>5. /\ Filtered(positions, With(status)) \in Seq(Nat)
        /\ Len(Filtered(positions, With(status)))
             = Cardinality(Kept(With(status), Len(positions)))
    <3> HIDE DEF With, positions
    <3> QED BY <1>2, FilteredPicks
  <2>6. NumOfRulesWithStatus(ruleset, status) = Cardinality(With(status))
    BY DEF NumOfRulesWithStatus
  <2> HIDE DEF With, positions
  <2> QED BY <1>2, <2>2, <2>3, <2>4, <2>5, <2>6
<1>4. /\ RulesetSummary(ruleset).summary =
           [status \in Statuses |-> NumOfRulesWithStatus(ruleset, status)]
      /\ RulesetSummary(ruleset).rules =
           [status \in {"Failed", "Errored", "Warning"} |-> Findings(ruleset, status)]
      /\ RulesetSummary(ruleset) = [summary |-> RulesetSummary(ruleset).summary,
                                    rules |-> RulesetSummary(ruleset).rules]
  BY DEF RulesetSummary
<1>5. /\ RulesetSummary(ruleset).summary \in [Statuses -> Nat]
      /\ RulesetSummary(ruleset).rules \in
           [{"Failed", "Errored", "Warning"} -> Seq(Nat)]
  BY <1>3, <1>4
<1>6. \A status \in {"Failed", "Errored", "Warning"} : status \in Statuses
  BY DEF Statuses
<1>7. RulesetSummary(ruleset) \in Summaries
  BY <1>4, <1>5, Zenon DEF Summaries
<1>8. ASSUME NEW status \in {"Failed", "Errored", "Warning"}
      PROVE  RulesetSummary(ruleset).summary[status] =
               Len(RulesetSummary(ruleset).rules[status])
  <2>1. RulesetSummary(ruleset).summary[status] = NumOfRulesWithStatus(ruleset, status)
    BY <1>4, <1>6
  <2>2. RulesetSummary(ruleset).rules[status] = Findings(ruleset, status)
    BY <1>4
  <2> QED BY <1>3, <2>1, <2>2
<1> QED BY <1>7, <1>8

\* rulesets is what some report is summarised as.
Agree(rulesets) ==
  \A i \in 1..Len(rulesets) :
    \A status \in {"Failed", "Errored", "Warning"} :
      rulesets[i].summary[status] = Len(rulesets[i].rules[status])

LEMMA SummariesOfReport ==
  ASSUME NEW rep \in Reports
  PROVE  CreateRulesetSummaries(rep) \in Seq(Summaries)
         /\ Agree(CreateRulesetSummaries(rep))
<1>1. rep \in Seq(Seq(Seq(Statuses)))
  BY InputsAssumption
<1>2. PICK n \in Nat : n = Len(rep)
  BY <1>1
<1>3. \A i \in 1..n : rep[i] \in Seq(Seq(Statuses))
  BY <1>1, <1>2
<1>4. CreateRulesetSummaries(rep) = [i \in 1..n |-> RulesetSummary(rep[i])]
  BY <1>2 DEF CreateRulesetSummaries
<1>5. CreateRulesetSummaries(rep) \in Seq(Summaries)
      /\ Len(CreateRulesetSummaries(rep)) = n
  BY <1>3, <1>4, RulesetSummaryValue
<1>6. \A i \in 1..n : CreateRulesetSummaries(rep)[i] = RulesetSummary(rep[i])
  BY <1>4
<1> QED BY <1>3, <1>5, <1>6, RulesetSummaryValue DEF Agree

LEMMA NamesFinite == config \in Configs => IsFiniteSet(Names)
<1> SUFFICES ASSUME config \in Configs PROVE IsFiniteSet(Names)
  OBVIOUS
<1>1. PICK n \in Nat : n = Len(config)
  BY InputsAssumption
<1> DEFINE nameOf == [i \in 1..n |-> config[i].name]
<1>2. IsFiniteSet(1..n)
  BY FS_Interval
<1>3. {nameOf[i] : i \in 1..n} = Names
  BY <1>1 DEF Names
<1>4. nameOf \in Surjection(1..n, Names)
  BY <1>3 DEF Surjection
<1> HIDE DEF nameOf
<1> QED BY <1>2, <1>4, FS_Surjection

LEMMA CapacityType == config \in Configs => Capacity \in Nat
BY NamesFinite, FS_CardinalityType DEF Capacity

\* The rest of TypeOK, by the variables that change together.
StatusTyped ==
  /\ config \in Configs
  /\ scan \in Scans
  /\ incarnation \in 1..MaxIncarnations
  /\ report \in [Runs -> Reports]
  /\ obj \in [Runs -> Scans]
  /\ SummariesAgree

RunsTyped ==
  /\ exported \subseteq Runs \X Names
  /\ exporter \in [Runs -> [Names -> Stages]]
  /\ pc \in [Runs -> Labels]
  /\ \A r \in Runs : /\ channel[r] \in Seq(OutputStatuses)
                     /\ Len(channel[r]) <= Capacity
  /\ faults \in 0..MaxFaults

LEMMA TypesInParts == TypeOK /\ SummariesAgree <=> StatusTyped /\ RunsTyped
<1>1. Labels = {"command", "run", "start", "prepare", "wait", "patch"} \cup Ended
  BY DEF Labels, Ended
<1> QED BY <1>1, Zenon DEF TypeOK, StatusTyped, RunsTyped, Stages

LEMMA NoScanTyped ==
  \A s \in {NoScan, NewScan} : s \in Scans /\ s.rulesets = << >>
<1> DEFINE R == Seq(Summaries)
           O == Seq(OutputStatuses)
<1>1. << >> \in R /\ << >> \in O
  OBVIOUS
<1> HIDE DEF R, O
<1>2. Scans = [phase : {"Absent", "", "Running", "Completed", "Failed"},
               rulesets : R, outputs : O]
  BY DEF Scans, R, O
<1>3. NoScan \in Scans /\ NoScan.rulesets = << >>
  BY <1>1, <1>2 DEF NoScan
<1>4. NewScan \in Scans /\ NewScan.rulesets = NoScan.rulesets
  BY <1>2, <1>3 DEF NewScan
<1> QED BY <1>3, <1>4

LEMMA InitTypes == Init => StatusTyped /\ RunsTyped
<1> SUFFICES ASSUME Init PROVE StatusTyped /\ RunsTyped
  OBVIOUS
<1> USE DEF Init
<1>1. scan \in Scans /\ NoScan \in Scans /\ scan.rulesets = << >>
  BY NoScanTyped
<1>2. SummariesAgree
  BY <1>1 DEF SummariesAgree
<1>3. StatusTyped
  BY <1>1, <1>2, BoundsAssumption DEF StatusTyped
<1>4. Capacity \in Nat
  BY CapacityType
<1>5. RunsTyped
  BY <1>4, BoundsAssumption DEF RunsTyped, Labels, Stages
<1> QED BY <1>3, <1>5

\* Steps that leave the configuration, the reports and the runs' copies alone.
LEMMA ScanStep ==
  ASSUME StatusTyped, scan' \in Scans, incarnation' \in 1..MaxIncarnations,
         UNCHANGED <<config, report, obj>>,
         \/ scan'.rulesets = scan.rulesets
         \/ Agree(scan'.rulesets)
  PROVE  StatusTyped'
<1>1. Scans' = Scans
  BY DEF Scans, OutputStatuses, Names
<1>2. Agree(scan.rulesets)
  BY DEF StatusTyped, SummariesAgree, Agree
<1>3. Agree(scan'.rulesets)
  BY <1>2
<1>4. SummariesAgree'
  BY <1>3 DEF SummariesAgree, Agree
<1> QED BY <1>1, <1>4 DEF StatusTyped

LEMMA ScanChangesTypes ==
  ASSUME StatusTyped, RunsTyped, ScanChanges
  PROVE  StatusTyped' /\ RunsTyped'
<1>1. UNCHANGED <<config, exported, report, pc, obj, exporter, channel, faults>>
  BY DEF ScanChanges, localVars
<1>2. scan \in Scans /\ incarnation \in 1..MaxIncarnations
  BY DEF StatusTyped
<1>3. incarnation' \in 1..MaxIncarnations
  <2>1. \/ incarnation' = incarnation
        \/ incarnation' = incarnation + 1 /\ incarnation < MaxIncarnations
    BY DEF ScanChanges
  <2> QED BY <1>2, <2>1, BoundsAssumption
<1>4. scan' \in Scans /\ (scan'.rulesets = scan.rulesets \/ Agree(scan'.rulesets))
  <2>1. CASE \E to \in Lifecycle!Phases : scan' = [scan EXCEPT !.phase = to]
    <3>1. PICK to \in {"", "Running", "Completed", "Failed"} :
            scan' = [scan EXCEPT !.phase = to]
      BY <2>1 DEF Lifecycle!Phases
    <3> QED BY <1>2, <3>1 DEF Scans
  <2>2. CASE scan' \in {NoScan, NewScan}
    BY <2>2, NoScanTyped DEF Agree
  <2> QED BY <2>1, <2>2 DEF ScanChanges
<1>5. StatusTyped'
  BY <1>1, <1>3, <1>4, ScanStep
<1>6. RunsTyped'
  BY <1>1 DEF RunsTyped, OutputStatuses, Names, Capacity
<1> QED BY <1>5, <1>6

LEMMA FaultTyped ==
  ASSUME faults \in 0..MaxFaults, Fault \/ UNCHANGED faults
  PROVE  faults' \in 0..MaxFaults
BY BoundsAssumption DEF Fault

\* A step that changes no type but those of pc, exporter and faults.
LEMMA RunStep ==
  ASSUME RunsTyped, config' = config, channel' = channel,
         exported' \subseteq Runs \X Names,
         exporter' \in [Runs -> [Names -> Stages]],
         pc' \in [Runs -> Labels],
         Fault \/ UNCHANGED faults
  PROVE  RunsTyped'
<1>1. Names' = Names
  BY DEF Names
<1>2. OutputStatuses' = OutputStatuses /\ Capacity' = Capacity
  BY <1>1 DEF OutputStatuses, Capacity
<1>3. faults' \in 0..MaxFaults
  BY FaultTyped DEF RunsTyped
<1> QED BY <1>1, <1>2, <1>3 DEF RunsTyped

LEMMA MainTypes ==
  ASSUME StatusTyped, RunsTyped, NEW r \in Runs,
         Complete(r) \/ Run(r) \/ Get(r) \/ StartExports(r) \/ Wait(r) \/ Die(r)
  PROVE  StatusTyped' /\ RunsTyped'
<1>1. /\ UNCHANGED <<config, scan, incarnation, exported, report, channel>>
      /\ Fault \/ UNCHANGED faults
  BY DEF Complete, Run, Get, StartExports, Wait, Die
<1>2. \E label \in Labels : pc' = [pc EXCEPT ![r] = label]
  BY DEF Complete, Run, Get, StartExports, Wait, Die, Goto, Labels
<1>3. pc' \in [Runs -> Labels]
  BY <1>2 DEF RunsTyped
<1>4. obj' = obj \/ obj' = [obj EXCEPT ![r] = scan]
  BY DEF Complete, Run, Get, StartExports, Wait, Die
<1>5. exporter' = exporter \/ exporter' = [exporter EXCEPT ![r] = [n \in Names |-> "exporting"]]
  BY DEF Complete, Run, Get, StartExports, Wait, Die
<1>6. exporter' \in [Runs -> [Names -> Stages]]
  BY <1>5 DEF RunsTyped, Stages
<1>7. RunsTyped'
  BY <1>1, <1>3, <1>6, RunStep DEF RunsTyped
<1>8. StatusTyped'
  <2>1. Scans' = Scans
    BY <1>1 DEF Scans, OutputStatuses, Names
  <2>2. obj' \in [Runs -> Scans]
    BY <1>4 DEF StatusTyped
  <2>3. SummariesAgree'
    BY <1>1 DEF StatusTyped, SummariesAgree
  <2> QED BY <1>1, <2>1, <2>2, <2>3 DEF StatusTyped
<1> QED BY <1>7, <1>8

LEMMA ExportOutputTypes ==
  ASSUME StatusTyped, RunsTyped, NEW r \in Runs, NEW n \in Names, ExportOutput(r, n)
  PROVE  StatusTyped' /\ RunsTyped'
<1>1. /\ UNCHANGED <<config, scan, incarnation, report, pc, obj, channel>>
      /\ Fault \/ UNCHANGED faults
      /\ exported' = exported \/ exported' = exported \cup {<<r, n>>}
  BY DEF ExportOutput
<1>2. \E result \in {"Completed", "Failed"} :
        exporter' = [exporter EXCEPT ![r][n] = result]
  BY DEF ExportOutput
<1>3. exporter' \in [Runs -> [Names -> Stages]]
  BY <1>2 DEF RunsTyped, Stages
<1>4. RunsTyped'
  BY <1>1, <1>3, RunStep DEF RunsTyped
<1> QED BY <1>1, <1>4, ScanStep DEF StatusTyped

LEMMA SendStatusTypes ==
  ASSUME StatusTyped, RunsTyped, DOMAIN channel = Runs,
         NEW r \in Runs, NEW n \in Names, SendStatus(r, n)
  PROVE  StatusTyped' /\ RunsTyped'
<1> DEFINE sent == OutputStatus(r, n, exporter[r][n])
<1>1. /\ UNCHANGED <<config, scan, incarnation, exported, report, pc, obj, faults>>
      /\ Len(channel[r]) < Capacity
      /\ exporter[r][n] \in {"Completed", "Failed"}
      /\ channel' = [channel EXCEPT ![r] = Append(channel[r], sent)]
      /\ exporter' = [exporter EXCEPT ![r][n] = "done"]
  BY DEF SendStatus, SendPhase
<1>2. sent \in OutputStatuses
  BY <1>1 DEF OutputStatus, OutputStatuses, Details
<1>3. Capacity \in Nat
  BY CapacityType DEF StatusTyped
<1>4. channel[r] \in Seq(OutputStatuses)
  BY DEF RunsTyped
<1> HIDE DEF sent
<1>5. /\ Append(channel[r], sent) \in Seq(OutputStatuses)
      /\ Len(Append(channel[r], sent)) <= Capacity
  BY <1>1, <1>2, <1>3, <1>4
<1>6. \A q \in Runs : /\ channel'[q] \in Seq(OutputStatuses)
                      /\ Len(channel'[q]) <= Capacity
  BY <1>1, <1>5 DEF RunsTyped
<1>7. Names' = Names
  BY <1>1 DEF Names
<1>8. OutputStatuses' = OutputStatuses /\ Capacity' = Capacity
  BY <1>7 DEF OutputStatuses, Capacity
<1>9. exporter' \in [Runs -> [Names -> Stages]]
  BY <1>1 DEF RunsTyped, Stages
<1>10. RunsTyped'
  BY <1>1, <1>6, <1>7, <1>8, <1>9 DEF RunsTyped
<1> QED BY <1>1, <1>10, ScanStep DEF StatusTyped

LEMMA PatchTypes ==
  ASSUME StatusTyped, RunsTyped, NEW r \in Runs, PatchStatus(r)
  PROVE  StatusTyped' /\ RunsTyped'
<1> DEFINE rulesets == CreateRulesetSummaries(report[r])
<1>1. /\ UNCHANGED <<config, incarnation, exported, report, obj, exporter, channel>>
      /\ Fault \/ UNCHANGED faults
      /\ scan' \in {scan, MergePatch(obj[r], rulesets, channel[r])}
  BY DEF PatchStatus
<1>2. \E label \in {"done", "error"} : pc' = [pc EXCEPT ![r] = label]
  BY DEF PatchStatus, Goto
<1>3. pc' \in [Runs -> Labels]
  BY <1>2 DEF RunsTyped, Labels
<1>4. RunsTyped'
  BY <1>1, <1>3, RunStep DEF RunsTyped
<1>5. rulesets \in Seq(Summaries) /\ Agree(rulesets)
  BY SummariesOfReport DEF StatusTyped
<1>6. channel[r] \in Seq(OutputStatuses) /\ scan \in Scans
  BY DEF RunsTyped, StatusTyped
<1> HIDE DEF rulesets
<1>7. CASE scan' = MergePatch(obj[r], rulesets, channel[r])
  <2>1. scan' \in Scans /\ scan'.rulesets \in {scan.rulesets, rulesets}
    BY <1>5, <1>6, <1>7 DEF MergePatch, Scans
  <2> QED BY <1>1, <1>4, <1>5, <2>1, ScanStep DEF StatusTyped
<1>8. CASE scan' = scan
  BY <1>1, <1>4, <1>8, ScanStep DEF StatusTyped
<1> QED BY <1>1, <1>7, <1>8

LEMMA NextTypes ==
  ExportInvariant /\ StatusTyped /\ RunsTyped /\ [Next]_vars
    => StatusTyped' /\ RunsTyped'
<1> SUFFICES ASSUME ExportInvariant, StatusTyped, RunsTyped, [Next]_vars
             PROVE  StatusTyped' /\ RunsTyped'
  OBVIOUS
<1>1. CASE UNCHANGED vars
  <2>1. RunsTyped'
    BY <1>1, RunStep DEF vars, localVars, RunsTyped
  <2> QED BY <1>1, <2>1, ScanStep DEF vars, localVars, StatusTyped
<1>2. CASE ScanChanges
  BY <1>2, ScanChangesTypes
<1>3. ASSUME NEW r \in Runs, MainGoroutine(r) \/ Die(r)
      PROVE  StatusTyped' /\ RunsTyped'
  BY <1>3, MainTypes, PatchTypes DEF MainGoroutine
<1>4. ASSUME NEW r \in Runs, NEW n \in Names, Goroutine(r, n)
      PROVE  StatusTyped' /\ RunsTyped'
  BY <1>4, ExportOutputTypes, SendStatusTypes DEF Goroutine, ExportInvariant, Shape
<1> QED BY <1>1, <1>2, <1>3, <1>4 DEF Next

LEMMA TypesHold == Spec => [](StatusTyped /\ RunsTyped)
BY InitTypes, NextTypes, InvariantHolds, PTL DEF Spec

(***************************************************************************)
(* Every variable has its type, and a channel holds at most one status for  *)
(* each output (Export).                                                    *)
(***************************************************************************)
THEOREM ExporterTypeOK == Spec => []TypeOK
BY TypesInParts, TypesHold, PTL

(***************************************************************************)
(* For every report, whatever its length: the counts and the listings of a  *)
(* ruleset's summary, computed by two loops, agree (rulesetSummaryCount,    *)
(* getRulesetFindingsByStatus), and no interleaving of patches mixes them.  *)
(***************************************************************************)
THEOREM SummariesAgreeHolds == Spec => []SummariesAgree
<1>1. StatusTyped => SummariesAgree
  BY DEF StatusTyped
<1> QED BY <1>1, TypesHold, PTL

(***************************************************************************)
(* A goroutine never waits for room in the channel, which the main          *)
(* goroutine drains only when all of them are done: with any outputs, also  *)
(* when names repeat in the configuration (Export).                         *)
(***************************************************************************)
THEOREM SendsNeverBlockHolds == Spec => []SendsNeverBlock
<1>1. ExportInvariant /\ StatusTyped => SendsNeverBlock
  <2> SUFFICES ASSUME ExportInvariant, StatusTyped,
                      NEW r \in Runs, NEW n \in Names,
                      exporter[r][n] \in {"Completed", "Failed"}
               PROVE  Len(channel[r]) < Capacity
    BY DEF SendsNeverBlock
  <2>1. ChannelOK(r)
    BY DEF ExportInvariant
  <2>2. Cardinality(Named(channel[r])) = Len(channel[r])
    BY <2>1, ChannelLength
  <2>3. Named(channel[r]) \subseteq Names /\ Named(channel[r]) # Names
    BY <2>1 DEF ChannelOK
  <2>4. IsFiniteSet(Names)
    BY NamesFinite DEF StatusTyped
  <2>5. /\ Cardinality(Named(channel[r])) <= Cardinality(Names)
        /\ Cardinality(Named(channel[r])) # Cardinality(Names)
    BY <2>3, <2>4, FS_Subset
  <2>6. Cardinality(Names) \in Nat /\ Len(channel[r]) \in Nat
    BY <2>1, <2>4, FS_CardinalityType DEF ChannelOK
  <2> QED BY <2>2, <2>5, <2>6 DEF Capacity
<1> QED BY <1>1, InvariantHolds, TypesHold, PTL
=============================================================================
