-------------------------- MODULE ScanOptionsProofs --------------------------
(***************************************************************************)
(* The options of a scan, from the webhook into the diki configuration, for *)
(* any specs, ConfigMaps and changes.                                       *)
(***************************************************************************)
EXTENDS ScanOptions, FilterProofs, TLAPS

-----------------------------------------------------------------------------
(* What the lists of references hold. *)

Elements(seq) == {seq[i] : i \in 1..Len(seq)}

\* Filtered keeps the elements at the positions given, and their types.
LEMMA FilteredElements ==
  ASSUME NEW S, NEW seq \in Seq(S), NEW keep \in SUBSET (1..Len(seq))
  PROVE  /\ Filtered(seq, keep) \in Seq(S)
         /\ Elements(Filtered(seq, keep)) = {seq[i] : i \in keep}
<1> DEFINE out == Filtered(seq, keep)
<1>1. Kept(keep, Len(seq)) = keep
  BY DEF Kept
<1>2. out \in Seq(S) /\ Picks(out, seq, keep)
  BY <1>1, FilteredPicks
<1> HIDE DEF out
<1>3. PICK at \in [1..Len(out) -> keep] :
        /\ \A j \in 1..Len(out) : out[j] = seq[at[j]]
        /\ \A k \in keep : \E j \in 1..Len(out) : at[j] = k
  BY <1>2 DEF Picks
<1>4. Elements(out) = {seq[i] : i \in keep}
  <2>1. \A j \in 1..Len(out) : out[j] \in {seq[i] : i \in keep}
    BY <1>3
  <2>2. \A k \in keep : \E j \in 1..Len(out) : out[j] = seq[k]
    BY <1>3
  <2> QED BY <2>1, <2>2 DEF Elements
<1> QED BY <1>2, <1>4 DEF out

\* A list of rulesets whose options name ConfigMaps, as SpecsAssumption has it.
ASpec(spec) ==
  /\ Len(spec) \in Nat
  /\ \A i \in 1..Len(spec) : /\ DOMAIN spec[i].options \subseteq OptionKinds
                             /\ \A k \in DOMAIN spec[i].options :
                                  spec[i].options[k].configMap \in ConfigMaps

LEMMA SpecsAreSequences == \A spec \in Specs \cup {<< >>} : ASpec(spec)
<1>1. ASSUME NEW spec \in Specs
      PROVE  ASpec(spec)
  <2>1. Len(spec) \in Nat /\ DOMAIN spec = 1..Len(spec)
    BY SpecsAssumption
  <2> QED BY <2>1, SpecsAssumption DEF ASpec
<1>2. ASpec(<< >>)
  BY DEF ASpec
<1> QED BY <1>1, <1>2

\* The options that a spec gives, by their place in it.
Given(spec) == {r \in [at : 1..Len(spec), kind : OptionKinds] :
                  r.kind \in DOMAIN spec[r.at].options}

\* References lists exactly these, whichever kind comes first.
LEMMA ReferencesAreGiven ==
  ASSUME NEW spec, ASpec(spec),
         NEW kinds \in {<<"ruleset", "rules">>, <<"rules", "ruleset">>}
  PROVE  /\ References(spec, kinds) \in Seq(Given(spec))
         /\ Elements(References(spec, kinds)) = Given(spec)
<1> DEFINE n == Len(spec)
           all == [i \in 1..2 * n |-> [at |-> (i + 1) \div 2, kind |-> kinds[2 - (i % 2)]]]
           keep == {i \in 1..2 * n : all[i].kind \in DOMAIN spec[all[i].at].options}
           P == [at : 1..n, kind : OptionKinds]
<1>1. n \in Nat
  BY DEF ASpec
<1>2. References(spec, kinds) = Filtered(all, keep)
  BY DEF References
<1>3. \A i \in 1..2 * n : all[i] = [at |-> (i + 1) \div 2, kind |-> kinds[2 - (i % 2)]]
  OBVIOUS
<1>4. ASSUME NEW i \in 1..2 * n
      PROVE  (i + 1) \div 2 \in 1..n /\ kinds[2 - (i % 2)] \in OptionKinds
  <2>1. (i + 1) \div 2 \in 1..n
    BY <1>1
  <2>2. 2 - (i % 2) \in {1, 2}
    BY <1>1
  <2>3. kinds[1] \in OptionKinds /\ kinds[2] \in OptionKinds
    BY DEF OptionKinds
  <2> HIDE DEF n
  <2> QED BY <2>1, <2>2, <2>3
<1>5. all \in Seq(P) /\ Len(all) = 2 * n
  <2>1. all \in [1..2 * n -> P]
    BY <1>4
  <2> HIDE DEF all, P
  <2> QED BY <1>1, <2>1
<1>6. ASSUME NEW a \in 1..n, NEW k \in OptionKinds
      PROVE  \E i \in 1..2 * n : all[i] = [at |-> a, kind |-> k]
  <2>1. PICK j \in {1, 2} : kinds[j] = k
    BY DEF OptionKinds
  <2>2. CASE j = 1
    <3>1. /\ 2 * a - 1 \in 1..2 * n /\ (2 * a - 1 + 1) \div 2 = a
          /\ 2 - ((2 * a - 1) % 2) = 1
      BY <1>1
    <3> HIDE DEF all
    <3> QED BY <1>3, <2>1, <2>2, <3>1
  <2>3. CASE j = 2
    <3>1. /\ 2 * a \in 1..2 * n /\ (2 * a + 1) \div 2 = a
          /\ 2 - ((2 * a) % 2) = 2
      BY <1>1
    <3> HIDE DEF all
    <3> QED BY <1>3, <2>1, <2>3, <3>1
  <2> QED BY <2>2, <2>3
<1>7. {all[i] : i \in keep} = Given(spec)
  <2>1. ASSUME NEW i \in keep PROVE all[i] \in Given(spec)
    <3>1. i \in 1..2 * n /\ all[i].kind \in DOMAIN spec[all[i].at].options
      OBVIOUS
    <3>2. all[i] \in P
      BY <1>3, <1>4, <3>1
    <3> HIDE DEF all
    <3> QED BY <3>1, <3>2 DEF Given
  <2>2. ASSUME NEW r \in Given(spec) PROVE \E i \in keep : all[i] = r
    <3>1. /\ r.at \in 1..n /\ r.kind \in OptionKinds /\ r = [at |-> r.at, kind |-> r.kind]
          /\ r.kind \in DOMAIN spec[r.at].options
      BY DEF Given
    <3>2. PICK i \in 1..2 * n : all[i] = r
      BY <1>6, <3>1
    <3>3. i \in keep
      BY <3>1, <3>2
    <3> QED BY <3>2, <3>3
  <2> HIDE DEF all, keep
  <2> QED BY <2>1, <2>2
<1>8. keep \in SUBSET (1..2 * n)
  OBVIOUS
<1> HIDE DEF all, keep, P, n
<1>9. Elements(Filtered(all, keep)) = Given(spec) /\ Filtered(all, keep) \in Seq(P)
  BY <1>5, <1>7, <1>8, FilteredElements
<1>10. Filtered(all, keep) \in Seq(Given(spec))
  BY <1>9 DEF Elements
<1> QED BY <1>2, <1>9, <1>10

\* deployDikiConfigMap reads what is given for a supported ruleset.
LEMMA NeededAreGiven ==
  ASSUME NEW spec, ASpec(spec)
  PROVE  /\ Needed(spec) \in Seq(Given(spec))
         /\ Elements(Needed(spec)) = {r \in Given(spec) :
                                        spec[r.at].id \in SupportedRulesets}
<1> DEFINE given == References(spec, <<"rules", "ruleset">>)
           keep == {i \in DOMAIN given : spec[given[i].at].id \in SupportedRulesets}
<1>1. given \in Seq(Given(spec)) /\ Elements(given) = Given(spec)
  BY ReferencesAreGiven
<1>2. Needed(spec) = Filtered(given, keep)
  BY DEF Needed
<1> HIDE DEF given
<1>3. DOMAIN given = 1..Len(given)
  BY <1>1
<1>4. keep \in SUBSET (1..Len(given))
  BY <1>3
<1>5. {given[i] : i \in keep} = {r \in Elements(given) :
                                   spec[r.at].id \in SupportedRulesets}
  BY <1>3 DEF Elements
<1> HIDE DEF keep
<1>6. /\ Filtered(given, keep) \in Seq(Given(spec))
      /\ Elements(Filtered(given, keep)) = {given[i] : i \in keep}
  BY <1>1, <1>4, FilteredElements
<1> QED BY <1>1, <1>2, <1>5, <1>6

\* Both sides of the project name the same key for the same reference.
LEMMA KeysAgree ==
  ASSUME NEW spec, NEW r \in Given(spec)
  PROVE  WebhookKey(spec, r) = OptionsKey(spec, r)
<1>1. r.kind \in {"ruleset", "rules"}
  BY DEF Given, OptionKinds
<1> QED BY <1>1, Zenon DEF WebhookKey, OptionsKey

\* What is read through a reference.
OptionOf(spec, r) == [id |-> spec[r.at].id, kind |-> r.kind,
                      configMap |-> Reference(spec, r).configMap,
                      key |-> OptionsKey(spec, r)]

RequestedKey(spec, r) ==
  IF spec[r.at].options[r.kind].key # << >> THEN spec[r.at].options[r.kind].key
  ELSE DefaultKey(spec[r.at].id, r.kind)

\* The options are what was read through the first references needed.
ReadSoFar(opts, spec) ==
  /\ Len(opts) \in 0..Len(Needed(spec))
  /\ \A i \in 1..Len(opts) : opts[i] = OptionOf(spec, Needed(spec)[i])

(***************************************************************************)
(* The configuration made of all options that deployDikiConfigMap reads is  *)
(* the one that the user asks for, in whatever order they are read.         *)
(***************************************************************************)
LEMMA AllReadIsRequested ==
  ASSUME NEW spec, ASpec(spec), NEW opts, ReadSoFar(opts, spec),
         Len(opts) = Len(Needed(spec))
  PROVE  DikiConfig(spec, opts) = Requested(spec)
<1> DEFINE n == Len(Needed(spec))
           asked == {p \in [at : 1..Len(spec), kind : OptionKinds] :
                       /\ spec[p.at].id \in SupportedRulesets
                       /\ p.kind \in DOMAIN spec[p.at].options}
<1>1. asked = Elements(Needed(spec))
  BY NeededAreGiven DEF Given
<1>2. \A r \in asked : OptionsKey(spec, r) = RequestedKey(spec, r)
  <2> SUFFICES ASSUME NEW r \in asked
               PROVE  OptionsKey(spec, r) = RequestedKey(spec, r)
    OBVIOUS
  <2>1. r.kind \in {"ruleset", "rules"}
    BY DEF OptionKinds
  <2> HIDE DEF asked
  <2>2. CASE r.kind = "ruleset"
    BY <2>2, Zenon DEF OptionsKey, RequestedKey, Key, Reference, DefaultKey
  <2>3. CASE r.kind = "rules"
    <3>1. "rules" # "ruleset"
      OBVIOUS
    <3> QED BY <2>3, <3>1, Zenon
            DEF OptionsKey, RequestedKey, Key, Reference, DefaultKey, RuleOptionsSuffix
  <2> QED BY <2>1, <2>2, <2>3
<1>3. {opts[i] : i \in 1..Len(opts)} = {OptionOf(spec, r) : r \in Elements(Needed(spec))}
  BY DEF ReadSoFar, Elements
<1>4. {OptionOf(spec, r) : r \in asked} =
        {[id |-> spec[r.at].id, kind |-> r.kind,
          configMap |-> spec[r.at].options[r.kind].configMap,
          key |-> RequestedKey(spec, r)] : r \in asked}
  <2>1. \A r \in asked : OptionOf(spec, r) =
          [id |-> spec[r.at].id, kind |-> r.kind,
           configMap |-> spec[r.at].options[r.kind].configMap,
           key |-> RequestedKey(spec, r)]
    BY <1>2 DEF OptionOf, Reference
  <2> HIDE DEF asked
  <2> QED BY <2>1
<1>5. Requested(spec) = [rulesets |-> SupportedOf(spec),
                         options |-> {[id |-> spec[r.at].id, kind |-> r.kind,
                                       configMap |-> spec[r.at].options[r.kind].configMap,
                                       key |-> RequestedKey(spec, r)] : r \in asked}]
  BY Zenon DEF Requested, RequestedKey
<1> HIDE DEF asked
<1> QED BY <1>1, <1>3, <1>4, <1>5 DEF DikiConfig

-----------------------------------------------------------------------------
(* Webhook, options and controller together implement the controller. *)

Counters == /\ faults \in Nat /\ mishaps \in Nat /\ optionFailures \in Nat
            /\ faults + mishaps <= MaxFaults
            /\ optionFailures <= MaxOptionFailures

\* What a failing call of this module is in the controller alone.
LEMMA FaultMapped ==
  ASSUME Counters, NEW kind, Fault(kind), optionFailures' = optionFailures
  PROVE  Controller!Fault(kind)
<1>1. /\ kind \in FaultKinds \cup {"options"} /\ faults' = faults + 1
      /\ faults < MaxFaults
  BY DEF Fault
<1>2. /\ faults + optionFailures < MaxFaults + MaxOptionFailures
      /\ faults' + optionFailures' = (faults + optionFailures) + 1
  BY <1>1, BoundsAssumption, OptionsBoundAssumption DEF Counters
<1> QED BY <1>1, <1>2 DEF Controller!Fault

LEMMA ServerStepsMapped ==
  ASSUME NEW s, optionFailures' = optionFailures
  PROVE  /\ CreateScan(s) => Controller!CreateScan(s)
         /\ DeleteScan(s) => Controller!DeleteScan(s)
         /\ Deliver(s) => Controller!Deliver(s)
         /\ Dequeue(s) => Controller!Dequeue(s)
<1>1. NoScan = Controller!NoScan /\ \A u : NewScan(u) = Controller!NewScan(u)
  BY DEF NoScan, NewScan, Controller!NoScan, Controller!NewScan
<1>2. CreateScan(s) => Controller!CreateScan(s)
  BY <1>1 DEF CreateScan, Controller!CreateScan, Store, Controller!Store, workerVars,
     Controller!workerVars
<1>3. DeleteScan(s) => Controller!DeleteScan(s)
  BY <1>1 DEF DeleteScan, Controller!DeleteScan, Store, Controller!Store, workerVars,
     Controller!workerVars
<1>4. Deliver(s) => Controller!Deliver(s)
  BY <1>1 DEF Deliver, Controller!Deliver, Predicate, Controller!Predicate, workerVars,
     Controller!workerVars
<1>5. Dequeue(s) => Controller!Dequeue(s)
  <2>1. \A S : Cardinality(S) = Controller!Cardinality(S)
    BY DEF Cardinality, Controller!Cardinality
  <2> QED BY <2>1 DEF Dequeue, Controller!Dequeue, serverVars, Controller!serverVars
<1> QED BY <1>2, <1>3, <1>4, <1>5

LEMMA SameHelpers ==
  /\ NoScan = Controller!NoScan
  /\ \A o : /\ RunningStatus(o) = Controller!RunningStatus(o)
            /\ CompletedStatus(o) = Controller!CompletedStatus(o)
            /\ FailedStatus(o) = Controller!FailedStatus(o)
            /\ AlreadyProcessed(o) <=> Controller!AlreadyProcessed(o)
  /\ \A s, o : Merged(s, o) = Controller!Merged(s, o)
<1>1. NoScan = Controller!NoScan
  BY DEF NoScan, NewScan, Controller!NoScan, Controller!NewScan
<1>2. \A c, t, x : UpdateConditions(c, t, x) = Controller!UpdateConditions(c, t, x)
  BY DEF UpdateConditions, Controller!UpdateConditions, Build, Controller!Build
<1>3. \A o : /\ RunningStatus(o) = Controller!RunningStatus(o)
             /\ CompletedStatus(o) = Controller!CompletedStatus(o)
             /\ FailedStatus(o) = Controller!FailedStatus(o)
             /\ AlreadyProcessed(o) <=> Controller!AlreadyProcessed(o)
  BY <1>2 DEF RunningStatus, Controller!RunningStatus, CompletedStatus,
     Controller!CompletedStatus, FailedStatus, Controller!FailedStatus,
     AlreadyProcessed, Controller!AlreadyProcessed
<1>4. \A s, o : Merged(s, o) = Controller!Merged(s, o)
  BY DEF Merged, Controller!Merged, MergePatch, Controller!MergePatch
<1> QED BY <1>1, <1>3, <1>4

LEMMA WorkerStepsMapped ==
  ASSUME Counters, optionFailures' = optionFailures, NEW s
  PROVE  /\ ReconcileGet(s) => Controller!ReconcileGet(s)
         /\ PatchRunning(s) => Controller!PatchRunning(s)
         /\ DeployDikiConfigMap(s) => Controller!DeployDikiConfigMap(s)
         /\ PatchCompleted(s) => Controller!PatchCompleted(s)
         /\ HandleFailedScan(s) => Controller!HandleFailedScan(s)
<1>1. \A kind : Fault(kind) => Controller!Fault(kind)
  BY FaultMapped
<1>2. /\ CallRejected(s) => Controller!CallRejected(s)
      /\ CallLost(s) => Controller!CallLost(s)
  BY <1>1 DEF CallRejected, Controller!CallRejected, CallLost, Controller!CallLost
<1>3. /\ \A label : Goto(s, label) => Controller!Goto(s, label)
      /\ \A err : Return(s, err) => Controller!Return(s, err)
  BY SameHelpers DEF Goto, Controller!Goto, Return, Controller!Return
<1>4. \A new : /\ PatchOk(s, new) => Controller!PatchOk(s, new)
               /\ PatchFails(s, new) => Controller!PatchFails(s, new)
  BY <1>2, SameHelpers DEF PatchOk, Controller!PatchOk, PatchFails,
     Controller!PatchFails, Store, Controller!Store
<1>5. ReconcileGet(s) => Controller!ReconcileGet(s)
  BY <1>1, <1>3, SameHelpers DEF ReconcileGet, Controller!ReconcileGet, serverVars,
     Controller!serverVars
<1>6. PatchRunning(s) => Controller!PatchRunning(s)
  BY <1>3, <1>4, SameHelpers DEF PatchRunning, Controller!PatchRunning
<1>7. DeployDikiConfigMap(s) => Controller!DeployDikiConfigMap(s)
  BY <1>1, <1>2, <1>3 DEF DeployDikiConfigMap, Controller!DeployDikiConfigMap,
     CreateConfigMap, Controller!CreateConfigMap, serverVars, Controller!serverVars
<1>8. PatchCompleted(s) => Controller!PatchCompleted(s)
  BY <1>3, <1>4, SameHelpers DEF PatchCompleted, Controller!PatchCompleted
<1>9. HandleFailedScan(s) => Controller!HandleFailedScan(s)
  BY <1>3, <1>4, SameHelpers DEF HandleFailedScan, Controller!HandleFailedScan
<1> QED BY <1>5, <1>6, <1>7, <1>8, <1>9

\* Reading an option is no step of the controller, failing at it is its fault.
LEMMA GetOptionsMapped ==
  ASSUME Counters, Counters', NEW s, GetOptions(s)
  PROVE  Controller!DeployDikiConfigMap(s) \/ UNCHANGED Controller!vars
<1>1. pc[s] = "deploy"
  BY DEF GetOptions
<1>2. CASE UNCHANGED vars /\ UNCHANGED optionFailures
  BY <1>2 DEF vars, Controller!vars
<1>3. CASE /\ Fail(s) /\ optionFailures' = optionFailures + 1
           /\ UNCHANGED <<serverVars, configMaps, cache, obj, faults, restarts>>
  <2>1. /\ faults + optionFailures < MaxFaults + MaxOptionFailures
        /\ faults' + optionFailures' = (faults + optionFailures) + 1
    BY <1>3, BoundsAssumption, OptionsBoundAssumption DEF Counters
  <2>2. Controller!Fault("options")
    BY <2>1 DEF Controller!Fault
  <2>3. Controller!Goto(s, "failed")
    BY <1>3 DEF Fail, Goto, Controller!Goto
  <2> QED BY <1>1, <1>3, <2>2, <2>3 DEF Controller!DeployDikiConfigMap, serverVars,
             Controller!serverVars
<1>4. CASE /\ Fault("rejected") /\ Fail(s) /\ UNCHANGED optionFailures
           /\ UNCHANGED <<serverVars, configMaps, cache, obj, restarts>>
  <2>1. Controller!Fault("options")
    BY <1>4, FaultMapped DEF Controller!Fault
  <2>2. Controller!Goto(s, "failed")
    BY <1>4 DEF Fail, Goto, Controller!Goto
  <2> QED BY <1>1, <1>4, <2>1, <2>2 DEF Controller!DeployDikiConfigMap, serverVars,
             Controller!serverVars
<1> QED BY <1>2, <1>3, <1>4 DEF GetOptions

LEMMA CountersHold == OptionsSpec => []Counters
<1>1. OptionsInit => Counters
  <2> SUFFICES ASSUME OptionsInit PROVE Counters
    OBVIOUS
  <2>1. IsFiniteSet({m \in ConfigMaps : Broken(options[m])})
    BY FewConfigMaps, FS_Subset
  <2>2. mishaps \in Nat /\ mishaps <= MaxFaults
    BY <2>1, FS_CardinalityType DEF OptionsInit
  <2> QED BY <2>2, BoundsAssumption, OptionsBoundAssumption DEF OptionsInit, Init, Counters
<1>2. Counters /\ [OptionsNext]_allVars => Counters'
  <2> SUFFICES ASSUME Counters, [OptionsNext]_allVars
               PROVE  Counters'
    OBVIOUS
  <2>1. CASE UNCHANGED allVars
    BY <2>1 DEF allVars, vars, optionVars, Counters
  <2>2. CASE OptionsNext
    <3>1. faults' \in {faults, faults + 1} /\ mishaps' \in {mishaps, mishaps + 1}
          /\ optionFailures' \in {optionFailures, optionFailures + 1}
      <4>1. ASSUME NEW m, NEW c, ChangeOptions(m, c)
            PROVE  faults' = faults /\ mishaps' = mishaps + 1 /\ optionFailures' = optionFailures
        BY <4>1 DEF ChangeOptions, vars
      <4>2. ASSUME NEW s, NEW spec, Submit(s, spec) \/ UpdateScan(s, spec)
            PROVE  faults' = faults /\ mishaps' = mishaps /\ optionFailures' = optionFailures
        BY <4>2 DEF Submit, UpdateScan, vars
      <4>3. ASSUME NEW req, ValidateConfigMapReference(req)
            PROVE  /\ faults' = faults /\ optionFailures' = optionFailures
                   /\ mishaps' \in {mishaps, mishaps + 1}
        BY <4>3 DEF ValidateConfigMapReference, vars
      <4>4. ASSUME NEW req, Respond(req)
            PROVE  faults' = faults /\ mishaps' = mishaps /\ optionFailures' = optionFailures
        BY <4>4 DEF Respond, vars, CreateScan
      <4>5. ASSUME NEW s, DeleteScan(s) \/ Deliver(s) \/ Dequeue(s), UNCHANGED optionVars
            PROVE  faults' = faults /\ mishaps' = mishaps /\ optionFailures' = optionFailures
        BY <4>5 DEF DeleteScan, Deliver, Dequeue, optionVars
      <4>6. ASSUME NEW s, WorkerStep(s)
            PROVE  /\ faults' \in {faults, faults + 1} /\ mishaps' = mishaps
                   /\ optionFailures' \in {optionFailures, optionFailures + 1}
        BY <4>6 DEF WorkerStep, ReconcileGet, PatchCompleted, HandleFailedScan, StartDeployment,
           PatchRunning, GetOptions, Create, DeployDikiConfigMap, PatchOk, PatchFails,
           CallRejected, CallLost, Fault, optionVars, vars
      <4> QED BY <2>2, <4>1, <4>2, <4>3, <4>4, <4>5, <4>6 DEF OptionsNext
    <3>2. faults' + mishaps' <= MaxFaults /\ optionFailures' <= MaxOptionFailures
      BY <2>2 DEF OptionsNext
    <3> QED BY <3>1, <3>2 DEF Counters
  <2> QED BY <2>1, <2>2
<1> QED BY <1>1, <1>2, PTL DEF OptionsSpec

Requests == [scan : Scans, spec : Specs, saw : Seq(Contents), errs : BOOLEAN]

RequestsTyped == options \in [ConfigMaps -> Contents] /\ requests \subseteq Requests

\* A reference given in a spec is one to a ConfigMap.
LEMMA GivenConfigMap ==
  ASSUME NEW spec, ASpec(spec), NEW r \in Given(spec)
  PROVE  Reference(spec, r).configMap \in ConfigMaps
<1>1. r.at \in 1..Len(spec) /\ r.kind \in DOMAIN spec[r.at].options
  BY DEF Given
<1> QED BY <1>1 DEF ASpec, Reference

LEMMA ValidatedAreGiven ==
  ASSUME NEW spec, ASpec(spec)
  PROVE  /\ Validated(spec) \in Seq(Given(spec))
         /\ Elements(Validated(spec)) = Given(spec)
BY ReferencesAreGiven DEF Validated

\* The next reference that Handle validates.
LEMMA NextValidated ==
  ASSUME NEW req \in Requests, Len(req.saw) < Len(Validated(req.spec))
  PROVE  /\ ASpec(req.spec) /\ Len(req.saw) + 1 \in 1..Len(Validated(req.spec))
         /\ Validated(req.spec)[Len(req.saw) + 1] \in Given(req.spec)
<1>1. req.spec \in Specs /\ Len(req.saw) \in Nat
  BY DEF Requests
<1>2. ASpec(req.spec)
  BY <1>1, SpecsAreSequences
<1>3. Validated(req.spec) \in Seq(Given(req.spec))
  BY <1>2, ValidatedAreGiven
<1> QED BY <1>1, <1>2, <1>3

LEMMA RequestsTypedHolds == OptionsSpec => []RequestsTyped
<1>1. OptionsInit => RequestsTyped
  BY DEF OptionsInit, RequestsTyped
<1>2. RequestsTyped /\ [OptionsNext]_allVars => RequestsTyped'
  <2> SUFFICES ASSUME RequestsTyped, [OptionsNext]_allVars
               PROVE  RequestsTyped'
    OBVIOUS
  <2>1. CASE UNCHANGED <<options, requests>>
    BY <2>1 DEF RequestsTyped
  <2>2. ASSUME NEW m \in ConfigMaps, NEW c \in Contents, ChangeOptions(m, c)
        PROVE  RequestsTyped'
    BY <2>2 DEF RequestsTyped, ChangeOptions
  <2>3. ASSUME NEW s \in Scans, NEW spec \in Specs, Submit(s, spec)
        PROVE  RequestsTyped'
    <3>1. [scan |-> s, spec |-> spec, saw |-> << >>, errs |-> FALSE] \in Requests
      BY DEF Requests
    <3> QED BY <2>3, <3>1 DEF RequestsTyped, Submit
  <2>4. ASSUME NEW req \in requests, ValidateConfigMapReference(req)
        PROVE  RequestsTyped'
    <3>1. req \in Requests /\ Len(req.saw) < Len(Validated(req.spec)) /\ options' = options
      BY <2>4 DEF RequestsTyped, ValidateConfigMapReference
    <3> DEFINE r == Validated(req.spec)[Len(req.saw) + 1]
               content == options[Reference(req.spec, r).configMap]
    <3>2. content \in Contents
      BY <3>1, NextValidated, GivenConfigMap DEF RequestsTyped
    <3>3. PICK e \in BOOLEAN :
            requests' = {[req EXCEPT !.saw = Append(@, content), !.errs = e]}
      BY <2>4, <3>1 DEF ValidateConfigMapReference, Requests
    <3> HIDE DEF content
    <3>4. Append(req.saw, content) \in Seq(Contents)
      BY <3>1, <3>2 DEF Requests
    <3>5. [req EXCEPT !.saw = Append(@, content), !.errs = e] \in Requests
      BY <3>1, <3>4 DEF Requests
    <3> QED BY <3>1, <3>3, <3>5 DEF RequestsTyped
  <2>5. ASSUME NEW req \in requests, Respond(req)
        PROVE  RequestsTyped'
    BY <2>5 DEF RequestsTyped, Respond
  <2> QED BY <2>1, <2>2, <2>3, <2>4, <2>5
          DEF OptionsNext, allVars, optionVars, UpdateScan, WorkerStep, StartDeployment,
              GetOptions, Create
<1> QED BY <1>1, <1>2, PTL DEF OptionsSpec

LEMMA OptionsInitMapped == OptionsInit => Controller!Init
<1> SUFFICES ASSUME OptionsInit PROVE Controller!Init
  OBVIOUS
<1>1. faults + optionFailures = 0
  BY DEF OptionsInit, Init
<1> QED BY <1>1, SameHelpers DEF OptionsInit, Init, Controller!Init

LEMMA OptionsStepsMapped ==
  Counters /\ Counters' /\ RequestsTyped /\ [OptionsNext]_allVars
     => [Controller!Next]_(Controller!vars)
<1> SUFFICES ASSUME Counters, Counters', RequestsTyped, [OptionsNext]_allVars
             PROVE  Controller!Next \/ UNCHANGED Controller!vars
  OBVIOUS
<1>1. ASSUME UNCHANGED vars, UNCHANGED optionFailures
      PROVE  UNCHANGED Controller!vars
  BY <1>1 DEF vars, Controller!vars
<1>2. CASE \E m \in ConfigMaps, c \in Contents : ChangeOptions(m, c)
  BY <1>1, <1>2 DEF ChangeOptions
<1>3. CASE \E s \in Scans, spec \in Specs : Submit(s, spec) \/ UpdateScan(s, spec)
  BY <1>1, <1>3 DEF Submit, UpdateScan
<1>4. CASE \E req \in requests : ValidateConfigMapReference(req)
  BY <1>1, <1>4 DEF ValidateConfigMapReference
<1>5. ASSUME NEW req \in requests, Respond(req)
      PROVE  Controller!Next \/ UNCHANGED Controller!vars
  <2> req.scan \in Scans
    BY DEF RequestsTyped, Requests
  <2>1. optionFailures' = optionFailures
    BY <1>5 DEF Respond
  <2>2. CASE CreateScan(req.scan)
    BY <1>5, <2>1, <2>2, ServerStepsMapped DEF Controller!Next
  <2> QED BY <1>1, <1>5, <2>1, <2>2 DEF Respond
<1>6. CASE \E s \in Scans : /\ DeleteScan(s) \/ Deliver(s) \/ Dequeue(s)
                            /\ UNCHANGED optionVars
  BY <1>6, ServerStepsMapped DEF optionVars, Controller!Next
<1>7. CASE \E s \in Scans : WorkerStep(s)
  <2>1. PICK s \in Scans : WorkerStep(s)
    BY <1>7
  <2>2. CASE /\ ReconcileGet(s) \/ PatchCompleted(s) \/ HandleFailedScan(s)
             /\ UNCHANGED optionVars
    BY <2>2, WorkerStepsMapped DEF optionVars, Controller!Next, Controller!Worker
  <2>3. CASE StartDeployment(s)
    BY <2>3, WorkerStepsMapped DEF StartDeployment, Controller!Next, Controller!Worker
  <2>4. CASE GetOptions(s)
    BY <2>4, GetOptionsMapped DEF Controller!Next, Controller!Worker
  <2>5. CASE Create(s)
    BY <2>5, WorkerStepsMapped DEF Create, Controller!Next, Controller!Worker
  <2> QED BY <2>1, <2>2, <2>3, <2>4, <2>5 DEF WorkerStep
<1>8. CASE UNCHANGED allVars
  BY <1>1, <1>8 DEF allVars, optionVars
<1>9. CASE OptionsNext
  BY <1>2, <1>3, <1>4, <1>5, <1>6, <1>7, <1>9 DEF OptionsNext
<1> QED BY <1>8, <1>9

(***************************************************************************)
(* Webhook, options and controller together are the controller with the     *)
(* fault "options": reading the options one by one in the middle of         *)
(* Reconcile, while they change and scans come and go, adds nothing to it   *)
(* (deployDikiConfigMap, Handle).                                           *)
(***************************************************************************)
THEOREM OptionsAreController == OptionsSpec => ControllerSpec
<1>1. OptionsSpec => [](Counters /\ RequestsTyped)
  BY CountersHold, RequestsTypedHolds, PTL
<1> QED BY <1>1, OptionsInitMapped, OptionsStepsMapped, PTL
        DEF OptionsSpec, ControllerSpec, Controller!Spec

-----------------------------------------------------------------------------
(* What is proved of the controller, for scans with options. *)

Proved == INSTANCE ReconciliationProofs WITH
  FaultKinds <- FaultKinds \cup {"options"},
  MaxFaults  <- MaxFaults + MaxOptionFailures,
  faults     <- faults + optionFailures

LEMMA BoundsMapped ==
  /\ Proved!BoundsAssumption
  /\ Proved!FaultKindsAssumption
  /\ Proved!WorkersAssumption
<1>1. MaxFaults + MaxOptionFailures \in Nat
  BY BoundsAssumption, OptionsBoundAssumption
<1> QED BY <1>1, BoundsAssumption, FaultKindsAssumption, WorkersAssumption
        DEF Proved!BoundsAssumption, Proved!FaultKindsAssumption, Proved!WorkersAssumption

\* Proved speaks of the same controller.
LEMMA SameController == /\ Proved!Init <=> Controller!Init
                        /\ Proved!Next <=> Controller!Next
                        /\ Proved!vars = Controller!vars
<1>1. Proved!Init <=> Controller!Init
  BY DEF Proved!Init, Controller!Init, Proved!NoScan, Controller!NoScan, Proved!NewScan,
         Controller!NewScan
<1>2. Proved!vars = Controller!vars
  BY DEF Proved!vars, Controller!vars
<1>3. Proved!Next <=> Controller!Next
  BY DEF Proved!serverVars, Controller!serverVars, Proved!workerVars,
       Controller!workerVars, Proved!NewScan, Controller!NewScan, Proved!NoScan,
       Controller!NoScan, Proved!Build, Controller!Build, Proved!UpdateConditions,
       Controller!UpdateConditions, Proved!RunningStatus, Controller!RunningStatus,
       Proved!CompletedStatus, Controller!CompletedStatus, Proved!FailedStatus,
       Controller!FailedStatus, Proved!MergePatch, Controller!MergePatch,
       Proved!Store, Controller!Store, Proved!Fault, Controller!Fault,
       Proved!CallRejected, Controller!CallRejected, Proved!CallLost,
       Controller!CallLost, Proved!CreateScan, Controller!CreateScan,
       Proved!DeleteScan, Controller!DeleteScan, Proved!Predicate,
       Controller!Predicate, Proved!Deliver, Controller!Deliver, Proved!Relist,
       Controller!Relist, Proved!Dequeue, Controller!Dequeue, Proved!Goto,
       Controller!Goto, Proved!Return, Controller!Return, Proved!AlreadyProcessed,
       Controller!AlreadyProcessed, Proved!ReconcileGet, Controller!ReconcileGet,
       Proved!Merged, Controller!Merged, Proved!PatchOk, Controller!PatchOk,
       Proved!PatchFails, Controller!PatchFails, Proved!PatchRunning,
       Controller!PatchRunning, Proved!CreateConfigMap, Controller!CreateConfigMap,
       Proved!DeployDikiConfigMap, Controller!DeployDikiConfigMap,
       Proved!PatchCompleted, Controller!PatchCompleted, Proved!HandleFailedScan,
       Controller!HandleFailedScan, Proved!ContextExpires, Controller!ContextExpires,
       Proved!Restart, Controller!Restart, Proved!Worker, Controller!Worker,
       Proved!Next, Controller!Next, Proved!Cardinality, Controller!Cardinality,
       Proved!IsFiniteSet, Controller!IsFiniteSet
<1> QED BY <1>1, <1>2, <1>3

LEMMA ControllerSpecProved == OptionsSpec => Proved!Spec
<1>1. OptionsInit => Proved!Init
  BY OptionsInitMapped, SameController
<1>2. Counters /\ Counters' /\ RequestsTyped /\ [OptionsNext]_allVars
        => [Proved!Next]_(Proved!vars)
  <2> SUFFICES ASSUME Counters, Counters', RequestsTyped, [OptionsNext]_allVars
               PROVE  Proved!Next \/ UNCHANGED Proved!vars
    OBVIOUS
  <2>1. Controller!Next \/ UNCHANGED Controller!vars
    BY OptionsStepsMapped
  <2> QED BY <2>1, SameController DEF Proved!vars, Controller!vars
<1>3. OptionsSpec => [](Counters /\ RequestsTyped)
  BY CountersHold, RequestsTypedHolds, PTL
<1> QED BY <1>1, <1>2, <1>3, PTL DEF OptionsSpec, Proved!Spec

\* The invariant of the controller, with its own count of failures.
LEMMA InvariantMapped == Counters /\ Proved!InductiveInvariant => InductiveInvariant
<1> SUFFICES ASSUME Counters, Proved!InductiveInvariant
             PROVE  InductiveInvariant
  OBVIOUS
<1>1. NoScan = Proved!NoScan /\ \A p : ConditionsOf(p) = Proved!ConditionsOf(p)
  BY DEF NoScan, NewScan, Proved!NoScan, Proved!NewScan, ConditionsOf, Proved!ConditionsOf
<1>2. TypeOK
  <2>1. faults \in 0..MaxFaults
    BY BoundsAssumption DEF Counters
  <2>2. Objects = Proved!Objects
    BY DEF Objects, Proved!Objects, Phases, Proved!Phases, Conditions, Proved!Conditions
  <2> QED BY <2>1, <2>2 DEF Proved!InductiveInvariant, TypeOK, Proved!TypeOK
<1>3. CopiesOK /\ NewestIsStored
  BY <1>1 DEF Proved!InductiveInvariant, CopiesOK, Proved!CopiesOK, CopyOK, Proved!CopyOK,
     NewestIsStored, Proved!NewestIsStored
<1>4. WorkerOK /\ CompletedWasConfigured
  BY <1>1 DEF Proved!InductiveInvariant, WorkerOK, Proved!WorkerOK, Configured,
     Proved!Configured, CompletedWasConfigured, Proved!CompletedWasConfigured
<1> QED BY <1>2, <1>3, <1>4 DEF InductiveInvariant

LEMMA InductiveInvariantHolds == OptionsSpec => []InductiveInvariant
<1>1. OptionsSpec => []Proved!InductiveInvariant
  BY BoundsMapped, ControllerSpecProved, Proved!InvariantHolds, PTL
<1> QED BY <1>1, InvariantMapped, CountersHold, PTL

(***************************************************************************)
(* What is proved of the controller holds of scans with options: phase and  *)
(* conditions tell the same story, and a completed scan was configured      *)
(* (Reconcile, deployDikiConfigMap).                                        *)
(***************************************************************************)
THEOREM OptionsKeepPromises ==
  OptionsSpec => [](ConditionsMatchPhase /\ CompletedWasConfigured)
<1>1. InductiveInvariant => ConditionsMatchPhase /\ CompletedWasConfigured
  BY DEF InductiveInvariant, CopiesOK, CopyOK, ConditionsMatchPhase
<1> QED BY <1>1, InductiveInvariantHolds, PTL

-----------------------------------------------------------------------------
(* The specs of scans. *)

SpecsTyped ==
  /\ specs \in [Scans -> [0..MaxIncarnations -> Specs \cup {<< >>}]]
  /\ admitted \in [Scans -> [0..MaxIncarnations -> Seq(Contents)]]

\* An admitted request: the API server stores a new scan.
Admits(req) ==
  /\ Len(req.saw) = Len(Validated(req.spec)) /\ ~req.errs
  /\ incarnation[req.scan] + 1 \in 1..MaxIncarnations
  /\ incarnation' = [incarnation EXCEPT ![req.scan] = incarnation[req.scan] + 1]
  /\ specs' = [specs EXCEPT ![req.scan][incarnation[req.scan] + 1] = req.spec]
  /\ admitted' = [admitted EXCEPT ![req.scan][incarnation[req.scan] + 1] = req.saw]
  /\ UNCHANGED <<workerVars, options, mishaps, wspec, read, configs>>
  /\ requests' = {}

LEMMA RespondAdmits ==
  ASSUME InductiveInvariant, RequestsTyped, NEW req \in requests, Respond(req)
  PROVE  \/ Admits(req)
         \/ /\ requests' = {}
            /\ UNCHANGED <<vars, options, mishaps, specs, admitted, wspec, read, configs>>
<1>1. req.scan \in Scans /\ incarnation[req.scan] \in Nat
  BY DEF RequestsTyped, Requests, InductiveInvariant, TypeOK
<1>2. CASE ~req.errs /\ CreateScan(req.scan)
  <2>1. incarnation' = [incarnation EXCEPT ![req.scan] = incarnation[req.scan] + 1]
    BY <1>2 DEF CreateScan
  <2>2. incarnation'[req.scan] = incarnation[req.scan] + 1
    BY <1>1, <2>1 DEF InductiveInvariant, TypeOK
  <2>3. incarnation[req.scan] + 1 \in 1..MaxIncarnations
    BY <1>1, <1>2, BoundsAssumption DEF CreateScan
  <2>4. /\ specs' = [specs EXCEPT ![req.scan][incarnation'[req.scan]] = req.spec]
        /\ admitted' = [admitted EXCEPT ![req.scan][incarnation'[req.scan]] = req.saw]
        /\ Len(req.saw) = Len(Validated(req.spec)) /\ requests' = {}
        /\ UNCHANGED <<options, mishaps, wspec, read, configs>>
    BY <1>2 DEF Respond, CreateScan
  <2>5. UNCHANGED workerVars
    BY <1>2 DEF CreateScan
  <2> QED BY <1>2, <2>1, <2>2, <2>3, <2>4, <2>5 DEF Admits
<1>3. CASE req.errs /\ UNCHANGED <<vars, specs, admitted>>
  BY <1>3 DEF Respond
<1> QED BY <1>2, <1>3 DEF Respond

\* Handle leaves no update through that changes a spec.
LEMMA UpdateChangesNothing ==
  ASSUME InductiveInvariant, SpecsTyped, NEW s \in Scans, NEW spec, UpdateScan(s, spec)
  PROVE  UNCHANGED <<vars, options, mishaps, requests, specs, admitted, wspec, read,
                     configs>>
<1> DEFINE u == scan[s].uid
<1>1. u \in 0..MaxIncarnations
  BY DEF InductiveInvariant, TypeOK, Objects
<1>2. specs[s][u] = spec /\ specs' = [specs EXCEPT ![s][u] = spec]
  BY DEF UpdateScan, UpdateAllowed
<1> HIDE DEF u
<1>3. specs' = specs
  BY <1>1, <1>2 DEF SpecsTyped
<1> QED BY <1>3 DEF UpdateScan

\* Only the admission of a scan changes specs.
LEMMA SpecsStep ==
  ASSUME InductiveInvariant, RequestsTyped, SpecsTyped, [OptionsNext]_allVars
  PROVE  \/ \E req \in requests : Admits(req)
         \/ UNCHANGED <<specs, admitted, incarnation>>
<1>1. ASSUME NEW req \in requests, Respond(req)
      PROVE  Admits(req) \/ UNCHANGED <<specs, admitted, incarnation>>
  BY <1>1, RespondAdmits DEF vars
<1>2. ASSUME NEW s \in Scans, NEW spec, UpdateScan(s, spec)
      PROVE  UNCHANGED <<specs, admitted, incarnation>>
  BY <1>2, UpdateChangesNothing DEF vars
<1>3. ASSUME NEW s \in Scans, WorkerStep(s)
      PROVE  UNCHANGED <<specs, admitted, incarnation>>
  BY <1>3 DEF WorkerStep, ReconcileGet, PatchCompleted, HandleFailedScan, StartDeployment,
     PatchRunning, GetOptions, Create, DeployDikiConfigMap, serverVars, optionVars, vars
<1>4. CASE UNCHANGED allVars
  BY <1>4 DEF allVars, vars, optionVars
<1>5. ASSUME NEW m, NEW c, ChangeOptions(m, c)
      PROVE  UNCHANGED <<specs, admitted, incarnation>>
  BY <1>5 DEF ChangeOptions, vars
<1>6. ASSUME NEW s, NEW spec, Submit(s, spec)
      PROVE  UNCHANGED <<specs, admitted, incarnation>>
  BY <1>6 DEF Submit, vars
<1>7. ASSUME NEW req, ValidateConfigMapReference(req)
      PROVE  UNCHANGED <<specs, admitted, incarnation>>
  BY <1>7 DEF ValidateConfigMapReference, vars
<1>8. ASSUME NEW s, DeleteScan(s) \/ Deliver(s) \/ Dequeue(s), UNCHANGED optionVars
      PROVE  UNCHANGED <<specs, admitted, incarnation>>
  BY <1>8 DEF DeleteScan, Deliver, Dequeue, serverVars, optionVars
<1>9. CASE OptionsNext
  BY <1>1, <1>2, <1>3, <1>5, <1>6, <1>7, <1>8, <1>9 DEF OptionsNext
<1> QED BY <1>4, <1>9

LEMMA SpecsTypedHolds == OptionsSpec => []SpecsTyped
<1>1. OptionsInit => SpecsTyped
  <2> SUFFICES ASSUME OptionsInit PROVE SpecsTyped
    OBVIOUS
  <2>1. << >> \in Seq(Contents)
    OBVIOUS
  <2> QED BY <2>1 DEF OptionsInit, SpecsTyped
<1>2. InductiveInvariant /\ RequestsTyped /\ SpecsTyped /\ [OptionsNext]_allVars
        => SpecsTyped'
  <2> SUFFICES ASSUME InductiveInvariant, RequestsTyped, SpecsTyped, [OptionsNext]_allVars
               PROVE  SpecsTyped'
    OBVIOUS
  <2>1. CASE UNCHANGED <<specs, admitted, incarnation>>
    BY <2>1 DEF SpecsTyped
  <2>2. ASSUME NEW req \in requests, Admits(req)
        PROVE  SpecsTyped'
    <3>1. /\ req.scan \in Scans /\ req.spec \in Specs /\ req.saw \in Seq(Contents)
          /\ incarnation[req.scan] + 1 \in 0..MaxIncarnations
      BY <2>2, BoundsAssumption DEF RequestsTyped, Requests, Admits
    <3> QED BY <2>2, <3>1 DEF Admits, SpecsTyped
  <2> QED BY <2>1, <2>2, SpecsStep
<1> QED BY <1>1, <1>2, InductiveInvariantHolds, RequestsTypedHolds, PTL DEF OptionsSpec

-----------------------------------------------------------------------------
(* From the spec into the diki configuration. *)

AskedFor == {Requested(spec) : spec \in Specs \cup {<< >>}}

\* What a worker between the patch to Running and Create is about.
ReadFollows ==
  /\ wspec \in [Scans -> Specs \cup {<< >>}]
  /\ read \in [Scans -> Seq(OptionsRead)]
  /\ \A s \in Scans : pc[s] = "deploy" =>
       wspec[s] = specs[s][obj[s].uid] /\ ReadSoFar(read[s], wspec[s])

ConfigsFollow ==
  /\ configs \in [Scans -> [0..MaxIncarnations -> SUBSET AskedFor]]
  /\ \A s \in Scans : \A u \in 0..MaxIncarnations :
       /\ configs[s][u] \subseteq {Requested(specs[s][u])}
       /\ u > incarnation[s] => configs[s][u] = {}

(***************************************************************************)
(* A configuration carries the UID of an object that exists or existed, so  *)
(* that no later scan can give that UID another spec.                       *)
(***************************************************************************)
ConfigInvariant == ReadFollows /\ ConfigsFollow

\* The worker's scan at deployDikiConfigMap has one of the UIDs given so far.
LEMMA DeployedUid ==
  ASSUME InductiveInvariant, NEW s \in Scans, pc[s] = "deploy"
  PROVE  obj[s].uid \in 1..incarnation[s] /\ incarnation[s] \in 0..MaxIncarnations
<1>1. obj[s].phase = "Running"
  BY DEF InductiveInvariant, WorkerOK
<1>2. NoScan.phase # "Running"
  BY DEF NoScan, NewScan
<1>3. obj[s] # NoScan
  BY <1>1, <1>2
<1> QED BY <1>3 DEF InductiveInvariant, CopiesOK, CopyOK, TypeOK

\* Steps that touch neither a worker at deployDikiConfigMap nor a spec.
LEMMA ConfigStays ==
  ASSUME ConfigInvariant, UNCHANGED <<wspec, read, configs, specs, incarnation>>,
         \A s \in Scans : pc'[s] = "deploy" => pc[s] = "deploy" /\ obj'[s] = obj[s]
  PROVE  ConfigInvariant'
<1>1. ReadFollows'
  BY DEF ConfigInvariant, ReadFollows
<1>2. ConfigsFollow'
  BY DEF ConfigInvariant, ConfigsFollow
<1> QED BY <1>1, <1>2 DEF ConfigInvariant

LEMMA AdmitsKeepsConfig ==
  ASSUME InductiveInvariant, RequestsTyped, SpecsTyped, ConfigInvariant,
         NEW req \in requests, Admits(req)
  PROVE  ConfigInvariant'
<1> DEFINE n == incarnation[req.scan] + 1
<1>1. /\ req.scan \in Scans /\ n \in 1..MaxIncarnations /\ n \in 0..MaxIncarnations
      /\ \A s \in Scans : incarnation[s] \in 0..MaxIncarnations
  BY BoundsAssumption DEF Admits, RequestsTyped, Requests, InductiveInvariant, TypeOK
<1>2. /\ specs' = [specs EXCEPT ![req.scan][n] = req.spec]
      /\ incarnation' = [incarnation EXCEPT ![req.scan] = n]
      /\ UNCHANGED <<pc, obj, wspec, read, configs>>
  BY DEF Admits, workerVars
<1>3. n > incarnation[req.scan]
  BY <1>1
<1> HIDE DEF n
<1>4. \A s \in Scans : \A u \in 0..MaxIncarnations :
        specs'[s][u] = specs[s][u] \/ (s = req.scan /\ u = n)
  BY <1>1, <1>2 DEF SpecsTyped
<1>5. ASSUME NEW s \in Scans, pc'[s] = "deploy"
      PROVE  wspec'[s] = specs'[s][obj'[s].uid] /\ ReadSoFar(read'[s], wspec'[s])
  <2>1. /\ obj[s].uid \in 1..incarnation[s] /\ incarnation[s] \in 0..MaxIncarnations
        /\ wspec[s] = specs[s][obj[s].uid] /\ ReadSoFar(read[s], wspec[s])
    BY <1>2, <1>5, DeployedUid DEF ConfigInvariant, ReadFollows
  <2>2. obj[s].uid \in 0..MaxIncarnations /\ ~(s = req.scan /\ obj[s].uid = n)
    BY <1>1, <1>3, <2>1, BoundsAssumption
  <2> QED BY <1>2, <1>4, <2>1, <2>2
<1>6. ReadFollows'
  BY <1>2, <1>5 DEF ConfigInvariant, ReadFollows
<1>7. ASSUME NEW s \in Scans, NEW u \in 0..MaxIncarnations
      PROVE  /\ configs'[s][u] \subseteq {Requested(specs'[s][u])}
             /\ u > incarnation'[s] => configs'[s][u] = {}
  <2>1. /\ configs[s][u] \subseteq {Requested(specs[s][u])}
        /\ u > incarnation[s] => configs[s][u] = {}
    BY DEF ConfigInvariant, ConfigsFollow
  <2>2. CASE s = req.scan /\ u = n
    BY <1>2, <1>3, <2>1, <2>2
  <2>3. CASE ~(s = req.scan /\ u = n)
    <3>1. configs'[s][u] \subseteq {Requested(specs'[s][u])}
      BY <1>2, <1>4, <2>1, <2>3
    <3>2. incarnation'[s] = IF s = req.scan THEN n ELSE incarnation[s]
      BY <1>2 DEF InductiveInvariant, TypeOK
    <3>3. u > incarnation'[s] => u > incarnation[s]
      BY <1>1, <1>3, <3>2
    <3> QED BY <1>2, <2>1, <3>1, <3>3
  <2> QED BY <2>2, <2>3
<1>8. ConfigsFollow'
  BY <1>2, <1>7 DEF ConfigInvariant, ConfigsFollow
<1> QED BY <1>6, <1>8 DEF ConfigInvariant

LEMMA StartKeepsConfig ==
  ASSUME InductiveInvariant, InductiveInvariant', SpecsTyped, ConfigInvariant,
         NEW s \in Scans, StartDeployment(s)
  PROVE  ConfigInvariant'
<1>1. /\ UNCHANGED <<configs, specs, incarnation>> /\ pc[s] = "running"
      /\ \E p \in {"deploy", "failed"} : pc' = [pc EXCEPT ![s] = p]
      /\ \E o : obj' = [obj EXCEPT ![s] = o]
  BY DEF StartDeployment, PatchRunning, Goto
<1>2. \A t \in Scans : t # s => pc'[t] = pc[t] /\ obj'[t] = obj[t]
  BY <1>1 DEF InductiveInvariant, TypeOK
<1>3. CASE pc'[s] # "deploy"
  <2>1. UNCHANGED <<wspec, read>>
    BY <1>3 DEF StartDeployment
  <2> QED BY <1>1, <1>2, <1>3, <2>1, ConfigStays
<1>4. CASE pc'[s] = "deploy"
  <2>1. obj'[s].uid \in 0..MaxIncarnations
    BY DEF InductiveInvariant, TypeOK, Objects
  <2>2. /\ wspec' = [wspec EXCEPT ![s] = specs[s][obj'[s].uid]]
        /\ read' = [read EXCEPT ![s] = << >>]
    BY <1>4 DEF StartDeployment
  <2>3. specs[s][obj'[s].uid] \in Specs \cup {<< >>}
    BY <2>1 DEF SpecsTyped
  <2>4. Needed(specs[s][obj'[s].uid]) \in Seq(Given(specs[s][obj'[s].uid]))
    BY <2>3, SpecsAreSequences, NeededAreGiven
  <2>5. ReadSoFar(<< >>, specs[s][obj'[s].uid])
    BY <2>4 DEF ReadSoFar
  <2>6. wspec' \in [Scans -> Specs \cup {<< >>}] /\ read' \in [Scans -> Seq(OptionsRead)]
    BY <2>2, <2>3 DEF ConfigInvariant, ReadFollows
  <2>7. wspec'[s] = specs[s][obj'[s].uid] /\ read'[s] = << >>
    BY <2>2 DEF ConfigInvariant, ReadFollows
  <2>8. \A t \in Scans : t # s => wspec'[t] = wspec[t] /\ read'[t] = read[t]
    BY <2>2 DEF ConfigInvariant, ReadFollows
  <2>9. ASSUME NEW t \in Scans, pc'[t] = "deploy"
        PROVE  wspec'[t] = specs'[t][obj'[t].uid] /\ ReadSoFar(read'[t], wspec'[t])
    <3>1. CASE t = s
      BY <1>1, <2>5, <2>7, <3>1
    <3>2. CASE t # s
      BY <1>1, <1>2, <2>8, <2>9, <3>2 DEF ConfigInvariant, ReadFollows
    <3> QED BY <3>1, <3>2
  <2>10. ReadFollows'
    BY <2>6, <2>9 DEF ReadFollows
  <2>11. ConfigsFollow'
    BY <1>1 DEF ConfigInvariant, ConfigsFollow
  <2> QED BY <2>10, <2>11 DEF ConfigInvariant
<1> QED BY <1>3, <1>4

\* The next reference that deployDikiConfigMap needs.
LEMMA NextNeededIsGiven ==
  ASSUME NEW s \in Scans, wspec[s] \in Specs \cup {<< >>},
         Len(read[s]) \in Nat, Len(read[s]) < Len(Needed(wspec[s]))
  PROVE  /\ ASpec(wspec[s]) /\ Len(read[s]) + 1 \in 1..Len(Needed(wspec[s]))
         /\ NextNeeded(s) \in Given(wspec[s])
         /\ wspec[s][NextNeeded(s).at].id \in SupportedRulesets
<1>1. ASpec(wspec[s])
  BY SpecsAreSequences
<1>2. /\ Needed(wspec[s]) \in Seq(Given(wspec[s]))
      /\ Elements(Needed(wspec[s])) = {r \in Given(wspec[s]) :
                                         wspec[s][r.at].id \in SupportedRulesets}
  BY <1>1, NeededAreGiven
<1>3. Len(read[s]) + 1 \in 1..Len(Needed(wspec[s]))
  BY <1>2
<1>4. NextNeeded(s) \in Elements(Needed(wspec[s]))
  BY <1>3 DEF NextNeeded, Elements
<1> QED BY <1>1, <1>2, <1>3, <1>4

\* One more option read is what its reference asks for.
LEMMA OptionReadIsTyped ==
  ASSUME RequestsTyped, NEW s \in Scans, wspec[s] \in Specs \cup {<< >>},
         Len(read[s]) \in Nat, Len(read[s]) < Len(Needed(wspec[s])),
         NEW r, r = NextNeeded(s),
         HasKey(options[Reference(wspec[s], r).configMap], OptionsKey(wspec[s], r))
  PROVE  OptionOf(wspec[s], r) \in OptionsRead
<1>1. /\ ASpec(wspec[s]) /\ r \in Given(wspec[s])
      /\ wspec[s][r.at].id \in SupportedRulesets
  BY NextNeededIsGiven
<1>2. Reference(wspec[s], r).configMap \in ConfigMaps /\ r.kind \in OptionKinds
  BY <1>1, GivenConfigMap DEF Given
<1>3. options[Reference(wspec[s], r).configMap] \in Contents
  BY <1>2 DEF RequestsTyped
<1>4. OptionsKey(wspec[s], r) \in AllKeys
  BY <1>3 DEF HasKey, AllKeys
<1> QED BY <1>1, <1>2, <1>4 DEF OptionOf, OptionsRead

LEMMA GetOptionsKeepsConfig ==
  ASSUME InductiveInvariant, RequestsTyped, ConfigInvariant,
         NEW s \in Scans, GetOptions(s)
  PROVE  ConfigInvariant'
<1> DEFINE r == NextNeeded(s)
           content == options[Reference(wspec[s], r).configMap]
           key == OptionsKey(wspec[s], r)
<1>1. /\ pc[s] = "deploy" /\ Len(read[s]) < Len(Needed(wspec[s]))
      /\ UNCHANGED <<wspec, configs, specs, incarnation, obj>>
  BY DEF GetOptions, vars, serverVars
<1>2. CASE /\ Fail(s) /\ UNCHANGED read
  <2>1. pc' = [pc EXCEPT ![s] = "failed"]
    BY <1>2 DEF Fail, Goto
  <2>2. \A t \in Scans : pc'[t] = "deploy" => pc[t] = "deploy"
    BY <1>1, <2>1 DEF InductiveInvariant, TypeOK
  <2> QED BY <1>1, <1>2, <2>2, ConfigStays
<1>3. CASE /\ Readable(content, key) /\ UNCHANGED vars
           /\ read' = [read EXCEPT ![s] = Append(read[s], OptionOf(wspec[s], r))]
  <2>1. /\ wspec[s] \in Specs \cup {<< >>} /\ read[s] \in Seq(OptionsRead)
        /\ ReadSoFar(read[s], wspec[s]) /\ Len(read[s]) \in Nat
        /\ wspec[s] = specs[s][obj[s].uid]
    BY <1>1 DEF ConfigInvariant, ReadFollows
  <2> DEFINE o == OptionOf(wspec[s], r)
  <2>2. o \in OptionsRead
    BY <1>1, <1>3, <2>1, OptionReadIsTyped DEF Readable
  <2>3. o = OptionOf(wspec[s], Needed(wspec[s])[Len(read[s]) + 1])
    BY DEF NextNeeded
  <2>4. Len(read[s]) + 1 \in 0..Len(Needed(wspec[s]))
    BY <1>1, <2>1, NextNeededIsGiven
  <2>5. read' = [read EXCEPT ![s] = Append(read[s], o)] /\ UNCHANGED <<pc, obj>>
    BY <1>3 DEF vars
  <2> HIDE DEF o
  <2>6. ReadSoFar(Append(read[s], o), wspec[s])
    <3>1. Len(Append(read[s], o)) = Len(read[s]) + 1
      BY <2>1, <2>2
    <3>2. ASSUME NEW i \in 1..Len(read[s]) + 1
          PROVE  Append(read[s], o)[i] = OptionOf(wspec[s], Needed(wspec[s])[i])
      <4>1. CASE i = Len(read[s]) + 1
        BY <2>1, <2>2, <2>3, <4>1
      <4>2. CASE i \in 1..Len(read[s])
        BY <2>1, <2>2, <4>2 DEF ReadSoFar
      <4> QED BY <2>1, <4>1, <4>2
    <3> QED BY <2>4, <3>1, <3>2 DEF ReadSoFar
  <2>7. Append(read[s], o) \in Seq(OptionsRead)
    BY <2>1, <2>2
  <2>8. /\ read' \in [Scans -> Seq(OptionsRead)]
        /\ read'[s] = Append(read[s], o)
        /\ \A t \in Scans : t # s => read'[t] = read[t]
    BY <2>5, <2>7 DEF ConfigInvariant, ReadFollows
  <2>9. ASSUME NEW t \in Scans, pc'[t] = "deploy"
        PROVE  wspec'[t] = specs'[t][obj'[t].uid] /\ ReadSoFar(read'[t], wspec'[t])
    <3>1. wspec[t] = specs[t][obj[t].uid] /\ ReadSoFar(read[t], wspec[t])
      BY <2>5, <2>9 DEF ConfigInvariant, ReadFollows
    <3> QED BY <1>1, <2>5, <2>6, <2>8, <3>1
  <2>10. ReadFollows'
    BY <1>1, <2>8, <2>9 DEF ConfigInvariant, ReadFollows
  <2>11. ConfigsFollow'
    BY <1>1 DEF ConfigInvariant, ConfigsFollow
  <2> QED BY <2>10, <2>11 DEF ConfigInvariant
<1> QED BY <1>2, <1>3 DEF GetOptions, OptionOf

LEMMA CreateKeepsConfig ==
  ASSUME InductiveInvariant, ConfigInvariant, NEW s \in Scans, Create(s)
  PROVE  ConfigInvariant'
<1>1. /\ pc[s] = "deploy" /\ Len(read[s]) = Len(Needed(wspec[s]))
      /\ UNCHANGED <<wspec, read, specs, incarnation, obj>>
      /\ \E p \in {"completed", "failed"} : pc' = [pc EXCEPT ![s] = p]
  BY DEF Create, DeployDikiConfigMap, serverVars, Goto
<1>2. \A t \in Scans : pc'[t] = "deploy" => pc[t] = "deploy"
  BY <1>1 DEF InductiveInvariant, TypeOK
<1>3. CASE configs' = configs
  BY <1>1, <1>2, <1>3, ConfigStays
<1> DEFINE u == obj[s].uid
           made == DikiConfig(wspec[s], read[s])
<1>4. CASE configs' = [configs EXCEPT ![s][u] = configs[s][u] \cup {made}]
  <2>1. u \in 1..incarnation[s] /\ incarnation[s] \in 0..MaxIncarnations
    BY <1>1, DeployedUid
  <2>2. u \in 0..MaxIncarnations /\ ~(u > incarnation[s])
    BY <2>1, BoundsAssumption
  <2>3. /\ wspec[s] \in Specs \cup {<< >>} /\ ReadSoFar(read[s], wspec[s])
        /\ wspec[s] = specs[s][u]
    BY <1>1 DEF ConfigInvariant, ReadFollows
  <2>4. made = Requested(specs[s][u]) /\ made \in AskedFor
    BY <1>1, <2>3, AllReadIsRequested, SpecsAreSequences DEF AskedFor
  <2> HIDE DEF u, made
  <2>5. ReadFollows'
    BY <1>1, <1>2 DEF ConfigInvariant, ReadFollows
  <2>6. configs' \in [Scans -> [0..MaxIncarnations -> SUBSET AskedFor]]
    BY <1>4, <2>2, <2>4 DEF ConfigInvariant, ConfigsFollow
  <2>7. ASSUME NEW t \in Scans, NEW v \in 0..MaxIncarnations
        PROVE  /\ configs'[t][v] \subseteq {Requested(specs[t][v])}
               /\ v > incarnation[t] => configs'[t][v] = {}
    <3>1. /\ configs[t][v] \subseteq {Requested(specs[t][v])}
          /\ v > incarnation[t] => configs[t][v] = {}
      BY DEF ConfigInvariant, ConfigsFollow
    <3>2. CASE t = s /\ v = u
      <4>1. configs'[t][v] = configs[t][v] \cup {made}
        BY <1>4, <2>2, <3>2 DEF ConfigInvariant, ConfigsFollow
      <4> QED BY <2>2, <2>4, <3>1, <3>2, <4>1
    <3>3. CASE ~(t = s /\ v = u)
      <4>1. configs'[t][v] = configs[t][v]
        BY <1>4, <2>2, <3>3 DEF ConfigInvariant, ConfigsFollow
      <4> QED BY <3>1, <4>1
    <3> QED BY <3>2, <3>3
  <2>8. ConfigsFollow'
    BY <1>1, <2>6, <2>7 DEF ConfigsFollow
  <2> QED BY <2>5, <2>8 DEF ConfigInvariant
<1> QED BY <1>3, <1>4 DEF Create

\* The other steps of a worker neither begin nor end at deployDikiConfigMap.
LEMMA OtherStepsKeepConfig ==
  ASSUME InductiveInvariant, ConfigInvariant, NEW s \in Scans, UNCHANGED optionVars,
         \/ DeleteScan(s) \/ Deliver(s) \/ Dequeue(s)
         \/ ReconcileGet(s) \/ PatchCompleted(s) \/ HandleFailedScan(s)
  PROVE  ConfigInvariant'
<1>1. UNCHANGED <<wspec, read, configs, specs, incarnation>>
  BY DEF optionVars, DeleteScan, Deliver, Dequeue, ReconcileGet, PatchCompleted,
     HandleFailedScan, serverVars
<1>2. CASE DeleteScan(s) \/ Deliver(s)
  BY <1>1, <1>2, ConfigStays DEF DeleteScan, Deliver, workerVars
<1>3. CASE \/ Dequeue(s) \/ ReconcileGet(s) \/ PatchCompleted(s) \/ HandleFailedScan(s)
  <2>1. /\ pc[s] # "deploy"
        /\ \E p \in {"get", "idle", "running", "failed"} : pc' = [pc EXCEPT ![s] = p]
        /\ UNCHANGED obj \/ \E o : obj' = [obj EXCEPT ![s] = o]
    BY <1>3 DEF Dequeue, ReconcileGet, PatchCompleted, HandleFailedScan, Goto, Return
  <2>2. \A t \in Scans : pc'[t] = "deploy" => pc[t] = "deploy" /\ obj'[t] = obj[t]
    BY <2>1 DEF InductiveInvariant, TypeOK
  <2> QED BY <1>1, <2>2, ConfigStays
<1> QED BY <1>2, <1>3

LEMMA ConfigInvariantHolds == OptionsSpec => []ConfigInvariant
<1>1. OptionsInit => ConfigInvariant
  <2> SUFFICES ASSUME OptionsInit PROVE ConfigInvariant
    OBVIOUS
  <2>1. << >> \in Seq(OptionsRead)
    OBVIOUS
  <2>2. ReadFollows
    BY <2>1 DEF OptionsInit, Init, ReadFollows
  <2>3. ConfigsFollow
    BY DEF OptionsInit, Init, ConfigsFollow
  <2> QED BY <2>2, <2>3 DEF ConfigInvariant
<1>2. InductiveInvariant /\ InductiveInvariant' /\ RequestsTyped /\ SpecsTyped
        /\ ConfigInvariant /\ [OptionsNext]_allVars => ConfigInvariant'
  <2> SUFFICES ASSUME InductiveInvariant, InductiveInvariant', RequestsTyped, SpecsTyped,
                      ConfigInvariant, [OptionsNext]_allVars
               PROVE  ConfigInvariant'
    OBVIOUS
  <2>1. ASSUME UNCHANGED <<vars, wspec, read, configs, specs>>
        PROVE  ConfigInvariant'
    BY <2>1, ConfigStays DEF vars
  <2>2. CASE UNCHANGED allVars
    BY <2>1, <2>2 DEF allVars, optionVars
  <2>3. ASSUME NEW m, NEW c, ChangeOptions(m, c)
        PROVE  ConfigInvariant'
    BY <2>1, <2>3 DEF ChangeOptions
  <2>4. ASSUME NEW s, NEW spec, Submit(s, spec)
        PROVE  ConfigInvariant'
    BY <2>1, <2>4 DEF Submit
  <2>5. ASSUME NEW s \in Scans, NEW spec, UpdateScan(s, spec)
        PROVE  ConfigInvariant'
    BY <2>1, <2>5, UpdateChangesNothing
  <2>6. ASSUME NEW req, ValidateConfigMapReference(req)
        PROVE  ConfigInvariant'
    BY <2>1, <2>6 DEF ValidateConfigMapReference
  <2>7. ASSUME NEW req \in requests, Respond(req)
        PROVE  ConfigInvariant'
    BY <2>1, <2>7, RespondAdmits, AdmitsKeepsConfig
  <2>8. ASSUME NEW s \in Scans, DeleteScan(s) \/ Deliver(s) \/ Dequeue(s),
               UNCHANGED optionVars
        PROVE  ConfigInvariant'
    BY <2>8, OtherStepsKeepConfig
  <2>9. ASSUME NEW s \in Scans, WorkerStep(s)
        PROVE  ConfigInvariant'
    BY <2>9, OtherStepsKeepConfig, StartKeepsConfig, GetOptionsKeepsConfig,
       CreateKeepsConfig DEF WorkerStep
  <2>10. CASE OptionsNext
    BY <2>3, <2>4, <2>5, <2>6, <2>7, <2>8, <2>9, <2>10 DEF OptionsNext
  <2> QED BY <2>2, <2>10
<1> QED BY <1>1, <1>2, InductiveInvariantHolds, RequestsTypedHolds, SpecsTypedHolds, PTL
        DEF OptionsSpec

(***************************************************************************)
(* A diki config ConfigMap labelled with a UID is what the scan of that UID *)
(* asks for, for any specs, whatever the user creates, deletes and updates  *)
(* while the worker reads the options (deployDikiConfigMap, Handle).        *)
(***************************************************************************)
THEOREM ConfigIsRequestedHolds == OptionsSpec => []ConfigIsRequested
<1>1. ConfigInvariant => ConfigIsRequested
  <2>1. 1..MaxIncarnations \subseteq 0..MaxIncarnations
    BY BoundsAssumption
  <2> QED BY <2>1 DEF ConfigInvariant, ConfigsFollow, ConfigIsRequested
<1> QED BY <1>1, ConfigInvariantHolds, PTL

\* The variables of webhook and options keep their types.
THEOREM OptionsTypeOKHolds == OptionsSpec => []OptionsTypeOK
<1>1. Counters /\ RequestsTyped /\ SpecsTyped /\ ConfigInvariant => OptionsTypeOK
  BY BoundsAssumption, OptionsBoundAssumption
     DEF Counters, RequestsTyped, Requests, SpecsTyped, ConfigInvariant, ReadFollows,
         OptionsTypeOK
<1> QED BY <1>1, CountersHold, RequestsTypedHolds, SpecsTypedHolds,
           ConfigInvariantHolds, PTL

-----------------------------------------------------------------------------
(* What admission means. *)

\* Each reference of spec was seen with the key that it needs.
HasKeys(saw, spec) ==
  \A i \in 1..Len(saw) : HasKey(saw[i], WebhookKey(spec, Validated(spec)[i]))

\* The ConfigMaps are those that were seen.
IsCurrent(saw, spec) ==
  \A i \in 1..Len(saw) : saw[i] = options[Reference(spec, Validated(spec)[i]).configMap]

(***************************************************************************)
(* Whoever was admitted was seen with all keys, and without a mishap the    *)
(* ConfigMaps have not changed since and hold no broken YAML.               *)
(***************************************************************************)
AdmissionInvariant ==
  /\ \A req \in requests : /\ Len(req.saw) <= Len(Validated(req.spec))
                           /\ req.errs \/ HasKeys(req.saw, req.spec)
                           /\ mishaps = 0 => IsCurrent(req.saw, req.spec)
  /\ \A s \in Scans : \A u \in 1..incarnation[s] :
       /\ Len(admitted[s][u]) = Len(Validated(specs[s][u]))
       /\ HasKeys(admitted[s][u], specs[s][u])
       /\ mishaps = 0 => IsCurrent(admitted[s][u], specs[s][u])
  /\ mishaps = 0 => \A m \in ConfigMaps : ~Broken(options[m])

\* A mishap takes nothing from what was seen.
LEMMA MishapKeepsAdmission ==
  ASSUME AdmissionInvariant, Counters, mishaps' = mishaps + 1,
         UNCHANGED <<requests, incarnation, specs, admitted>>
  PROVE  AdmissionInvariant'
<1>1. mishaps' # 0
  BY DEF Counters
<1> QED BY <1>1 DEF AdmissionInvariant, HasKeys

LEMMA AdmissionStays ==
  ASSUME AdmissionInvariant,
         UNCHANGED <<options, mishaps, requests, incarnation, specs, admitted>>
  PROVE  AdmissionInvariant'
BY DEF AdmissionInvariant, HasKeys, IsCurrent

\* The empty list is what a request starts with.
LEMMA SubmitKeepsAdmission ==
  ASSUME AdmissionInvariant, NEW s \in Scans, NEW spec \in Specs, Submit(s, spec)
  PROVE  AdmissionInvariant'
<1> DEFINE new == [scan |-> s, spec |-> spec, saw |-> << >>, errs |-> FALSE]
<1>1. /\ requests' = {new}
      /\ UNCHANGED <<options, mishaps, incarnation, specs, admitted>>
  BY DEF Submit, vars
<1>2. new.saw = << >> /\ new.spec = spec
  OBVIOUS
<1> HIDE DEF new
<1>3. Validated(spec) \in Seq(Given(spec))
  BY SpecsAreSequences, ValidatedAreGiven
<1>4. Len(new.saw) <= Len(Validated(new.spec)) /\ 1..Len(new.saw) = {}
  BY <1>2, <1>3
<1>5. HasKeys(new.saw, new.spec) /\ IsCurrent(new.saw, new.spec)'
  BY <1>1, <1>4 DEF HasKeys, IsCurrent
<1>6. \A req \in requests' : /\ Len(req.saw) <= Len(Validated(req.spec))
                             /\ req.errs \/ HasKeys(req.saw, req.spec)
                             /\ mishaps' = 0 => IsCurrent(req.saw, req.spec)'
  BY <1>1, <1>4, <1>5
<1>7. \A t \in Scans : \A u \in 1..incarnation'[t] :
        /\ Len(admitted'[t][u]) = Len(Validated(specs'[t][u]))
        /\ HasKeys(admitted'[t][u], specs'[t][u])
        /\ mishaps' = 0 => IsCurrent(admitted[t][u], specs[t][u])'
  BY <1>1 DEF AdmissionInvariant, IsCurrent
<1>8. mishaps' = 0 => \A m \in ConfigMaps : ~Broken(options'[m])
  BY <1>1 DEF AdmissionInvariant
<1> QED BY <1>6, <1>7, <1>8 DEF AdmissionInvariant, HasKeys

LEMMA ValidateKeepsAdmission ==
  ASSUME AdmissionInvariant, RequestsTyped, Counters,
         NEW req \in requests, ValidateConfigMapReference(req)
  PROVE  AdmissionInvariant'
<1> DEFINE r == Validated(req.spec)[Len(req.saw) + 1]
           content == options[Reference(req.spec, r).configMap]
           lacks == ~HasKey(content, WebhookKey(req.spec, r))
<1>1. /\ req \in Requests /\ req.saw \in Seq(Contents) /\ req.errs \in BOOLEAN
      /\ Len(req.saw) < Len(Validated(req.spec))
      /\ UNCHANGED <<options, incarnation, specs, admitted>>
  BY DEF RequestsTyped, Requests, ValidateConfigMapReference, vars
<1>2. /\ ASpec(req.spec) /\ Len(req.saw) + 1 \in 1..Len(Validated(req.spec))
      /\ r \in Given(req.spec)
  BY <1>1, NextValidated
<1>3. content \in Contents
  BY <1>2, GivenConfigMap DEF RequestsTyped
<1>4. \/ requests' = {[req EXCEPT !.saw = Append(@, content), !.errs = @ \/ lacks]}
           /\ mishaps' = mishaps
      \/ requests' = {[req EXCEPT !.saw = Append(@, content), !.errs = TRUE]}
           /\ mishaps' = mishaps + 1
  BY DEF ValidateConfigMapReference
<1> HIDE DEF r, content, lacks
<1>5. PICK new : /\ requests' = {new} /\ new.saw = Append(req.saw, content)
                 /\ new.spec = req.spec
                 /\ new.errs \/ (~lacks /\ ~req.errs)
                 /\ mishaps' = mishaps \/ mishaps' = mishaps + 1
  BY <1>1, <1>4 DEF Requests
<1>6. mishaps' = 0 => mishaps = 0
  BY <1>5 DEF Counters
<1>7. Len(new.saw) = Len(req.saw) + 1 /\ Len(req.saw) \in Nat
  BY <1>1, <1>3, <1>5
<1>8. \A i \in 1..Len(new.saw) : \/ i \in 1..Len(req.saw) /\ new.saw[i] = req.saw[i]
                                 \/ i = Len(req.saw) + 1 /\ new.saw[i] = content
  BY <1>1, <1>3, <1>5
<1>9. Len(new.saw) <= Len(Validated(new.spec))
  BY <1>2, <1>5, <1>7
<1>10. new.errs \/ HasKeys(new.saw, new.spec)
  <2> SUFFICES ASSUME ~new.errs, NEW i \in 1..Len(new.saw)
               PROVE  HasKey(new.saw[i], WebhookKey(req.spec, Validated(req.spec)[i]))
    BY <1>5 DEF HasKeys
  <2>1. ~lacks /\ HasKeys(req.saw, req.spec)
    BY <1>5 DEF AdmissionInvariant
  <2> QED BY <1>8, <2>1 DEF HasKeys, lacks, r
<1>11. mishaps' = 0 => IsCurrent(new.saw, new.spec)'
  <2> SUFFICES ASSUME mishaps' = 0, NEW i \in 1..Len(new.saw)
               PROVE  new.saw[i] = options[Reference(req.spec, Validated(req.spec)[i]).configMap]
    BY <1>1, <1>5 DEF IsCurrent
  <2>1. IsCurrent(req.saw, req.spec)
    BY <1>6 DEF AdmissionInvariant
  <2> QED BY <1>8, <2>1 DEF IsCurrent, content, r
<1>12. \A s \in Scans : \A u \in 1..incarnation[s] :
         mishaps' = 0 => IsCurrent(admitted[s][u], specs[s][u])'
  BY <1>1, <1>6 DEF AdmissionInvariant, IsCurrent
<1> QED BY <1>1, <1>5, <1>6, <1>9, <1>10, <1>11, <1>12 DEF AdmissionInvariant, HasKeys

LEMMA AdmitsKeepsAdmission ==
  ASSUME AdmissionInvariant, InductiveInvariant, RequestsTyped, SpecsTyped,
         NEW req \in requests, Admits(req)
  PROVE  AdmissionInvariant'
<1> DEFINE n == incarnation[req.scan] + 1
<1>1. /\ req.scan \in Scans /\ n \in 1..MaxIncarnations /\ n \in 0..MaxIncarnations
      /\ \A s \in Scans : incarnation[s] \in 0..MaxIncarnations
  BY BoundsAssumption DEF Admits, RequestsTyped, Requests, InductiveInvariant, TypeOK
<1>2. /\ specs' = [specs EXCEPT ![req.scan][n] = req.spec]
      /\ admitted' = [admitted EXCEPT ![req.scan][n] = req.saw]
      /\ incarnation' = [incarnation EXCEPT ![req.scan] = n]
      /\ requests' = {} /\ UNCHANGED <<options, mishaps>>
      /\ ~req.errs /\ Len(req.saw) = Len(Validated(req.spec))
  BY DEF Admits
<1> HIDE DEF n
<1>3. ASSUME NEW s \in Scans, NEW u \in 1..incarnation'[s]
      PROVE  \/ s = req.scan /\ specs'[s][u] = req.spec /\ admitted'[s][u] = req.saw
             \/ /\ u \in 1..incarnation[s]
                /\ specs'[s][u] = specs[s][u] /\ admitted'[s][u] = admitted[s][u]
  <2>1. u \in 0..MaxIncarnations
    <3>1. incarnation'[s] = IF s = req.scan THEN n ELSE incarnation[s]
      BY <1>2 DEF InductiveInvariant, TypeOK
    <3> QED BY <1>1, <3>1, BoundsAssumption
  <2>2. CASE s = req.scan /\ u = n
    BY <1>1, <1>2, <2>2 DEF SpecsTyped
  <2>3. CASE ~(s = req.scan /\ u = n)
    <3>1. specs'[s][u] = specs[s][u] /\ admitted'[s][u] = admitted[s][u]
      BY <1>1, <1>2, <2>1, <2>3 DEF SpecsTyped
    <3>2. u \in 1..incarnation[s]
      BY <1>1, <1>2, <2>3 DEF InductiveInvariant, TypeOK, n
    <3> QED BY <3>1, <3>2
  <2> QED BY <2>2, <2>3
<1>4. /\ HasKeys(req.saw, req.spec)
      /\ mishaps = 0 => IsCurrent(req.saw, req.spec)
  BY <1>2 DEF AdmissionInvariant
<1>5. ASSUME NEW s \in Scans, NEW u \in 1..incarnation'[s]
      PROVE  /\ Len(admitted'[s][u]) = Len(Validated(specs'[s][u]))
             /\ HasKeys(admitted'[s][u], specs'[s][u])
             /\ mishaps = 0 => IsCurrent(admitted'[s][u], specs'[s][u])
  BY <1>2, <1>3, <1>4 DEF AdmissionInvariant
<1>6. \A s \in Scans : \A u \in 1..incarnation'[s] :
        mishaps' = 0 => IsCurrent(admitted[s][u], specs[s][u])'
  <2> SUFFICES ASSUME NEW s \in Scans, NEW u \in 1..incarnation'[s], mishaps' = 0
               PROVE  IsCurrent(admitted[s][u], specs[s][u])'
    OBVIOUS
  <2>1. IsCurrent(admitted'[s][u], specs'[s][u])
    BY <1>2, <1>5
  <2> QED BY <1>2, <2>1 DEF IsCurrent
<1>7. \A r \in requests' : FALSE
  BY <1>2
<1>8. mishaps' = 0 => \A m \in ConfigMaps : ~Broken(options'[m])
  BY <1>2 DEF AdmissionInvariant
<1> QED BY <1>5, <1>6, <1>7, <1>8 DEF AdmissionInvariant, HasKeys

LEMMA AdmissionInvariantHolds == OptionsSpec => []AdmissionInvariant
<1>1. OptionsInit => AdmissionInvariant
  <2> SUFFICES ASSUME OptionsInit PROVE AdmissionInvariant
    OBVIOUS
  <2>1. mishaps = 0 => \A m \in ConfigMaps : ~Broken(options[m])
    <3> DEFINE broken == {m \in ConfigMaps : Broken(options[m])}
    <3>1. IsFiniteSet(broken) /\ mishaps = Cardinality(broken)
      BY FewConfigMaps, FS_Subset DEF OptionsInit
    <3>2. mishaps = 0 => broken = {}
      BY <3>1, FS_EmptySet
    <3> QED BY <3>2
  <2>2. \A s \in Scans : 1..incarnation[s] = {}
    BY DEF OptionsInit, Init
  <2> QED BY <2>1, <2>2 DEF OptionsInit, AdmissionInvariant
<1>2. InductiveInvariant /\ Counters /\ RequestsTyped /\ SpecsTyped
        /\ AdmissionInvariant /\ [OptionsNext]_allVars => AdmissionInvariant'
  <2> SUFFICES ASSUME InductiveInvariant, Counters, RequestsTyped, SpecsTyped,
                      AdmissionInvariant, [OptionsNext]_allVars
               PROVE  AdmissionInvariant'
    OBVIOUS
  <2>1. CASE UNCHANGED allVars
    BY <2>1, AdmissionStays DEF allVars, optionVars, vars
  <2>2. ASSUME NEW m, NEW c, ChangeOptions(m, c)
        PROVE  AdmissionInvariant'
    BY <2>2, MishapKeepsAdmission DEF ChangeOptions, vars
  <2>3. ASSUME NEW s \in Scans, NEW spec, UpdateScan(s, spec)
        PROVE  AdmissionInvariant'
    BY <2>3, UpdateChangesNothing, AdmissionStays DEF vars
  <2>4. ASSUME NEW req \in requests, Respond(req)
        PROVE  AdmissionInvariant'
    <3>1. CASE Admits(req)
      BY <3>1, AdmitsKeepsAdmission
    <3>2. CASE /\ requests' = {}
               /\ UNCHANGED <<vars, options, mishaps, specs, admitted, wspec, read, configs>>
      BY <3>2 DEF AdmissionInvariant, HasKeys, IsCurrent, vars
    <3> QED BY <2>4, <3>1, <3>2, RespondAdmits
  <2>5. ASSUME NEW s \in Scans, DeleteScan(s) \/ Deliver(s) \/ Dequeue(s),
               UNCHANGED optionVars
        PROVE  AdmissionInvariant'
    BY <2>5, AdmissionStays DEF DeleteScan, Deliver, Dequeue, serverVars, optionVars
  <2>6. ASSUME NEW s \in Scans, WorkerStep(s)
        PROVE  AdmissionInvariant'
    <3>1. UNCHANGED <<options, mishaps, requests, incarnation, specs, admitted>>
      BY <2>6 DEF WorkerStep, ReconcileGet, PatchCompleted, HandleFailedScan,
         StartDeployment, PatchRunning, GetOptions, Create, DeployDikiConfigMap,
         serverVars, optionVars, vars
    <3> QED BY <3>1, AdmissionStays
  <2>7. CASE OptionsNext
    BY <2>2, <2>3, <2>4, <2>5, <2>6, <2>7, SubmitKeepsAdmission,
       ValidateKeepsAdmission DEF OptionsNext
  <2> QED BY <2>1, <2>7
<1> QED BY <1>1, <1>2, InductiveInvariantHolds, CountersHold, RequestsTypedHolds,
           SpecsTypedHolds, PTL DEF OptionsSpec

\* What the webhook saw behind a reference that deployDikiConfigMap needs.
LEMMA NeededWasSeen ==
  ASSUME InductiveInvariant, ConfigInvariant, AdmissionInvariant, SpecsTyped,
         NEW s \in Scans, pc[s] = "deploy", NEW r \in Given(wspec[s])
  PROVE  /\ HasKey(SeenBehind(s, r), OptionsKey(wspec[s], r))
         /\ mishaps = 0 => SeenBehind(s, r) = options[Reference(wspec[s], r).configMap]
<1> DEFINE refs == Validated(wspec[s])
           i == CHOOSE j \in DOMAIN refs : refs[j] = r
           saw == admitted[s][obj[s].uid]
<1>1. wspec[s] = specs[s][obj[s].uid] /\ ASpec(wspec[s])
  BY SpecsAreSequences DEF ConfigInvariant, ReadFollows
<1>2. refs \in Seq(Given(wspec[s])) /\ Elements(refs) = Given(wspec[s])
  BY <1>1, ValidatedAreGiven
<1>3. DOMAIN refs = 1..Len(refs)
  BY <1>2
<1>4. \E j \in DOMAIN refs : refs[j] = r
  BY <1>2, <1>3 DEF Elements
<1>5. i \in DOMAIN refs /\ refs[i] = r
  BY <1>4
<1>6. /\ Len(saw) = Len(refs) /\ HasKeys(saw, wspec[s])
      /\ mishaps = 0 => IsCurrent(saw, wspec[s])
  BY <1>1, DeployedUid DEF AdmissionInvariant
<1>7. SeenBehind(s, r) = saw[i]
  BY DEF SeenBehind
<1> HIDE DEF i, saw
<1>8. HasKey(saw[i], WebhookKey(wspec[s], r))
  BY <1>3, <1>5, <1>6 DEF HasKeys
<1>9. mishaps = 0 => saw[i] = options[Reference(wspec[s], r).configMap]
  BY <1>3, <1>5, <1>6 DEF IsCurrent
<1> QED BY <1>7, <1>8, <1>9, KeysAgree

(***************************************************************************)
(* The options of an admitted scan fail only if somebody changed the        *)
(* ConfigMap after the webhook looked, or for what it does not look at: for *)
(* any specs and in whatever order references are validated and read        *)
(* (Handle, deployDikiConfigMap, getConfigMapKeyValue).                     *)
(***************************************************************************)
THEOREM FailsOnlyIfChangedHolds == OptionsSpec => FailsOnlyIfChanged
<1> DEFINE Excused(s) ==
      LET r == NextNeeded(s)
          m == Reference(wspec[s], r).configMap
      IN  \/ options[m] # SeenBehind(s, r)
          \/ HasKey(options[m], OptionsKey(wspec[s], r))
<1>1. ASSUME InductiveInvariant, ConfigInvariant, AdmissionInvariant, SpecsTyped,
             [OptionsNext]_allVars, NEW s \in Scans, optionFailures' # optionFailures,
             pc[s] = "deploy", pc'[s] # "deploy"
      PROVE  Excused(s)
  <2>1. PICK t \in Scans : GetOptions(t) /\ pc' = [pc EXCEPT ![t] = "failed"]
    <3>1. ASSUME NEW t \in Scans, WorkerStep(t)
          PROVE  GetOptions(t) /\ pc' = [pc EXCEPT ![t] = "failed"]
      BY <1>1, <3>1 DEF WorkerStep, StartDeployment, Create, GetOptions, optionVars, vars,
         Fail, Goto
    <3>2. CASE OptionsNext
      BY <1>1, <3>1, <3>2 DEF OptionsNext, ChangeOptions, Submit, UpdateScan,
         ValidateConfigMapReference, Respond, optionVars
    <3> QED BY <1>1, <3>2 DEF allVars, optionVars
  <2>2. t = s
    BY <1>1, <2>1 DEF InductiveInvariant, TypeOK
  <2>3. /\ wspec[s] \in Specs \cup {<< >>} /\ Len(read[s]) \in Nat
        /\ Len(read[s]) < Len(Needed(wspec[s]))
    BY <1>1, <2>1, <2>2 DEF GetOptions, ConfigInvariant, ReadFollows
  <2>4. NextNeeded(s) \in Given(wspec[s])
    BY <2>3, NextNeededIsGiven
  <2> QED BY <1>1, <2>4, NeededWasSeen
<1>2. InductiveInvariant /\ ConfigInvariant /\ AdmissionInvariant /\ SpecsTyped
        /\ [OptionsNext]_allVars
      => [\A s \in Scans :
            optionFailures' # optionFailures /\ pc[s] = "deploy" /\ pc'[s] # "deploy" =>
              Excused(s)]_allVars
  BY <1>1
<1> QED BY <1>2, InductiveInvariantHolds, ConfigInvariantHolds, AdmissionInvariantHolds,
           SpecsTypedHolds, PTL DEF OptionsSpec, FailsOnlyIfChanged

\* Without a mishap every option that is needed can be read.
LEMMA NeededIsReadable ==
  ASSUME InductiveInvariant, ConfigInvariant, AdmissionInvariant, SpecsTyped,
         NEW s \in Scans, pc[s] = "deploy", mishaps = 0,
         Len(read[s]) < Len(Needed(wspec[s]))
  PROVE  Readable(options[Reference(wspec[s], NextNeeded(s)).configMap],
                  OptionsKey(wspec[s], NextNeeded(s)))
<1> DEFINE r == NextNeeded(s)
           content == options[Reference(wspec[s], r).configMap]
<1>1. wspec[s] \in Specs \cup {<< >>} /\ Len(read[s]) \in Nat
  BY DEF ConfigInvariant, ReadFollows
<1>2. ASpec(wspec[s]) /\ r \in Given(wspec[s])
  BY <1>1, NextNeededIsGiven
<1> HIDE DEF r
<1>3. HasKey(content, OptionsKey(wspec[s], r))
  BY <1>2, NeededWasSeen
<1>4. ~Broken(content)
  BY <1>2, GivenConfigMap DEF AdmissionInvariant
<1> HIDE DEF content
<1>5. Readable(content, OptionsKey(wspec[s], r))
  BY <1>3, <1>4 DEF Readable, HasKey, Broken
<1> QED BY <1>5 DEF content, r

-----------------------------------------------------------------------------
(* One mishap. *)

\* The controller, for which the mishaps are failures too.
Counted == INSTANCE ComplianceScanProofs WITH faults <- faults + mishaps

LEMMA AssumptionsCounted ==
  /\ Counted!BoundsAssumption
  /\ Counted!FaultKindsAssumption
  /\ Counted!WorkersAssumption
BY BoundsAssumption, FaultKindsAssumption, WorkersAssumption
   DEF Counted!BoundsAssumption, Counted!FaultKindsAssumption, Counted!WorkersAssumption

\* A failing call fits into the bound that it shares with the mishaps.
LEMMA FaultCounted ==
  ASSUME Counters, Counters', NEW kind, Fault(kind), mishaps' = mishaps
  PROVE  Counted!Fault(kind)
<1>1. /\ kind \in FaultKinds /\ faults' = faults + 1
      /\ faults' + mishaps' = (faults + mishaps) + 1
      /\ faults + mishaps < MaxFaults
  BY BoundsAssumption DEF Fault, Counters
<1> QED BY <1>1 DEF Counted!Fault

LEMMA ServerStepsCounted ==
  ASSUME NEW s, mishaps' = mishaps
  PROVE  /\ CreateScan(s) => Counted!CreateScan(s)
         /\ DeleteScan(s) => Counted!DeleteScan(s)
         /\ Deliver(s) => Counted!Deliver(s)
         /\ Dequeue(s) => Counted!Dequeue(s)
<1>1. NoScan = Counted!NoScan /\ \A u : NewScan(u) = Counted!NewScan(u)
  BY DEF NoScan, NewScan, Counted!NoScan, Counted!NewScan
<1>2. CreateScan(s) => Counted!CreateScan(s)
  BY <1>1 DEF CreateScan, Counted!CreateScan, Store, Counted!Store, workerVars,
     Counted!workerVars
<1>3. DeleteScan(s) => Counted!DeleteScan(s)
  BY <1>1 DEF DeleteScan, Counted!DeleteScan, Store, Counted!Store, workerVars,
     Counted!workerVars
<1>4. Deliver(s) => Counted!Deliver(s)
  BY <1>1 DEF Deliver, Counted!Deliver, Predicate, Counted!Predicate, workerVars,
     Counted!workerVars
<1>5. Dequeue(s) => Counted!Dequeue(s)
  <2>1. \A S : Cardinality(S) = Counted!Cardinality(S)
    BY DEF Cardinality, Counted!Cardinality
  <2> QED BY <2>1 DEF Dequeue, Counted!Dequeue, serverVars, Counted!serverVars
<1> QED BY <1>2, <1>3, <1>4, <1>5

LEMMA CountedHelpers ==
  /\ NoScan = Counted!NoScan
  /\ \A o : /\ RunningStatus(o) = Counted!RunningStatus(o)
            /\ CompletedStatus(o) = Counted!CompletedStatus(o)
            /\ FailedStatus(o) = Counted!FailedStatus(o)
            /\ AlreadyProcessed(o) <=> Counted!AlreadyProcessed(o)
  /\ \A s, o : Merged(s, o) = Counted!Merged(s, o)
<1>1. NoScan = Counted!NoScan
  BY DEF NoScan, NewScan, Counted!NoScan, Counted!NewScan
<1>2. \A c, t, x : UpdateConditions(c, t, x) = Counted!UpdateConditions(c, t, x)
  BY DEF UpdateConditions, Counted!UpdateConditions, Build, Counted!Build
<1>3. \A o : /\ RunningStatus(o) = Counted!RunningStatus(o)
             /\ CompletedStatus(o) = Counted!CompletedStatus(o)
             /\ FailedStatus(o) = Counted!FailedStatus(o)
             /\ AlreadyProcessed(o) <=> Counted!AlreadyProcessed(o)
  BY <1>2 DEF RunningStatus, Counted!RunningStatus, CompletedStatus,
     Counted!CompletedStatus, FailedStatus, Counted!FailedStatus,
     AlreadyProcessed, Counted!AlreadyProcessed
<1>4. \A s, o : Merged(s, o) = Counted!Merged(s, o)
  BY DEF Merged, Counted!Merged, MergePatch, Counted!MergePatch
<1> QED BY <1>1, <1>3, <1>4

LEMMA WorkerStepsCounted ==
  ASSUME Counters, Counters', mishaps' = mishaps, NEW s
  PROVE  /\ ReconcileGet(s) => Counted!ReconcileGet(s)
         /\ PatchRunning(s) => Counted!PatchRunning(s)
         /\ DeployDikiConfigMap(s) => Counted!DeployDikiConfigMap(s)
         /\ PatchCompleted(s) => Counted!PatchCompleted(s)
         /\ HandleFailedScan(s) => Counted!HandleFailedScan(s)
<1>1. \A kind : Fault(kind) => Counted!Fault(kind)
  BY FaultCounted
<1>2. /\ CallRejected(s) => Counted!CallRejected(s)
      /\ CallLost(s) => Counted!CallLost(s)
  BY <1>1 DEF CallRejected, Counted!CallRejected, CallLost, Counted!CallLost
<1>3. /\ \A label : Goto(s, label) => Counted!Goto(s, label)
      /\ \A err : Return(s, err) => Counted!Return(s, err)
  BY CountedHelpers DEF Goto, Counted!Goto, Return, Counted!Return
<1>4. \A new : /\ PatchOk(s, new) => Counted!PatchOk(s, new)
               /\ PatchFails(s, new) => Counted!PatchFails(s, new)
  BY <1>2, CountedHelpers DEF PatchOk, Counted!PatchOk, PatchFails,
     Counted!PatchFails, Store, Counted!Store
<1>5. ReconcileGet(s) => Counted!ReconcileGet(s)
  BY <1>1, <1>3, CountedHelpers DEF ReconcileGet, Counted!ReconcileGet, serverVars,
     Counted!serverVars
<1>6. PatchRunning(s) => Counted!PatchRunning(s)
  BY <1>3, <1>4, CountedHelpers DEF PatchRunning, Counted!PatchRunning
<1>7. DeployDikiConfigMap(s) => Counted!DeployDikiConfigMap(s)
  BY <1>1, <1>2, <1>3 DEF DeployDikiConfigMap, Counted!DeployDikiConfigMap,
     CreateConfigMap, Counted!CreateConfigMap, serverVars, Counted!serverVars
<1>8. PatchCompleted(s) => Counted!PatchCompleted(s)
  BY <1>3, <1>4, CountedHelpers DEF PatchCompleted, Counted!PatchCompleted
<1>9. HandleFailedScan(s) => Counted!HandleFailedScan(s)
  BY <1>3, <1>4, CountedHelpers DEF HandleFailedScan, Counted!HandleFailedScan
<1> QED BY <1>5, <1>6, <1>7, <1>8, <1>9


LEMMA InvariantCounted == Counters /\ InductiveInvariant => Counted!InductiveInvariant
<1> SUFFICES ASSUME Counters, InductiveInvariant
             PROVE  Counted!InductiveInvariant
  OBVIOUS
<1>1. NoScan = Counted!NoScan /\ \A p : ConditionsOf(p) = Counted!ConditionsOf(p)
  BY CountedHelpers DEF ConditionsOf, Counted!ConditionsOf
<1>2. Counted!TypeOK
  <2>1. faults + mishaps \in 0..MaxFaults
    BY BoundsAssumption DEF Counters
  <2>2. Objects = Counted!Objects
    BY DEF Objects, Counted!Objects, Phases, Counted!Phases, Conditions, Counted!Conditions
  <2> QED BY <2>1, <2>2 DEF InductiveInvariant, TypeOK, Counted!TypeOK
<1>3. Counted!CopiesOK /\ Counted!NewestIsStored
  BY <1>1 DEF InductiveInvariant, CopiesOK, Counted!CopiesOK, CopyOK, Counted!CopyOK,
     NewestIsStored, Counted!NewestIsStored
<1>4. Counted!WorkerOK /\ Counted!CompletedWasConfigured
  BY <1>1 DEF InductiveInvariant, WorkerOK, Counted!WorkerOK, Configured,
     Counted!Configured, CompletedWasConfigured, Counted!CompletedWasConfigured
<1> QED BY <1>2, <1>3, <1>4 DEF Counted!InductiveInvariant

\* A mishap leaves no scan behind: it is the only one, so none was failing.
LEMMA MishapHandled ==
  ASSUME MaxFaults <= 1, Counters, Counters', Counted!FailureIsHandled,
         faults' = faults, mishaps' = mishaps + 1, UNCHANGED <<scan, pc, expired>>
  PROVE  Counted!FailureIsHandled'
<1>1. faults + mishaps # 1
  BY BoundsAssumption DEF Counters
<1> QED BY <1>1 DEF Counted!FailureIsHandled

LEMMA OneAtMost ==
  ASSUME NEW m \in Nat, NEW a \in Nat, NEW b \in Nat, m <= 1, a + b <= m
  PROVE  a + b <= 1 /\ (b # 0 => a + b = 1) /\ (a # 0 => a + b = 1)
OBVIOUS

LEMMA OneMishapSpent ==
  ASSUME MaxFaults <= 1, Counters, Counters', mishaps' = mishaps,
         (faults' = faults /\ mishaps # 0) \/ faults' = faults + 1
  PROVE  faults' + mishaps' = 1
<1>1. /\ faults' \in Nat /\ mishaps' \in Nat /\ faults' + mishaps' <= MaxFaults
      /\ MaxFaults \in Nat
  BY BoundsAssumption DEF Counters
<1>2. mishaps' # 0 \/ faults' # 0
  <2>1. faults \in Nat
    BY DEF Counters
  <2>2. faults + 1 # 0
    BY <2>1
  <2> QED BY <2>2
<1> QED BY <1>1, <1>2, OneAtMost

\* Reading an option fails only after the one mishap, or with the one failing call.
LEMMA GetOptionsHandled ==
  ASSUME MaxFaults <= 1, Counters, Counters', InductiveInvariant, ConfigInvariant,
         AdmissionInvariant, SpecsTyped, Counted!FailureIsHandled,
         NEW s \in Scans, GetOptions(s)
  PROVE  Counted!FailureIsHandled'
<1>1. /\ scan' = scan /\ expired' = expired /\ mishaps' = mishaps
      /\ pc[s] = "deploy" /\ Len(read[s]) < Len(Needed(wspec[s]))
  BY DEF GetOptions, vars, serverVars, Fail, Goto
<1>2. CASE UNCHANGED vars
  BY <1>1, <1>2 DEF vars, Counted!FailureIsHandled
<1>3. CASE /\ pc' = [pc EXCEPT ![s] = "failed"]
           /\ \/ faults' = faults /\ mishaps # 0
              \/ faults' = faults + 1
  <2>1. faults' + mishaps' = 1
    BY <1>1, <1>3, OneMishapSpent
  <2>2. \A t \in Scans : pc'[t] = IF t = s THEN "failed" ELSE pc[t]
    BY <1>3 DEF InductiveInvariant, TypeOK
  <2> QED BY <1>1, <2>1, <2>2 DEF Counted!FailureIsHandled
<1>4. mishaps = 0 => Readable(options[Reference(wspec[s], NextNeeded(s)).configMap],
                              OptionsKey(wspec[s], NextNeeded(s)))
  BY <1>1, NeededIsReadable
<1> QED BY <1>2, <1>3, <1>4 DEF GetOptions, Fail, Goto, Fault

LEMMA OptionsFailureHandled ==
  ASSUME MaxFaults <= 1, Counters, Counters', InductiveInvariant, ConfigInvariant,
         AdmissionInvariant, RequestsTyped, SpecsTyped, Counted!FailureIsHandled,
         [OptionsNext]_allVars
  PROVE  Counted!FailureIsHandled'
<1>0. Counted!InductiveInvariant
  BY InvariantCounted
<1>1. ASSUME UNCHANGED <<scan, pc, expired, faults, mishaps>>
      PROVE  Counted!FailureIsHandled'
  BY <1>1 DEF Counted!FailureIsHandled
<1>2. ASSUME NEW s \in Scans, mishaps' = mishaps,
             CreateScan(s) \/ DeleteScan(s) \/ Deliver(s) \/ Dequeue(s)
      PROVE  Counted!FailureIsHandled'
  BY <1>0, <1>2, ServerStepsCounted, AssumptionsCounted, Counted!OthersHandled
<1>3. ASSUME NEW s \in Scans, mishaps' = mishaps,
             \/ ReconcileGet(s) \/ PatchRunning(s) \/ DeployDikiConfigMap(s)
             \/ PatchCompleted(s) \/ HandleFailedScan(s)
      PROVE  Counted!FailureIsHandled'
  <2>1. Counted!Worker(s)
    BY <1>3, WorkerStepsCounted DEF Counted!Worker
  <2> QED BY <1>0, <2>1, AssumptionsCounted, Counted!WorkerHandled
<1>4. CASE UNCHANGED allVars
  BY <1>1, <1>4 DEF allVars, vars, optionVars
<1>5. ASSUME NEW m, NEW c, ChangeOptions(m, c)
      PROVE  Counted!FailureIsHandled'
  BY <1>5, MishapHandled DEF ChangeOptions, vars
<1>6. ASSUME NEW s, NEW spec, Submit(s, spec) \/ UpdateScan(s, spec)
      PROVE  Counted!FailureIsHandled'
  BY <1>1, <1>6 DEF Submit, UpdateScan, vars
<1>7. ASSUME NEW req, ValidateConfigMapReference(req)
      PROVE  Counted!FailureIsHandled'
  BY <1>1, <1>7, MishapHandled DEF ValidateConfigMapReference, vars
<1>8. ASSUME NEW req \in requests, Respond(req)
      PROVE  Counted!FailureIsHandled'
  <2>1. req.scan \in Scans /\ mishaps' = mishaps
    BY <1>8 DEF RequestsTyped, Requests, Respond
  <2> QED BY <1>1, <1>2, <1>8, <2>1 DEF Respond, vars
<1>9. ASSUME NEW s \in Scans, WorkerStep(s)
      PROVE  Counted!FailureIsHandled'
  BY <1>3, <1>9, GetOptionsHandled DEF WorkerStep, StartDeployment, Create, optionVars
<1>10. CASE OptionsNext
  BY <1>2, <1>5, <1>6, <1>7, <1>8, <1>9, <1>10 DEF OptionsNext, optionVars
<1> QED BY <1>4, <1>10

(***************************************************************************)
(* One mishap, be it a failing call or a ConfigMap that changes after the   *)
(* admission, leaves no scan Running that nobody works on, however many     *)
(* options its spec refers to: an error while they are read ends in         *)
(* handleFailedScan like any other (deployDikiConfigMap, Reconcile).        *)
(***************************************************************************)
THEOREM OptionsLeaveNoneRunning ==
  ASSUME MaxFaults <= 1
  PROVE  OptionsSpec => []RunningIsRunning
<1>1. OptionsInit => Counted!FailureIsHandled
  <2> SUFFICES ASSUME OptionsInit PROVE Counted!FailureIsHandled
    OBVIOUS
  <2>1. NoScan.phase # "Running"
    BY DEF NoScan, NewScan
  <2> QED BY <2>1 DEF OptionsInit, Init, Counted!FailureIsHandled
<1>2. /\ Counters /\ Counters' /\ InductiveInvariant /\ ConfigInvariant
      /\ AdmissionInvariant /\ RequestsTyped /\ SpecsTyped
      /\ Counted!FailureIsHandled /\ [OptionsNext]_allVars
      => Counted!FailureIsHandled'
  BY OptionsFailureHandled
<1>3. Counted!FailureIsHandled => RunningIsRunning
  BY DEF Counted!FailureIsHandled, RunningIsRunning
<1> QED BY <1>1, <1>2, <1>3, CountersHold, InductiveInvariantHolds, ConfigInvariantHolds,
           AdmissionInvariantHolds, RequestsTypedHolds, SpecsTypedHolds, PTL
        DEF OptionsSpec
=============================================================================
