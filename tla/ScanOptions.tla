----------------------------- MODULE ScanOptions -----------------------------
(***************************************************************************)
(* The options of a ComplianceScan's rulesets on their way from user        *)
(* ConfigMaps into the diki configuration: the admission webhook            *)
(* (internal/webhook/compliancescan) checks every reference when a scan is  *)
(* created, deployDikiConfigMap (internal/reconciler/compliancescan) reads  *)
(* the references again when it is reconciled, and the ConfigMaps may       *)
(* change at any time in between.                                           *)
(*                                                                          *)
(* The module composes the webhook with ComplianceScanController: a scan is *)
(* created only by an allowed request, and the fault "options" of that      *)
(* module becomes what the ConfigMaps really contain. Restarts and expiring *)
(* contexts are left to it.                                                 *)
(***************************************************************************)
EXTENDS ComplianceScanController, Filter

CONSTANTS
  ConfigMaps,   \* the user's ConfigMaps
  Contents,     \* what they may contain: functions from keys to values
  Specs,        \* spec.rulesets of the scans that users create
  MaxOptionFailures   \* bound: deployments that fail for their options

ASSUME OptionsAreNoFault == "options" \notin FaultKinds

ASSUME OptionsBoundAssumption == MaxOptionFailures \in Nat

ASSUME FewConfigMaps == IsFiniteSet(ConfigMaps)

VARIABLES
  options,         \* options[m]: the ConfigMap m in the operator's cache
  mishaps,         \* changes of the ConfigMaps, broken ones at the start, and
                   \*   reads of the webhook that failed
  requests,        \* the admission request in flight
  specs,           \* specs[s][u]: spec.rulesets of the scan s with UID u
  admitted,        \* history: admitted[s][u]: what the webhook saw behind its
                   \*   references, in its order
  wspec,           \* wspec[s]: spec.rulesets of the worker's complianceScan
  read,            \* read[s]: the options deployDikiConfigMap got so far
  configs,         \* configs[s][u]: contents of the diki config ConfigMaps
  optionFailures   \* history: deployments that failed for their options

optionVars == <<options, mishaps, requests, specs, admitted, wspec, read, configs,
                optionFailures>>
allVars == <<vars, optionVars>>

-----------------------------------------------------------------------------
(* Rulesets, and what they refer to. *)

SupportedRulesets == {"disa-kubernetes-stig", "security-hardened-k8s"}

RuleOptionsSuffix == "-rules"

OptionKinds == {"ruleset", "rules"}

\* Each ruleset of a spec may have either option, behind a ConfigMap reference.
ASSUME SpecsAssumption ==
  \A spec \in Specs :
    /\ spec \in Seq({spec[i] : i \in DOMAIN spec})
    /\ \A i \in DOMAIN spec : /\ DOMAIN spec[i].options \subseteq OptionKinds
                              /\ \A k \in DOMAIN spec[i].options :
                                   spec[i].options[k].configMap \in ConfigMaps

(***************************************************************************)
(* spec.rulesets is a sequence of [id, options]; options is a function from *)
(* a subset of {"ruleset", "rules"} to references [configMap, key], key is  *)
(* << >> when it is not given. References lists the options of a spec       *)
(* that have a reference, ruleset by ruleset, and in each in this order.    *)
(***************************************************************************)
References(spec, kinds) ==
  LET all == [i \in 1..2 * Len(spec) |->
                [at |-> (i + 1) \div 2, kind |-> kinds[2 - (i % 2)]]]
  IN  Filtered(all, {i \in 1..2 * Len(spec) :
                       all[i].kind \in DOMAIN spec[all[i].at].options})

Reference(spec, r) == spec[r.at].options[r.kind]

\* configMapRef.Key, or the default when it is nil.
Key(ref, default) == IF ref.key = << >> THEN default ELSE ref.key

\* The references in the order of Handle: all rulesets, supported or not.
Validated(spec) == References(spec, <<"ruleset", "rules">>)

WebhookKeyOfRuleset(spec, r) ==                       \* mutant: one default key
  Key(Reference(spec, r), <<spec[r.at].id>>)

\* The key that Handle checks, with its defaultRulesetOptionsKey and
\* defaultRuleOptionsKey.
WebhookKey(spec, r) ==
  Key(Reference(spec, r), IF r.kind = "ruleset" THEN <<spec[r.at].id>>
                                                ELSE <<spec[r.at].id, RuleOptionsSuffix>>)

NeededByAll(spec) == References(spec, <<"rules", "ruleset">>)   \* mutant: no default

\* The references in the order of deployDikiConfigMap: unknown IDs are skipped.
Needed(spec) ==
  LET given == References(spec, <<"rules", "ruleset">>)
  IN  Filtered(given, {i \in DOMAIN given : spec[given[i].at].id \in SupportedRulesets})

\* The key that getRuleOptions and getRulesetOptions read.
OptionsKey(spec, r) ==
  LET rulesetID == spec[r.at].id
  IN  Key(Reference(spec, r), CASE r.kind = "rules"   -> <<rulesetID, RuleOptionsSuffix>>
                                [] r.kind = "ruleset" -> <<rulesetID>>)

(***************************************************************************)
(* A missing ConfigMap is one without keys: both are an error to the        *)
(* webhook and to the controller. "garbage" is a value that yaml.Unmarshal  *)
(* refuses.                                                                 *)
(***************************************************************************)
HasKey(content, key) == key \in DOMAIN content

Readable(content, key) == HasKey(content, key) /\ content[key] # "garbage"

Broken(content) == \E k \in DOMAIN content : content[k] = "garbage"

\* The supported rulesets of a spec, in its order.
SupportedOf(spec) == Filtered([i \in 1..Len(spec) |-> spec[i].id],
                              {i \in 1..Len(spec) : spec[i].id \in SupportedRulesets})

\* The configuration that deployDikiConfigMap creates of the options it got.
DikiConfig(spec, opts) ==
  [rulesets |-> SupportedOf(spec),
   options  |-> {opts[i] : i \in 1..Len(opts)}]

-----------------------------------------------------------------------------
OptionsInit ==
  /\ Init
  /\ options \in [ConfigMaps -> Contents]
  /\ mishaps = Cardinality({m \in ConfigMaps : Broken(options[m])})
  /\ mishaps <= MaxFaults
  /\ requests = {}
  /\ specs = [s \in Scans |-> [u \in 0..MaxIncarnations |-> << >>]]
  /\ admitted = specs
  /\ wspec = [s \in Scans |-> << >>]
  /\ read = [s \in Scans |-> << >>]
  /\ configs = [s \in Scans |-> [u \in 0..MaxIncarnations |-> {}]]
  /\ optionFailures = 0

(***************************************************************************)
(* A user changes, creates or deletes a ConfigMap. Webhook and controller   *)
(* only read the informer cache of one process: a stale read is one before  *)
(* a change that the user made earlier.                                     *)
(***************************************************************************)
ChangeOptions(m, content) ==
  /\ content # options[m]
  /\ options' = [options EXCEPT ![m] = content]
  /\ mishaps' = mishaps + 1
  /\ UNCHANGED <<vars, requests, specs, admitted, wspec, read, configs,
                 optionFailures>>

-----------------------------------------------------------------------------
(* The webhook. *)

\* A user asks to create the scan s.
Submit(s, spec) ==
  /\ requests = {}
  /\ scan[s] = NoScan
  /\ incarnation[s] < MaxIncarnations
  /\ requests' = {[scan |-> s, spec |-> spec, saw |-> << >>, errs |-> FALSE]}
  /\ UNCHANGED <<vars, options, mishaps, specs, admitted, wspec, read, configs,
                 optionFailures>>

\* One iteration of Handle's loop: all errors are collected.
ValidateConfigMapReference(req) ==
  LET refs    == Validated(req.spec)
      r       == refs[Len(req.saw) + 1]
      content == options[Reference(req.spec, r).configMap]
  IN  /\ Len(req.saw) < Len(refs)
      /\ \/ /\ requests' = {[req EXCEPT
                 !.saw = Append(@, content),
                 !.errs = @ \/ ~HasKey(content, WebhookKey(req.spec, r))]}
            /\ UNCHANGED mishaps
         \/ /\ requests' = {[req EXCEPT !.saw = Append(@, content), !.errs = TRUE]}
            /\ mishaps' = mishaps + 1                \* field.InternalError
      /\ UNCHANGED <<vars, options, specs, admitted, wspec, read, configs,
                     optionFailures>>

\* admission.Denied or admission.Allowed: then the API server stores the scan.
Respond(req) ==
  /\ Len(req.saw) = Len(Validated(req.spec))
  /\ requests' = {}
  /\ \/ req.errs /\ UNCHANGED <<vars, specs, admitted>>
     \/ /\ ~req.errs
        /\ CreateScan(req.scan)
        /\ specs' = [specs EXCEPT ![req.scan][incarnation'[req.scan]] = req.spec]
        /\ admitted' = [admitted EXCEPT ![req.scan][incarnation'[req.scan]] = req.saw]
  /\ UNCHANGED <<options, mishaps, wspec, read, configs, optionFailures>>

UpdateAlwaysAllowed(old, new) == TRUE                 \* mutant: no DeepEqual

\* Handle on Update: the spec must not differ.
UpdateAllowed(old, new) == old = new

UpdateScan(s, spec) ==
  /\ scan[s] # NoScan
  /\ UpdateAllowed(specs[s][scan[s].uid], spec)
  /\ specs' = [specs EXCEPT ![s][scan[s].uid] = spec]
  /\ UNCHANGED <<vars, options, mishaps, requests, admitted, wspec, read, configs,
                 optionFailures>>

-----------------------------------------------------------------------------
(* The controller. *)

\* The answer to the patch to Running is the object that deployDikiConfigMap gets.
StartDeployment(s) ==
  /\ PatchRunning(s)
  /\ IF pc'[s] = "deploy"
       THEN /\ wspec' = [wspec EXCEPT ![s] = specs[s][obj'[s].uid]]
            /\ read' = [read EXCEPT ![s] = << >>]
       ELSE UNCHANGED <<wspec, read>>
  /\ UNCHANGED <<options, mishaps, requests, specs, admitted, configs,
                 optionFailures>>

FailIgnored(s) == Goto(s, "completed")                \* mutant: err unchecked

FailReturned(s) == /\ pc' = [pc EXCEPT ![s] = "idle"] \* mutant: no handleFailedScan
                   /\ queue' = queue \cup {s}
                   /\ UNCHANGED expired

\* deployDikiConfigMap returns an error: on to handleFailedScan.
Fail(s) == Goto(s, "failed")

NextNeeded(s) == Needed(wspec[s])[Len(read[s]) + 1]

\* getRuleOptions or getRulesetOptions: one read of getConfigMapKeyValue.
GetOptions(s) ==
  LET r       == NextNeeded(s)
      ref     == Reference(wspec[s], r)
      key     == OptionsKey(wspec[s], r)
      content == options[ref.configMap]
  IN  /\ pc[s] = "deploy"
      /\ Len(read[s]) < Len(Needed(wspec[s]))
      /\ \/ /\ Readable(content, key)
            /\ read' = [read EXCEPT ![s] =
                 Append(@, [id |-> wspec[s][r.at].id, kind |-> r.kind,
                            configMap |-> ref.configMap, key |-> key])]
            /\ UNCHANGED <<vars, optionFailures>>
         \/ /\ ~Readable(content, key)
            /\ Fail(s)
            /\ optionFailures' = optionFailures + 1
            /\ UNCHANGED <<serverVars, configMaps, cache, obj, faults, restarts, read>>
         \/ /\ Fault("rejected")
            /\ Fail(s)
            /\ UNCHANGED <<serverVars, configMaps, cache, obj, restarts, read,
                           optionFailures>>
      /\ UNCHANGED <<options, mishaps, requests, specs, admitted, wspec, configs>>

\* The rest of deployDikiConfigMap: encode, create.
Create(s) ==
  /\ Len(read[s]) = Len(Needed(wspec[s]))
  /\ DeployDikiConfigMap(s)
  /\ configs' = IF configMaps' = configMaps THEN configs ELSE
       [configs EXCEPT ![s][obj[s].uid] = @ \cup {DikiConfig(wspec[s], read[s])}]
  /\ UNCHANGED <<options, mishaps, requests, specs, admitted, wspec, read,
                 optionFailures>>

-----------------------------------------------------------------------------
WorkerStep(s) == \/ /\ ReconcileGet(s) \/ PatchCompleted(s) \/ HandleFailedScan(s)
                    /\ UNCHANGED optionVars
                 \/ StartDeployment(s)
                 \/ GetOptions(s)
                 \/ Create(s)

(***************************************************************************)
(* Bounds: MaxFaults counts the failing calls of the controller and the     *)
(* mishaps. MaxOptionFailures must be so large that it stops no worker: a   *)
(* scan that is deleted while its failure is handled is tried again, on a   *)
(* scan of the same name, without a failing call.                           *)
(***************************************************************************)
OptionsNext ==
  /\ \/ \E m \in ConfigMaps, c \in Contents : ChangeOptions(m, c)
     \/ \E s \in Scans, spec \in Specs : Submit(s, spec) \/ UpdateScan(s, spec)
     \/ \E req \in requests : ValidateConfigMapReference(req) \/ Respond(req)
     \/ \E s \in Scans : \/ /\ DeleteScan(s) \/ Deliver(s) \/ Dequeue(s)
                            /\ UNCHANGED optionVars
                         \/ WorkerStep(s)
  /\ faults' + mishaps' <= MaxFaults
  /\ optionFailures' <= MaxOptionFailures

OptionsSpec == OptionsInit /\ [][OptionsNext]_allVars

\* As in ComplianceScanController; nothing is assumed of users and requests.
OptionsFairSpec ==
  /\ OptionsSpec
  /\ \A s \in Scans : /\ WF_allVars(Deliver(s) /\ UNCHANGED optionVars)
                      /\ SF_allVars(Dequeue(s) /\ UNCHANGED optionVars)
                      /\ WF_allVars(WorkerStep(s))

-----------------------------------------------------------------------------
(* Properties. *)

AllKeys == UNION {DOMAIN c : c \in Contents}

OptionsRead == [id : SupportedRulesets, kind : OptionKinds,
                configMap : ConfigMaps, key : AllKeys]

\* Every variable has its type; what was read is a key that users know.
OptionsTypeOK ==
  /\ options \in [ConfigMaps -> Contents]
  /\ mishaps \in 0..MaxFaults
  /\ requests \subseteq [scan : Scans, spec : Specs, saw : Seq(Contents),
                         errs : BOOLEAN]
  /\ specs \in [Scans -> [0..MaxIncarnations -> Specs \cup {<< >>}]]
  /\ wspec \in [Scans -> Specs \cup {<< >>}]
  /\ read \in [Scans -> Seq(OptionsRead)]
  /\ optionFailures \in 0..MaxOptionFailures

\* The key behind a reference that gives none.
DefaultKey(id, kind) == IF kind = "ruleset" THEN <<id>> ELSE <<id, "-rules">>

(***************************************************************************)
(* What a user asks for: the supported rulesets of the spec in their order, *)
(* and for each of their references the given key or the default one.       *)
(***************************************************************************)
Requested(spec) ==
  LET asked == {r \in [at : 1..Len(spec), kind : OptionKinds] :
                  /\ spec[r.at].id \in SupportedRulesets
                  /\ r.kind \in DOMAIN spec[r.at].options}
      Asked(r, ref) == [id |-> spec[r.at].id, kind |-> r.kind,
                        configMap |-> ref.configMap,
                        key |-> IF ref.key # << >> THEN ref.key
                                ELSE DefaultKey(spec[r.at].id, r.kind)]
  IN  [rulesets |-> SupportedOf(spec),
       options  |-> {Asked(r, spec[r.at].options[r.kind]) : r \in asked}]

(***************************************************************************)
(* A diki config ConfigMap labelled with a UID is the one that the scan of  *)
(* that UID asks for in the spec its user sees, although the scan may be    *)
(* deleted, created anew under its name and updated while the worker reads  *)
(* the options one by one (deployDikiConfigMap; Handle on Update).          *)
(***************************************************************************)
ConfigIsRequested ==
  \A s \in Scans : \A u \in 1..MaxIncarnations :
    configs[s][u] \subseteq {Requested(specs[s][u])}

(***************************************************************************)
(* Admission means something: the options of an admitted scan fail only if  *)
(* the referenced ConfigMap is not what the webhook saw behind the same     *)
(* reference, or its value is no YAML, which the webhook does not check     *)
(* (Handle and getConfigMapKeyValue resolve references on their own, in     *)
(* different orders and for different rulesets).                            *)
(***************************************************************************)
SeenBehind(s, r) ==
  admitted[s][obj[s].uid][CHOOSE i \in DOMAIN Validated(wspec[s]) :
                            Validated(wspec[s])[i] = r]

FailsOnlyIfChanged ==
  [][\A s \in Scans :
       optionFailures' # optionFailures /\ pc[s] = "deploy" /\ pc'[s] # "deploy" =>
         LET r == NextNeeded(s)
             m == Reference(wspec[s], r).configMap
         IN  \/ options[m] # SeenBehind(s, r)
             \/ HasKey(options[m], OptionsKey(wspec[s], r))]_allVars

\* The controller with its fault "options", for which every option that fails
\* stands.
Controller == INSTANCE ComplianceScanController WITH
  FaultKinds <- FaultKinds \cup {"options"},
  MaxFaults  <- MaxFaults + MaxOptionFailures,
  faults     <- faults + optionFailures

(***************************************************************************)
(* Webhook, options and controller together do nothing that                 *)
(* ComplianceScanController does not allow: reading the options one by one  *)
(* in the middle of Reconcile adds no behaviour to it.                      *)
(***************************************************************************)
ControllerSpec == Controller!Spec
=============================================================================
