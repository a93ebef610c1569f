----------------------------- MODULE ApiObjects ------------------------------
(***************************************************************************)
(* The references inside the API objects of diki.gardener.cloud/v1alpha1:   *)
(* the slices, maps and pointers of the Go types (types_*.go), and which of *)
(* them the generated DeepCopyInto functions make anew                      *)
(* (zz_generated.deepcopy.go). Whatever a copy does not make anew it shares *)
(* with its original.                                                       *)
(*                                                                          *)
(* A reference is the path of field names that leads to it; one through a   *)
(* slice stands for that of every element. Slices and pointers of values    *)
(* that hold no reference end a path. Time, ObjectReference and ObjectMeta  *)
(* belong to Kubernetes: their copies share nothing.                        *)
(***************************************************************************)
EXTENDS Sequences

Under(field, paths) == {<<field>> \o p : p \in paths}

\* A slice or pointer, and the references of what it leads to.
To(field, paths) == {<<field>>} \cup Under(field, paths)

-----------------------------------------------------------------------------
(* References of the types. *)

ObjectMetaRefs == {<<"labels">>, <<"annotations">>, <<"ownerReferences">>,
                   <<"finalizers">>, <<"managedFields">>}

OptionsConfigMapRefRefs == {<<"key">>}
OptionsRefs        == To("configMapRef", OptionsConfigMapRefRefs)
RulesetOptionsRefs == To("ruleset", OptionsRefs) \cup To("rules", OptionsRefs)
RulesetConfigRefs  == To("options", RulesetOptionsRefs)

ComplianceScanSpecRefs == To("rulesets", RulesetConfigRefs) \cup {<<"outputs">>}

RulesFindingsRefs  == {<<"failed">>, <<"errored">>, <<"warning">>}
RulesResultsRefs   == To("rules", RulesFindingsRefs)
RulesetSummaryRefs == Under("results", RulesResultsRefs)
OutputStatusRefs   == {<<"details">>}

ComplianceScanStatusRefs == {<<"conditions">>}
                              \cup To("rulesets", RulesetSummaryRefs)
                              \cup To("outputs", OutputStatusRefs)

ComplianceScanRefs == Under("metadata", ObjectMetaRefs)
                        \cup Under("spec", ComplianceScanSpecRefs)
                        \cup Under("status", ComplianceScanStatusRefs)

TemplateRefs == Under("spec", ComplianceScanSpecRefs)

ScheduledComplianceScanSpecRefs ==
  {<<"successfulScansHistoryLimit">>, <<"failedScansHistoryLimit">>}
    \cup Under("scanTemplate", TemplateRefs)

ScheduledComplianceScanStatusRefs ==
  {<<"active">>, <<"lastScheduleTime">>, <<"lastCompletionTime">>}

ScheduledComplianceScanRefs ==
  Under("metadata", ObjectMetaRefs)
    \cup Under("spec", ScheduledComplianceScanSpecRefs)
    \cup Under("status", ScheduledComplianceScanStatusRefs)

-----------------------------------------------------------------------------
(* What DeepCopyInto makes anew: *out = *in shares every reference, which   *)
(* each statement that follows undoes for one.                              *)

OptionsConfigMapRefCopies == {<<"key">>}
OptionsCopies        == To("configMapRef", OptionsConfigMapRefCopies)
RulesetOptionsCopies == To("ruleset", OptionsCopies) \cup To("rules", OptionsCopies)

RulesetConfigCopiesNothing == {}      \* mutant: Options added, not regenerated

RulesetConfigCopies  == To("options", RulesetOptionsCopies)

ComplianceScanSpecCopies ==
  To("rulesets", RulesetConfigCopies) \cup {<<"outputs">>}

RulesFindingsCopies  == {<<"failed">>, <<"errored">>, <<"warning">>}
RulesResultsCopies   == To("rules", RulesFindingsCopies)
RulesetSummaryCopies == Under("results", RulesResultsCopies)
OutputStatusCopies   == {<<"details">>}

\* mutant: DeepCopyInto of the status before it had conditions
StatusCopiesButConditions == To("rulesets", RulesetSummaryCopies)
                               \cup To("outputs", OutputStatusCopies)

ComplianceScanStatusCopies == {<<"conditions">>}
                                \cup To("rulesets", RulesetSummaryCopies)
                                \cup To("outputs", OutputStatusCopies)

ComplianceScanCopies == Under("metadata", ObjectMetaRefs)
                          \cup Under("spec", ComplianceScanSpecCopies)
                          \cup Under("status", ComplianceScanStatusCopies)

TemplateCopies == Under("spec", ComplianceScanSpecCopies)

ScheduledComplianceScanSpecCopies ==
  {<<"successfulScansHistoryLimit">>, <<"failedScansHistoryLimit">>}
    \cup Under("scanTemplate", TemplateCopies)

ScheduledComplianceScanStatusCopies ==
  {<<"active">>, <<"lastScheduleTime">>, <<"lastCompletionTime">>}

ScheduledComplianceScanCopies ==
  Under("metadata", ObjectMetaRefs)
    \cup Under("spec", ScheduledComplianceScanSpecCopies)
    \cup Under("status", ScheduledComplianceScanStatusCopies)
=============================================================================
