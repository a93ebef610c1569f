---------------------------- MODULE MCScanOptions ----------------------------
(* A small instance of scans with options for TLC. *)
EXTENDS ScanOptions

CONSTANTS s1, m1

OneScan == {s1}
OneConfigMap == {m1}
CallFaults == {"rejected", "lost"}

disa == "disa-kubernetes-stig"
hardened == "security-hardened-k8s"

Default == [configMap |-> m1, key |-> << >>]
Custom == [configMap |-> m1, key |-> <<"custom">>]

\* Both options of one ruleset, by their default keys, and one that is ignored.
SpecDefault == << [id |-> disa, options |-> [ruleset |-> Default, rules |-> Default]],
                  [id |-> "other", options |-> [rules |-> Custom]] >>

\* A ruleset without options, and one with a given key.
SpecCustom == << [id |-> disa, options |-> << >>],
                 [id |-> hardened, options |-> [rules |-> Custom]] >>

TwoSpecs == {SpecDefault, SpecCustom}

AllOfThem == {<<disa>>, <<disa, "-rules">>, <<"custom">>}
Complete == [k \in AllOfThem |-> "options"]

\* No ConfigMap, a complete one, one without the rule options, one with bad YAML.
SomeContents == {<< >>, Complete,
                 [k \in AllOfThem \ {<<disa, "-rules">>} |-> "options"],
                 [Complete EXCEPT ![<<disa, "-rules">>] = "garbage"]}
=============================================================================
