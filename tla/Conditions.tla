----------------------------- MODULE Conditions ------------------------------
(***************************************************************************)
(* The conditions helper (pkg/apis/diki/v1alpha1/helper), with reasons,     *)
(* messages and times. "" and 0 are the zero values of a string and of a    *)
(* time.                                                                    *)
(***************************************************************************)
EXTENDS Naturals, Sequences, Filter

ConditionTypes    == {"Completed", "Failed"}
ConditionStatuses == {"True", "False", "Unknown"}

Condition(type, status, reason, message, updated, transitioned) ==
  [type |-> type, status |-> status, reason |-> reason, message |-> message,
   lastUpdateTime |-> updated, lastTransitionTime |-> transitioned]

ZeroCondition == Condition("", "", "", "", 0, 0)

\* What the controller says of a condition, at the time it says it.
Report(type, status, reason, message, time) ==
  [type |-> type, status |-> status, reason |-> reason, message |-> message,
   time |-> time]

Or(first, second) == IF first # "" THEN first ELSE second

\* The time a condition keeps unless something changed or there is none yet.
Since(changed, time, now) == IF changed \/ time = 0 THEN now ELSE time

BuildKeepingTransition(old, new) ==      \* mutant: the change of the status not seen
  Condition(new.type, Or(new.status, Or(old.status, "Unknown")),
            Or(new.reason, Or(old.reason, "Unspecified")),
            Or(new.message, Or(old.message, "No message given.")),
            Since(TRUE, old.lastUpdateTime, new.time),
            Since(FALSE, old.lastTransitionTime, new.time))

BuildWithoutType(old, new) ==      \* mutant: the type taken from the old condition
  Condition(old.type, Or(new.status, Or(old.status, "Unknown")),
            Or(new.reason, Or(old.reason, "Unspecified")),
            Or(new.message, Or(old.message, "No message given.")),
            new.time, new.time)

\* The report new on a condition, over the old one (WithOldCondition).
Build(old, new) ==
  LET status  == Or(new.status, Or(old.status, "Unknown"))
      reason  == Or(new.reason, Or(old.reason, "Unspecified"))
      message == Or(new.message, Or(old.message, "No message given."))
  IN  Condition(new.type, status, reason, message,
                Since(reason # old.reason \/ message # old.message,
                      old.lastUpdateTime, new.time),
                Since(status # old.status, old.lastTransitionTime, new.time))

Has(conditions, type) == \E i \in DOMAIN conditions : conditions[i].type = type

\* The first condition of the type, where the loop stops.
Position(conditions, type) ==
  CHOOSE i \in DOMAIN conditions :
    /\ conditions[i].type = type
    /\ \A j \in DOMAIN conditions : conditions[j].type = type => i <= j

UpdateConditions(conditions, new) ==
  IF Has(conditions, new.type)
  THEN [conditions EXCEPT ![Position(conditions, new.type)] = Build(@, new)]
  ELSE Append(conditions, Build(ZeroCondition, new))

\* slices.DeleteFunc in handleFailedScan.
WithoutCompleted(conditions) ==
  Filtered(conditions, {i \in DOMAIN conditions : conditions[i].type # "Completed"})

OnePerType(conditions) ==
  \A i, j \in DOMAIN conditions : conditions[i].type = conditions[j].type => i = j
=============================================================================
