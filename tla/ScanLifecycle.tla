---------------------------- MODULE ScanLifecycle ----------------------------
(***************************************************************************)
(* What a ComplianceScan's status.phase promises to whoever watches it (the *)
(* ScheduledComplianceScan controller, the report-exporter, a user): the    *)
(* abstract specification that ComplianceScanController implements when a   *)
(* scan's name is not given to a second scan and no answer of the API       *)
(* server gets lost, and the environment in which ScheduledScanController   *)
(* runs.                                                                    *)
(***************************************************************************)
CONSTANT Scans          \* names of ComplianceScans

VARIABLE phase          \* phase[s]: status.phase of s, "Absent" without object

(***************************************************************************)
(* ComplianceScanPhase; "" is the phase of an object no controller touched. *)
(* The constant ComplianceScanPending of the API is never assigned.         *)
(***************************************************************************)
Phases == {"", "Running", "Completed", "Failed"}

(***************************************************************************)
(* The phase changes the status patches of the ComplianceScan controller    *)
(* make: a scan completes only out of Running, Completed and Failed are     *)
(* final.                                                                   *)
(***************************************************************************)
Moves == {<<"", "Running">>, <<"", "Failed">>,
          <<"Running", "Completed">>, <<"Running", "Failed">>}

Init == phase = [s \in Scans |-> "Absent"]

Create(s) == /\ phase[s] = "Absent"
             /\ phase' = [phase EXCEPT ![s] = ""]

Advance(s, to) == /\ <<phase[s], to>> \in Moves
                  /\ phase' = [phase EXCEPT ![s] = to]

Delete(s) == /\ phase[s] # "Absent"
             /\ phase' = [phase EXCEPT ![s] = "Absent"]

Next == \E s \in Scans :
          \/ Create(s)
          \/ \E to \in Phases : Advance(s, to)
          \/ Delete(s)

Spec == Init /\ [][Next]_phase
==============================================================================
