-------------------------- MODULE MCComplianceScan --------------------------
(* Small instances of the compliancescan controller for TLC. *)
EXTENDS ComplianceScanController

CONSTANTS s1, s2

OneScan == {s1}
TwoScans == {s1, s2}

AllFaults == {"rejected", "lost", "options", "timeout", "relist"}
KnownFaults == {"rejected", "options", "timeout", "relist"}
=============================================================================
