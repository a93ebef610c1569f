--------------------------- MODULE MCProcessMemory ---------------------------
(* Small instances of the memory of a process for TLC. *)
EXTENDS ProcessMemory, TLC

CONSTANTS s1, s2

MCScans == {s1, s2}

ScanSymmetry == Permutations(MCScans)
=============================================================================
