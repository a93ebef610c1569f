--------------------------- MODULE MCScheduledScan ---------------------------
(* Small instances of the scheduledcompliancescan controller for TLC. *)
EXTENDS ScheduledScanController

(***************************************************************************)
(* "even" matches every second second, "never" no time at all, as           *)
(* "0 0 30 2 *" does; "bad" is no cron expression. A match beyond MaxTime   *)
(* keeps "even" from ending with the clock.                                 *)
(***************************************************************************)
MCSlots == [x \in Schedules |->
              CASE x = "even"  -> {s \in 1..(MaxTime + 2) : s % 2 = 0}
                [] OTHER       -> {}]

EvenSchedule == {"even"}
NeverSchedule == {"never"}
EditedSchedules == {"even", "bad"}
MCUnparsable == {"bad"} \cap Schedules

CallFaults == {"rejected", "lost"}
Rejections == {"rejected"}
NoFaults == {}
=============================================================================
