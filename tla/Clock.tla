-------------------------------- MODULE Clock --------------------------------
(* The day new Date() falls on when a handler looks.                       *)
EXTENDS Database

CONSTANT Calendar   \* the days a behaviour goes through

ASSUME CalendarAssumption == Calendar \subseteq Day

VARIABLE today

ClockInit == today \in Calendar

NextDay == today + 1 \in Calendar /\ today' = today + 1
=============================================================================
