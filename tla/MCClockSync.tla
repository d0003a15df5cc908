------------------------------- MODULE MCClockSync -------------------------------
(* Instances of ClockSync for TLC. *)
EXTENDS ClockSync

CONSTANTS depth, trade

Near == -1 .. 1
================================================================================
