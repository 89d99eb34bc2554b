---------------------------- MODULE MCThreadDumps ----------------------------
(* Small instances of ThreadDumps for TLC. *)
EXTENDS ThreadDumps

Reading(h, m, s, n) == [hour |-> h, minute |-> m, second |-> s, ms |-> n]

\* One minute: the first reading has the name of the third, the second another.
SameMinute == <<Reading(10, 15, 0, 250), Reading(10, 15, 20, 251), Reading(10, 15, 40, 250)>>
=============================================================================
