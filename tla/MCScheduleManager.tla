--------------------------- MODULE MCScheduleManager ---------------------------
(***************************************************************************)
(* Three tasks with intervals of one, two and two ticks, and a clock of    *)
(* eight values that starts either at zero or shortly before it wraps.     *)
(***************************************************************************)
EXTENDS ScheduleManager

Intervals == [t \in Node |-> IF t = 1 THEN 1 ELSE 2]
================================================================================
