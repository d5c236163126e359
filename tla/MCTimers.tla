------------------------------ MODULE MCTimers ------------------------------
(* Timers with three timers: one for one shot; it and another are reset.   *)
EXTENDS Timers
MCInterval == [t \in Timer |-> IF t = "close" THEN 2 ELSE 1]
=============================================================================
