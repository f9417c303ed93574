----------------------------- MODULE MCSwTimer -----------------------------
(* The two timers of main on counters of three bits.                       *)
EXTENDS SwTimer

CONSTANTS upTimeReportTimer, errorTimer
=============================================================================
