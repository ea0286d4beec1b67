----------------------------- MODULE MCTimerLib -----------------------------
(* TimerLib on a small instance.                                           *)
EXTENDS TimerLib

=============================================================================
