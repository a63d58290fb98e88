---------------------------- MODULE MCTimerTask ----------------------------
(* A small instance of TimerTask for TLC: one caller, as in test_timer, who   *)
(* may register a task again before it is removed, so that two tasks fill the *)
(* table.                                                                     *)
EXTENDS TimerTask
=============================================================================
