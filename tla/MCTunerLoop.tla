---------------------------- MODULE MCTunerLoop ----------------------------
(* A small instance of TunerLoop for TLC: one channel is set, another keeps   *)
(* the task away from it.                                                     *)
EXTENDS TunerLoop
=============================================================================
