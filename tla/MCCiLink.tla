------------------------------ MODULE MCCiLink ------------------------------
(* Small instances of CiLink for TLC: a thread that sends a message of up  *)
(* to two frames, which competes with the task's own messages, and modules *)
(* that offer too small a buffer, or one beyond what the host can use.     *)
EXTENDS CiLink

CONSTANTS t1, long
MCThread == {t1}
MCMessage == {long}
MCOffered == {15, 1000}
MCLarge == {512}
=============================================================================
