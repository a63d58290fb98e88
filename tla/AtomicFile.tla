----------------------------- MODULE AtomicFile -----------------------------
(* What the writing of a configuration file promises: whoever opens the      *)
(* file finds one whole document, also after a power failure, which may      *)
(* bring back the document that was last on the disk.                        *)
CONSTANT Doc

VARIABLES
  file,    \* the document that is found
  saved    \* the document that would be found after a power failure

Init == file \in Doc /\ saved = file

Write == file' \in Doc /\ UNCHANGED saved

Save == saved' = file /\ UNCHANGED file

PowerFails == file' = saved /\ UNCHANGED saved

Next == Write \/ Save \/ PowerFails

Spec == Init /\ [][Next]_<<file, saved>>
=============================================================================
