------------------------------ MODULE CiChannel ------------------------------
(***************************************************************************)
(* What the transport layer promises to its callers (ci.h, ci_l2.h): what  *)
(* they send reaches the module in the order in which it was accepted, a   *)
(* message at a time, each at most once; a reset or a removal throws away  *)
(* what is under way.  Module CiLink does this with frames, a queue of     *)
(* limited size, a lock and a register interface.                          *)
(***************************************************************************)
EXTENDS Sequences

CONSTANTS Messages, None

VARIABLES
  channel,  \* messages accepted, oldest first
  front     \* the message the module is taking, if any

Init == channel = <<>> /\ front = None

Accept(m) == channel' = Append(channel, m) /\ UNCHANGED front

Deliver ==
  /\ front = None
  /\ channel # <<>>
  /\ front' = Head(channel)
  /\ channel' = Tail(channel)

Take == front # None /\ front' = None /\ UNCHANGED channel

ModuleReset == front' = None /\ UNCHANGED channel

Clear == channel' = <<>> /\ front' = None

Next ==
  \/ \E m \in Messages : Accept(m)
  \/ Deliver
  \/ Take
  \/ ModuleReset
  \/ Clear

Spec == Init /\ [][Next]_<<channel, front>>
=============================================================================
