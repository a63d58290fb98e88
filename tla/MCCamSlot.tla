----------------------------- MODULE MCCamSlot -----------------------------
(* Small instances of CamSlot for TLC. *)
EXTENDS CamSlot
=============================================================================
