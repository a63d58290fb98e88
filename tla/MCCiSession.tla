---------------------------- MODULE MCCiSession ----------------------------
(* Small instances of CiSession for TLC. *)
EXTENDS CiSession

MCAll == ResourceIds
MCMenu == {"AppInfo", "MMI"}
MCUnknown == {"HostControl"}
MCCommands == {"ENTERMENU", "MMICLOSE", "ANSWER"}
=============================================================================
