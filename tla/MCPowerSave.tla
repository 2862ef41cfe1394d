---------------------------- MODULE MCPowerSave ----------------------------
(***************************************************************************)
(* Instances of PowerSave for TLC.                                         *)
(***************************************************************************)
EXTENDS PowerSave
=============================================================================
