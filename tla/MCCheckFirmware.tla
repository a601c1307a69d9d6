-------------------------- MODULE MCCheckFirmware --------------------------
(***************************************************************************)
(* Either script with three targets.                                       *)
(***************************************************************************)
EXTENDS CheckFirmware
=============================================================================
