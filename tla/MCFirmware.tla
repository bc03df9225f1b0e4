----------------------------- MODULE MCFirmware -----------------------------
(***************************************************************************)
(* Instances of Firmware for TLC.  873 is the longest pulse that counts as *)
(* a shipment, 874 the shortest that does not, 0 the timeout of pulseIn.   *)
(***************************************************************************)
EXTENDS Firmware

MCDurations == {0, 873, 874}

=============================================================================
