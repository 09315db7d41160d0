------------------------------ MODULE MCKerLoop ------------------------------
(***************************************************************************)
(* Instances of KerLoop for TLC.  Two raw codes, one calibration and the   *)
(* uncalibrated mapping, and two of the failures: one that is always held  *)
(* (crc) and one that is passed through at once (status, PERSIST_FAIL 1).  *)
(***************************************************************************)
EXTENDS KerLoop

MCRaw == {0, 1}
MCCals == {"A"}
MCFaults == {"crc", "status"}
=============================================================================
