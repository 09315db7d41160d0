---------------------------- MODULE MCKerSensor ----------------------------
(***************************************************************************)
(* Instances of KerSensor for TLC: small counters, so that each one        *)
(* saturates, and a housekeeping slot every second read.                   *)
(***************************************************************************)
EXTENDS KerSensor

MCRaw == {0, 1}
MCCals == {"A", "B"}
MCFaults == {"no_response", "crc", "reset", "status"}
=============================================================================
