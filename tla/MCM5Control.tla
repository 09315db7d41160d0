----------------------------- MODULE MCM5Control -----------------------------
(***************************************************************************)
(* Instances of M5Control for TLC: two positions a jump apart, a jump that *)
(* is confirmed in its second frame, and one or two channels.              *)
(***************************************************************************)
EXTENDS M5Control

MCAngle == {0, 1}
MCNoSkip == {}
MCStreaming == {"start", "stop", "toggle"}
MCZeroing == {"zero_all", "zero_mask"}
MCStartOnly == {"start"}
=============================================================================
