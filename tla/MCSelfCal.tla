----------------------------- MODULE MCSelfCal -----------------------------
(***************************************************************************)
(* A station for TLC: a reference with an error of 50 arcsec, C1 39, C2 an *)
(* encoder-grade coupling of 6 arcsec that changes by 30 %, an artefact of *)
(* half a degree, four mountings of the reference, two of the horn.        *)
(***************************************************************************)
EXTENDS SelfCal

MCProcedures == {"v5", "v5_stage", "v6", "b_only"}
MCAAngles == <<0, 1, 2, 3>>
MCBAngles == <<0, 2>>
MCR == <<400, 300>>
MCS1 == <<100, 380>>
MCS2Now == {<<60, 0>>, <<72, 14>>}
MCM == <<18000, 0>>
MCClampLevels == {30, 100}
MCDrifts == {0, 10, 30, 100}
=============================================================================
