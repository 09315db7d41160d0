----------------------------- MODULE MCKerSample -----------------------------
(***************************************************************************)
(* Instances of KerSample for TLC: a circle of eight raw codes with the    *)
(* arm around the seam, an output scale of two with a correction of one    *)
(* step under one of two calibrations, and a sum of squares that saturates *)
(* within one run.                                                         *)
(***************************************************************************)
EXTENDS KerSample

MCExps == {0, 2}
MCCals == {"none", "A"}
MCPositions == {-1, 0, 2}
MCCorr == [k \in MCCals \X (0 .. 7) |-> IF k[1] = "A" /\ k[2] \in {1, 2, 7} THEN 1 ELSE 0]
=============================================================================
