--------------------------- MODULE MCAngleUnwrap ---------------------------
(* Joint 1 of the left arm, inverted, on a grid of 20 degrees.             *)
EXTENDS AngleUnwrap
MCMin == -160
MCOffset == -20
MCPoses == {20 * i : i \in -9 .. 5}
MCMounts == {0, 50, 350}
=============================================================================
