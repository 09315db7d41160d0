----------------------------- MODULE MCKerCmd3 -----------------------------
(***************************************************************************)
(* Instances of KerCmd3 for TLC.  IDs and bodies are numbers and strings;  *)
(* the time-outs keep their order, T_IDLE and T_UNLOCK being the shorter.  *)
(***************************************************************************)
EXTENDS KerCmd3

MCIds == {1, 2}
MCOneId == {1}
MCNoId == 0
MCBuildDefault == 31
MCBody == {"zero", "cal", "bad", "ff"}
MCBodyOk == {"zero", "cal"}

MCGoodHeader == {HeaderFor(1)}
MCHeaders == {HeaderFor(1), [HeaderFor(1) EXCEPT !.ver = FALSE]}
MCCal == {"cal"}

\* A virgin part; a calibrated one; one with a page of a later layout.  A page
\* torn by a power loss is reached from each of them.
MCUserrow == {Virgin,
              Sealed(HeaderFor(2), "cal"),
              Sealed([HeaderFor(2) EXCEPT !.ver = FALSE], "cal")}
MCVirginRow == {Virgin}
MCKnownRows == {Virgin, Sealed(HeaderFor(2), "cal")}
=============================================================================
