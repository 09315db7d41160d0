------------------------------ MODULE MCFraming ------------------------------
(***************************************************************************)
(* Framing for TLC: a receiver holds bytes of at most three frames and a   *)
(* loss reaches back to them, so a few frame numbers tell all apart.       *)
(***************************************************************************)
EXTENDS Framing
=============================================================================
