--------------------------- MODULE MCUpdateBridge ---------------------------
(***************************************************************************)
(* Constants of the TLC runs of UpdateBridge.                              *)
(***************************************************************************)
EXTENDS UpdateBridge

CONSTANTS t1, t2, r1, r2

OneTick == {t1}
TwoTicks == {t1, t2}
OneCall == {r1}
TwoCalls == {r1, r2}
=============================================================================
