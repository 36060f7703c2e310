----------------------------- MODULE MCFrpToken -----------------------------
(* The instance of FrpToken for TLC.                                       *)
EXTENDS FrpToken

CONSTANTS r1, r2
=============================================================================
