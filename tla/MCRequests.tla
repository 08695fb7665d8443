----------------------------- MODULE MCRequests -----------------------------
(***************************************************************************)
(* EngineRequests for TLC: three calls, one streaming, one streaming with  *)
(* media, one without a callback.                                          *)
(***************************************************************************)
EXTENDS EngineRequests

CONSTANTS r1, r2, r3
=============================================================================
