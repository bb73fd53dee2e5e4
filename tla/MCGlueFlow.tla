----------------------------- MODULE MCGlueFlow -----------------------------
(* The glue flow, checked by TLC.                                          *)
EXTENDS GlueFlow
=============================================================================
