--------------------------- MODULE MCModelStreamer ---------------------------
(* Model values for ModelStreamer: two models at two priorities, or one. *)
EXTENDS ModelStreamer
=============================================================================
