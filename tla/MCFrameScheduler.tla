-------------------------- MODULE MCFrameScheduler --------------------------
(* Model values for FrameScheduler. *)
EXTENDS FrameScheduler
=============================================================================
