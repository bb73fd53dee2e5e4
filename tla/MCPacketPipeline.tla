-------------------------- MODULE MCPacketPipeline --------------------------
(* The model values of PacketPipeline are numbers; the bounds are in the cfgs. *)
EXTENDS PacketPipeline
=============================================================================
