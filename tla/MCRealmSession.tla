--------------------------- MODULE MCRealmSession ---------------------------
(* The model values of RealmSession are numbers; the bounds are in the cfgs. *)
EXTENDS RealmSession, TLC
=============================================================================
