---------------------------- MODULE MCThreadPool ----------------------------
(* Model values for ThreadPool, without symmetry: the run checks liveness. *)
EXTENDS ThreadPool
=============================================================================
