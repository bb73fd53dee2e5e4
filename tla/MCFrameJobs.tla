----------------------------- MODULE MCFrameJobs -----------------------------
(* Instances of FrameJobs for TLC.                                         *)
EXTENDS FrameJobs, TLC

\* Workers are interchangeable, and so are batches (safety runs only).
Symmetry == Permutations(Workers) \cup Permutations(Batches)
=============================================================================
