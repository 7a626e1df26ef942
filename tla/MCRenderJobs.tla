---------------------------- MODULE MCRenderJobs ----------------------------
(* Small instances of RenderJobs for TLC.                                   *)
EXTENDS RenderJobs, TLC

Symmetry == Permutations(Procs) \cup Permutations(Jobs)
=============================================================================
