-------------------------- MODULE MCRenditionDemand --------------------------
(* Small instances of RenditionDemand for TLC.                              *)
EXTENDS RenditionDemand, TLC

Symmetry == Permutations(Principals) \cup Permutations(Keys)
=============================================================================
